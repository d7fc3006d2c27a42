----------------------------- MODULE Listening -----------------------------
(***************************************************************************)
(* The saved searches of one organization: users' requests, which read a   *)
(* row and write it later, and the worker's runs, which read it, search    *)
(* platform after platform and write last_run_at at the end.               *)
(*                                                                         *)
(* The clock counts periods of ten minutes, SINCE_OVERLAP_MS.  A run takes *)
(* no longer than that, and a first run looks back over the whole clock.   *)
(* What a search finds is what was said in a period, for the text and the  *)
(* platform asked.                                                         *)
(***************************************************************************)
EXTENDS Naturals, FiniteSets

CONSTANTS
  Queries,    \* ids of listening_queries rows
  Searchable, \* platforms that can be searched
  Calls,      \* API requests that may run at once
  Workers,    \* job slots of the engagement worker
  MaxActive,  \* MAX_ACTIVE_QUERIES
  MaxText,    \* bound: texts a search may have
  MaxClock,   \* bound: periods
  MaxMoves    \* bound: API requests in a behaviour

\* What a configuration must give them.
ListeningParameters ==
  /\ {MaxActive, MaxClock, MaxMoves} \subseteq Nat /\ MaxText \in Nat \ {0}
  /\ IsFiniteSet(Queries)

VARIABLES
  clock,
  query,    \* the listening_queries rows
  call,     \* of each request: the row it read and what it was asked to write
  run,      \* of each worker: the row it read and the platforms it has yet to search
  left,     \* bound left
  heard,    \* history: what was stored, as <<platform, text, period>>
  excused,  \* history: what a run left out, because of a refusal or the cap of new rows
  slipped,  \* history: searches saved as active although they were paused meanwhile
  blurred   \* history: searches whose last_run_at may be of another text or platform

lvars == <<clock, query, call, run, left, heard, excused, slipped, blurred>>

Never == MaxClock + 1
Texts == 1..MaxText
NoRow == [st |-> "none", active |-> FALSE, text |-> 0, providers |-> {}, last |-> Never]
NoCall == [pc |-> "idle", query |-> NoRow, id |-> 0, active |-> FALSE, text |-> 0, providers |-> {}]
NoRun == [pc |-> "idle", id |-> 0, text |-> 0, since |-> 0, started |-> 0, todo |-> {}]

Exists(q) == query[q].st = "row"
Running(q) == \E w \in Workers : run[w].pc = "search" /\ run[w].id = q
Active(except) == {q \in Queries \ except : query[q].active}
HasCapacity(except) == Cardinality(Active(except)) < MaxActive

-----------------------------------------------------------------------------
(* createQuery, updateQuery, deleteQuery *)

\* The organization's lock is held from the count to the insert.
CreateQuery(q) ==
  /\ query[q].st = "none" /\ left > 0
  /\ HasCapacity({})
  /\ \E p \in (SUBSET Searchable) \ {{}} :
       query' = [query EXCEPT ![q] = [st |-> "row", active |-> TRUE, text |-> 1, providers |-> p,
                                      last |-> Never]]
  /\ left' = left - 1
  /\ UNCHANGED <<clock, call, run, heard, excused, slipped, blurred>>

\* updateQuery reads the row, without a lock.
UpdateRead(c, q) ==
  /\ call[c].pc = "idle" /\ left > 0 /\ Exists(q)
  /\ left' = left - 1
  /\ \E active \in BOOLEAN, text \in Texts, p \in (SUBSET Searchable) \ {{}} :
       call' = [call EXCEPT ![c] = [pc |-> "write", query |-> query[q], id |-> q,
                                    active |-> active, text |-> text, providers |-> p]]
  /\ UNCHANGED <<clock, query, run, heard, excused, slipped, blurred>>

\* Mutant of LastRun: a changed search goes on from its last run.
LastRunKept(v, now) == now.last

\* A search whose text changes, as far as the row read tells, starts fresh.
LastRun(v, now) == IF v.text # v.query.text THEN Never ELSE now.last

\* Only a row that was read as paused is counted.  The update writes over what came in between.
UpdateWrite(c) ==
  LET v == call[c]
      q == v.id
      now == query[q]
      fresh == v.text # v.query.text
  IN /\ v.pc = "write"
     /\ call' = [call EXCEPT ![c] = NoCall]
     /\ IF now.st = "row" /\ (v.active /\ ~ v.query.active => HasCapacity({q}))
        THEN /\ query' = [query EXCEPT ![q] = [st |-> "row", active |-> v.active, text |-> v.text,
                                               providers |-> v.providers, last |-> LastRun(v, now)]]
             /\ slipped' = IF ~ v.active THEN slipped \ {q}
                           ELSE IF v.query.active /\ ~ now.active THEN slipped \cup {q} ELSE slipped
             /\ blurred' = IF fresh /\ ~ Running(q) THEN blurred \ {q}
                           ELSE IF fresh \/ v.text # now.text \/ ~ v.providers \subseteq now.providers
                                THEN blurred \cup {q} ELSE blurred
        ELSE UNCHANGED <<query, slipped, blurred>>
     /\ UNCHANGED <<clock, run, left, heard, excused>>

DeleteQuery(q) ==
  /\ Exists(q) /\ left > 0
  /\ query' = [query EXCEPT ![q] = [NoRow EXCEPT !.st = "deleted"]]
  /\ left' = left - 1
  /\ slipped' = slipped \ {q} /\ blurred' = blurred \ {q}
  /\ UNCHANGED <<clock, call, run, heard, excused>>

-----------------------------------------------------------------------------
(* listen.  A job is planned per period for a search that is due, is retried, and runs twice  *)
(* at once when a worker stalls: a run may begin on any idle worker.                          *)

Since(last) == IF last = Never \/ last = 0 THEN 0 ELSE last - 1

Start(w, q) ==
  /\ run[w].pc = "idle"
  /\ Exists(q) /\ query[q].active
  /\ run' = [run EXCEPT ![w] = [pc |-> "search", id |-> q, text |-> query[q].text, started |-> clock,
                                since |-> Since(query[q].last), todo |-> query[q].providers]]
  /\ UNCHANGED <<clock, query, call, left, heard, excused, slipped, blurred>>

Asked(w, p) == {<<p, run[w].text, t>> : t \in {t \in 0..MaxClock : run[w].since <= t /\ t < clock}}

\* One platform's results are stored, row after row.
Searched(w, p) ==
  /\ run[w].pc = "search" /\ p \in run[w].todo
  /\ heard' = heard \cup Asked(w, p)
  /\ run' = [run EXCEPT ![w].todo = @ \ {p}]
  /\ UNCHANGED <<clock, query, call, left, excused, slipped, blurred>>

\* The platform refused, no channel can search it, or the run has stored all it may: the run
\* goes on to its end all the same.
LeftOut(w, p) ==
  /\ run[w].pc = "search" /\ p \in run[w].todo
  /\ excused' = excused \cup Asked(w, p)
  /\ run' = [run EXCEPT ![w].todo = @ \ {p}]
  /\ UNCHANGED <<clock, query, call, left, heard, slipped, blurred>>

\* The update is of the row's id alone, whatever the row has become.
Finish(w) ==
  LET q == run[w].id
  IN /\ run[w].pc = "search" /\ run[w].todo = {}
     /\ run' = [run EXCEPT ![w] = NoRun]
     /\ IF Exists(q)
        THEN query' = [query EXCEPT ![q].last = clock]
        ELSE UNCHANGED query
     /\ UNCHANGED <<clock, call, left, heard, excused, slipped, blurred>>

\* Any other failure, a spent call budget, or the end of the process.
Stops(w) ==
  /\ run[w].pc = "search"
  /\ run' = [run EXCEPT ![w] = NoRun]
  /\ UNCHANGED <<clock, query, call, left, heard, excused, slipped, blurred>>

Tick ==
  /\ clock < MaxClock
  /\ \A w \in Workers : run[w].pc = "search" => run[w].started = clock
  /\ clock' = clock + 1
  /\ UNCHANGED <<query, call, run, left, heard, excused, slipped, blurred>>

-----------------------------------------------------------------------------
ListeningInit ==
  /\ clock = 0
  /\ query = [q \in Queries |-> NoRow]
  /\ call = [c \in Calls |-> NoCall]
  /\ run = [w \in Workers |-> NoRun]
  /\ left = MaxMoves
  /\ heard = {} /\ excused = {} /\ slipped = {} /\ blurred = {}

ListeningNext ==
  \/ Tick
  \/ \E q \in Queries : CreateQuery(q) \/ DeleteQuery(q)
  \/ \E c \in Calls : UpdateWrite(c) \/ \E q \in Queries : UpdateRead(c, q)
  \/ \E w \in Workers :
       \/ Finish(w) \/ Stops(w)
       \/ \E q \in Queries : Start(w, q)
       \/ \E p \in Searchable : Searched(w, p) \/ LeftOut(w, p)

ListeningSpec == ListeningInit /\ [][ListeningNext]_lvars

-----------------------------------------------------------------------------
ListeningTypeOK ==
  /\ clock \in 0..MaxClock /\ left \in 0..MaxMoves
  /\ \A q \in Queries :
       /\ query[q].st \in {"none", "row", "deleted"} /\ query[q].active \in BOOLEAN
       /\ query[q].text \in 0..MaxText /\ query[q].providers \subseteq Searchable
       /\ query[q].last \in 0..Never
  /\ \A c \in Calls : call[c].pc \in {"idle", "write"}
  /\ \A w \in Workers : run[w].pc \in {"idle", "search"} /\ run[w].todo \subseteq Searchable
  /\ slipped \subseteq Queries /\ blurred \subseteq Queries

\* A saved search passes over nothing: what was said before the next run's window was searched
\* with its present text, on each of its platforms, or left out with a reason; but for a search
\* that was changed while a run of it went on, or by two users, or to which a platform was added
\* (inbox.service.ts, updateQuery; engagement-processor.ts, listen).  And no more than the limit
\* are active, but for those saved as active by someone who had not seen them paused
\* (assertQueryCapacity).
SearchesKept ==
  /\ \A q \in Queries \ blurred :
       Exists(q) /\ query[q].last # Never =>
         \A p \in query[q].providers, t \in 0..MaxClock :
           t < Since(query[q].last) => <<p, query[q].text, t>> \in heard \cup excused
  /\ Cardinality(Active({})) <= MaxActive + Cardinality(slipped)
=============================================================================
