----------------------------- MODULE InboxSync -----------------------------
(***************************************************************************)
(* The reading of one channel's comments and mentions into the inbox: a    *)
(* cursor per stream, and rows that are only inserted.                     *)
(*                                                                         *)
(* The clock counts periods of ten minutes, which is how far a run reads   *)
(* back (SINCE_OVERLAP_MS) and how late a platform may index an item.  All *)
(* items are within the first run's window and the most recent 200 posts.  *)
(*                                                                         *)
(* The adapters' reads are bounded: by pages of a post's comments, by      *)
(* threads whose replies are fetched, by stubs that are not expanded, and  *)
(* X's by age.  Most filter by `since` only what the pages brought, in no  *)
(* order the platform promises, so which items a full read leaves out is   *)
(* open.                                                                   *)
(***************************************************************************)
EXTENDS Naturals, FiniteSets

CONSTANTS
  Items,        \* comments and mentions
  Batches,      \* the batches of posts a run asks for, one call each
  Mentions,     \* the stream of mentions: {"mentions"}, or {} for a platform without
  Workers,      \* job slots of the engagement worker
  MaxRead,      \* the items of a batch, or mentions, that no bound of a read reaches
  MaxAge,       \* how far back every read reaches, in periods
  MaxClock      \* bound: periods of ten minutes

\* What a configuration must give them.
InboxSyncParameters ==
  /\ Mentions \in {{}, {"mentions"}} /\ "mentions" \notin Batches
  /\ IsFiniteSet(Items) /\ {MaxRead, MaxAge, MaxClock} \subseteq Nat

VARIABLES
  clock,
  place,     \* the batch an item is a comment in, or "mentions"
  said,      \* when each item was said on the platform, or Never
  indexed,   \* items the platform's reads return
  row,       \* engagement_items.status of each item, or "none"
  cursor,    \* engagement_cursors: comments_since and mentions_since, or Never
  worker,    \* of each worker: where it is and its variables
  skipped,   \* history: items in a batch the platform rejected, and too old for the next run
  beyond,    \* history: items a bounded read left out, and too old for the next run
  decided    \* history: what users have made of items

isvars  == <<clock, place, said, indexed, row, cursor, worker, skipped, beyond, decided>>

Never == MaxClock + 1
Streams == Batches \cup Mentions
Time == 0..MaxClock

Idle == [pc |-> "idle", started |-> 0, comments |-> 0, mentions |-> 0, todo |-> {}, rejected |-> {},
         out |-> {}]

At(w, pc) == worker[w].pc = pc

-----------------------------------------------------------------------------
(* The platform and the clock *)

Say(i) ==
  /\ said[i] = Never
  /\ said' = [said EXCEPT ![i] = clock]
  /\ UNCHANGED <<clock, place, indexed, row, cursor, worker, skipped, beyond, decided>>

Index(i) ==
  /\ said[i] # Never /\ i \notin indexed
  /\ indexed' = indexed \cup {i}
  /\ UNCHANGED <<clock, place, said, row, cursor, worker, skipped, beyond, decided>>

\* No item is indexed later than a period after it was said.
Tick ==
  /\ clock < MaxClock
  /\ \A i \in Items \ indexed : said[i] = Never \/ said[i] = clock
  /\ clock' = clock + 1
  /\ UNCHANGED <<place, said, indexed, row, cursor, worker, skipped, beyond, decided>>

-----------------------------------------------------------------------------
(* syncChannel.  A job is planned per period, and added when a user asks; it is retried, and  *)
(* run twice at once when a worker stalls.  So a run may begin on any idle worker, next to    *)
(* another run or not.                                                                        *)

\* The run's start is noted.
Start(w) ==
  /\ At(w, "idle")
  /\ worker' = [worker EXCEPT ![w] = [Idle EXCEPT !.pc = "cursor", !.started = clock]]
  /\ UNCHANGED <<clock, place, said, indexed, row, cursor, skipped, beyond, decided>>

\* Mutant of Since: the run asks from where the last one started.
SinceStart(at) == IF at = Never THEN 0 ELSE at

\* Where to read from: the overlap before the cursor, or the whole window.
Since(at) == IF at = Never \/ at = 0 THEN 0 ELSE at - 1

ReadCursor(w) ==
  /\ At(w, "cursor")
  /\ worker' = [worker EXCEPT ![w].pc = "read", ![w].todo = Streams,
                              ![w].comments = Since(cursor.comments),
                              ![w].mentions = Since(cursor.mentions)]
  /\ UNCHANGED <<clock, place, said, indexed, row, cursor, skipped, beyond, decided>>

\* Mentions are read once every batch of posts has been.
Due(w, s) == At(w, "read") /\ s \in worker[w].todo /\ (s = "mentions" => worker[w].todo = {s})
From(w, s) == IF s = "mentions" THEN worker[w].mentions ELSE worker[w].comments

\* store: new rows are inserted, and a row that is there is never touched.
Stored(items) == [i \in Items |-> IF i \in items /\ row[i] = "none" THEN "new" ELSE row[i]]

\* The items a call asks for, and those among them that a bound of it may leave out.
Window(w, s) == {i \in indexed : place[i] = s /\ said[i] >= From(w, s)}
Crowded(s) == Cardinality({i \in indexed : place[i] = s}) > MaxRead
PastBound(i) == Crowded(place[i]) \/ clock > said[i] + MaxAge

\* A call's answer, and its items stored; nothing else of this run's comes in between.
Answered(w, s) ==
  /\ Due(w, s)
  /\ \E left \in SUBSET {i \in Window(w, s) : PastBound(i)} :
       /\ row' = Stored(Window(w, s) \ left)
       /\ worker' = [worker EXCEPT ![w].todo = @ \ {s}, ![w].out = @ \cup left]
  /\ UNCHANGED <<clock, place, said, indexed, cursor, skipped, beyond, decided>>

\* invalid_request: the batch is left out of this run.
Rejected(w, s) ==
  /\ Due(w, s)
  /\ worker' = [worker EXCEPT ![w].todo = @ \ {s}, ![w].rejected = @ \cup {s}]
  /\ UNCHANGED <<clock, place, said, indexed, row, cursor, skipped, beyond, decided>>

\* The run gives up (access refused, or the channel needs to be reconnected), fails or dies,
\* at the latest before the cursor is written: it stays.
Stops(w) ==
  /\ ~ At(w, "idle")
  /\ worker' = [worker EXCEPT ![w] = Idle]
  /\ UNCHANGED <<clock, place, said, indexed, row, cursor, skipped, beyond, decided>>

\* The cursors move to when the run started, that of the mentions only if they were read,
\* whatever the reads left out.
Finish(w) ==
  LET v == worker[w]
  IN /\ At(w, "read") /\ v.todo = {}
     /\ cursor' = [comments |-> v.started,
                   mentions |-> IF Mentions \ v.rejected # {} THEN v.started ELSE cursor.mentions]
     /\ skipped' = skipped \cup {i \in Items : place[i] \in v.rejected \cap Batches
                                               /\ said[i] < Since(v.started)}
     /\ beyond' = beyond \cup {i \in v.out : said[i] < Since(v.started)}
     /\ worker' = [worker EXCEPT ![w] = Idle]
     /\ UNCHANGED <<clock, place, said, indexed, row, decided>>

\* updateItem and bulkUpdateItems
Decide(i) ==
  /\ row[i] = "new"
  /\ row' = [row EXCEPT ![i] = "archived"]
  /\ decided' = decided \cup {i}
  /\ UNCHANGED <<clock, place, said, indexed, cursor, worker, skipped, beyond>>

-----------------------------------------------------------------------------
InboxSyncInit ==
  /\ place \in [Items -> Streams]
  /\ clock = 0 /\ said = [i \in Items |-> Never] /\ indexed = {}
  /\ row = [i \in Items |-> "none"]
  /\ cursor = [comments |-> Never, mentions |-> Never]
  /\ worker = [w \in Workers |-> Idle]
  /\ skipped = {} /\ beyond = {} /\ decided = {}

InboxSyncNext ==
  \/ Tick
  \/ \E i \in Items : Say(i) \/ Index(i) \/ Decide(i)
  \/ \E w \in Workers :
       \/ Start(w) \/ ReadCursor(w) \/ Stops(w) \/ Finish(w)
       \/ \E s \in Streams : Answered(w, s) \/ Rejected(w, s)

InboxSyncSpec == InboxSyncInit /\ [][InboxSyncNext]_isvars

-----------------------------------------------------------------------------
InboxSyncTypeOK ==
  /\ place \in [Items -> Streams]
  /\ clock \in Time /\ said \in [Items -> 0..Never] /\ indexed \subseteq Items
  /\ row \in [Items -> {"none", "new", "archived"}]
  /\ cursor \in [comments : 0..Never, mentions : 0..Never]
  /\ \A w \in Workers :
       /\ worker[w].pc \in {"idle", "cursor", "read"}
       /\ {worker[w].started, worker[w].comments, worker[w].mentions} \subseteq Time
       /\ worker[w].todo \subseteq Streams /\ worker[w].rejected \subseteq Streams
       /\ worker[w].out \subseteq Items
  /\ skipped \subseteq Items /\ beyond \subseteq Items /\ decided \subseteq Items

\* No item is passed over: whatever was said is stored, or the next run will still ask for it,
\* through late indexing, runs that overlap, retries and runs that give up; but for the batches a
\* platform rejected (engagement-processor.ts, syncChannel and giveUp), and for what a read's
\* bound left out, which takes more items than the bound, or an item older than it
\* (MAX_PAGES_PER_POST; docs/platforms.md, "Bounded reads").  And reading an item again undoes
\* nothing that users made of it (store).
NothingSkipped ==
  /\ \A i \in Items \ (skipped \cup beyond) :
       said[i] # Never /\ row[i] = "none" =>
         said[i] >= Since(IF place[i] = "mentions" THEN cursor.mentions ELSE cursor.comments)
  /\ \A i \in beyond : PastBound(i)
  /\ \A i \in decided : row[i] = "archived"
=============================================================================
