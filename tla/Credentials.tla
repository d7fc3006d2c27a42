---------------------------- MODULE Credentials ----------------------------
(***************************************************************************)
(* The tokens of connected channels and ad accounts: connecting and        *)
(* disconnecting them, handing a usable token to a worker, refreshing it   *)
(* under the row's lock, and the refresh jobs.                             *)
(*                                                                         *)
(* A token is the number it was issued under; 0 is none.  An expiry time   *)
(* is told by its token, and time passes in two steps: the access token is *)
(* about to expire, then it has expired.                                   *)
(***************************************************************************)
EXTENDS Naturals

CONSTANTS
  Channels,     \* rows of channels
  AdAccounts,   \* rows of ad_accounts
  Rotating,     \* the rows whose platform replaces the refresh token on each use
  Workers,      \* callers of getAccessToken, context and their kin
  MaxTries,     \* attempts of a refresh job
  MaxMoves      \* bound: things people, time and faults do in a behaviour

Rows == Channels \cup AdAccounts

VARIABLES
  row,          \* of each row: its status and tokens
  lock,         \* the worker whose transaction holds the row, or "none"
  good,         \* the platform: the tokens it accepts
  serial,       \* tokens issued so far
  near,         \* the access tokens about to expire, or expired
  jobs,         \* the refresh jobs that exist: their id is the row and the expiry
  worker,       \* of each worker: where it is and its variables
  connect,      \* a connection being stored: the rows left, the tokens, the row to schedule
  left,         \* moves left
  lost,         \* history: the rows holding a token replaced by an answer nobody stored
  late          \* history: the rows marked on an outcome that had gone stale: the row had changed
                \* since, or the token refused was one that the platform had just renewed

issued == <<good, serial, near>>
vars == <<row, lock, issued, jobs, worker, connect, left, lost, late>>

Status == {"absent", "active", "needs_reauth", "disconnected"}
RowStates == [status : Status, access : Nat, refresh : Nat]
Absent == [status |-> "absent", access |-> 0, refresh |-> 0]
Wiped  == [Absent EXCEPT !.status = "disconnected"]
Jobs == [row : Rows, token : Nat, try : Nat, st : {"waiting", "active", "done", "failed"}]

\* Who asks: an engine that publishes or replies and marks what it finds revoked, a
\* collector or ads worker that does not, a refresh job, or the ads API on a user's request.
Callers == {"publish", "read", "job", "request"}
WorkerStates ==
  [pc : {"idle", "fetch", "exchange", "store", "use", "mark", "reschedule"}, from : Callers,
   row : Rows, job : Nat, force : BOOLEAN, seen : RowStates, access : Nat, refresh : Nat]
SomeRow == CHOOSE r \in Rows : TRUE
Idle == [pc |-> "idle", from |-> "read", row |-> SomeRow, job |-> 0, force |-> FALSE,
         seen |-> Absent, access |-> 0, refresh |-> 0]
NoConnect == [rows |-> {}, access |-> 0, refresh |-> 0, schedule |-> {}]

Unlocked(r) == lock[r] = "none"
Move == left > 0 /\ left' = left - 1

-----------------------------------------------------------------------------
(* Refresh jobs: producer.scheduleTokenRefresh and BullMQ *)

\* Adding a job whose id exists does nothing.
Scheduled(q, r, t) ==
  IF \E j \in q : j.row = r /\ j.token = t THEN q
  ELSE q \cup {[row |-> r, token |-> t, try |-> 1, st |-> "waiting"]}
Marked(q, r, t, st) == {IF j.row = r /\ j.token = t THEN [j EXCEPT !.st = st] ELSE j : j \in q}
\* A job that threw is tried again, up to MaxTries times.
Threw(q, r, t) ==
  {IF j.row = r /\ j.token = t
   THEN IF j.try < MaxTries THEN [j EXCEPT !.try = @ + 1, !.st = "waiting"] ELSE [j EXCEPT !.st = "failed"]
   ELSE j : j \in q}

\* What becomes of w's job, if it is one, when w is done or has thrown.
End(w) ==
  /\ worker' = [worker EXCEPT ![w] = Idle]
  /\ jobs' = IF worker[w].from = "job" THEN Marked(jobs, worker[w].row, worker[w].job, "done") ELSE jobs
Throw(w) ==
  /\ worker' = [worker EXCEPT ![w] = Idle]
  /\ jobs' = IF worker[w].from = "job" THEN Threw(jobs, worker[w].row, worker[w].job) ELSE jobs

-----------------------------------------------------------------------------
(* channels.service.ts and ads.accounts.service.ts *)

\* completeConnect and the selection: a user authorises and some rows of one kind are
\* stored with the tokens of that one login, with a refresh token or without.
Connect ==
  /\ connect = NoConnect
  /\ Move
  /\ \E S \in ((SUBSET Channels) \cup (SUBSET AdAccounts)) \ {{}}, refreshable \in BOOLEAN :
       /\ connect' = [rows |-> S, access |-> serial + 1,
                      refresh |-> IF refreshable THEN serial + 2 ELSE 0, schedule |-> {}]
       /\ serial' = serial + 2
       /\ good' = good \cup (IF refreshable THEN {serial + 1, serial + 2} ELSE {serial + 1})
  /\ UNCHANGED <<row, lock, near, jobs, worker, lost, late>>

\* upsertChannels and confirmAccounts, for one row; a channel's refresh is scheduled next.
Upsert ==
  /\ connect.schedule = {}
  /\ \E r \in connect.rows :
       /\ Unlocked(r)
       /\ row' = [row EXCEPT ![r] = [status |-> "active", access |-> connect.access, refresh |-> connect.refresh]]
       /\ lost' = lost \ {r} /\ late' = late \ {r}
       /\ LET rest == connect.rows \ {r}
              next == IF r \in Channels /\ connect.refresh # 0 THEN {r} ELSE {}
          IN connect' = IF rest = {} /\ next = {} THEN NoConnect
                        ELSE [connect EXCEPT !.rows = rest, !.schedule = next]
  /\ UNCHANGED <<lock, issued, jobs, worker, left>>
UpsertSchedule ==
  /\ \E r \in connect.schedule : jobs' = Scheduled(jobs, r, connect.access)
  /\ connect' = IF connect.rows = {} THEN NoConnect ELSE [connect EXCEPT !.schedule = {}]
  /\ UNCHANGED <<row, lock, issued, worker, left, lost, late>>
\* The API dies on the way, or a statement of it fails.
ConnectFails ==
  /\ connect # NoConnect
  /\ Move /\ connect' = NoConnect
  /\ UNCHANGED <<row, lock, issued, jobs, worker, lost, late>>

\* disconnect: the tokens are wiped whatever the status; the refresh jobs stay.
Disconnect ==
  /\ Move
  /\ \E r \in Rows : /\ Unlocked(r) /\ row[r].status # "absent"
                     /\ row' = [row EXCEPT ![r] = Wiped]
                     /\ lost' = lost \ {r} /\ late' = late \ {r}
  /\ UNCHANGED <<lock, issued, jobs, worker, connect>>

-----------------------------------------------------------------------------
(* channel-tokens.ts, ad-tokens.ts and their callers *)

\* An engine, a collector or a request wants a token.
Begin(w) ==
  /\ worker[w].pc = "idle"
  /\ \E r \in Rows, from \in Callers \ {"job"} :
       /\ from = "publish" => r \in Channels
       /\ from = "request" => r \in AdAccounts
       /\ row[r].status = "active"
       /\ worker' = [worker EXCEPT ![w] = [Idle EXCEPT !.pc = "fetch", !.from = from, !.row = r]]
  /\ Move /\ UNCHANGED <<row, lock, issued, jobs, connect, lost, late>>
\* A refresh job, delayed until its token is about to expire.
StartJob(w) ==
  /\ worker[w].pc = "idle"
  /\ \E j \in jobs :
       /\ j.st = "waiting" /\ j.token \in near
       /\ jobs' = Marked(jobs, j.row, j.token, "active")
       /\ worker' = [worker EXCEPT ![w] = [Idle EXCEPT !.pc = "fetch", !.from = "job", !.row = j.row,
                                                       !.job = j.token, !.force = TRUE]]
  /\ UNCHANGED <<row, lock, issued, connect, left, lost, late>>

\* The transaction up to the platform's call, with what it decides from the row.
FetchRow(w) ==
  LET r == worker[w].row
      u == row[r]
      soon == u.access \in near
      refuse == worker' = [worker EXCEPT ![w].pc = "mark", ![w].seen = u]
      hand   == worker' = [worker EXCEPT ![w].pc = "use", ![w].access = u.access, ![w].seen = u]
  IN
  /\ worker[w].pc = "fetch"
  /\ \/ /\ u.status # "active" /\ worker[w].from # "request"
        /\ IF r \in Channels THEN refuse /\ UNCHANGED jobs ELSE End(w)
        /\ UNCHANGED lock
     \/ /\ u.status = "active" \/ worker[w].from = "request"
        /\ IF u.refresh # 0 /\ (soon \/ worker[w].force)
           THEN /\ lock' = [lock EXCEPT ![r] = w]
                /\ worker' = [worker EXCEPT ![w].pc = "exchange", ![w].refresh = u.refresh, ![w].seen = u]
           ELSE /\ IF soon /\ worker[w].from # "request" THEN refuse ELSE hand
                /\ UNCHANGED lock
        /\ UNCHANGED jobs
  /\ UNCHANGED <<row, issued, connect, left, lost, late>>
\* Mutant of Fetch: the row is read without FOR UPDATE.
FetchUnlocked(w) == FetchRow(w)
Fetch(w) == Unlocked(worker[w].row) /\ FetchRow(w)

Release(w) == lock' = [r \in Rows |-> IF lock[r] = w THEN "none" ELSE lock[r]]

\* Mutant of Refused: any failure of a refresh counts as revoked access.
RefusedTransient(w) == TRUE
\* The platform says that the refresh token is no good.
Refused(w) == worker[w].refresh \notin good

\* refreshTokens.  The new access token may or may not end the old one's life.
Exchange(w) ==
  LET r == worker[w].row
      rotates == r \in Rotating
      new == IF rotates THEN serial + 2 ELSE worker[w].refresh
      Issue == /\ serial' = serial + 2
               /\ \E gone \in SUBSET {worker[w].seen.access} :
                    good' = (good \ (gone \cup IF rotates THEN {worker[w].refresh} ELSE {}))
                              \cup {serial + 1, new}
  IN
  /\ worker[w].pc = "exchange"
  /\ \/ /\ worker[w].refresh \in good
        /\ Issue
        /\ worker' = [worker EXCEPT ![w].pc = "store", ![w].access = serial + 1, ![w].refresh = new]
        /\ UNCHANGED <<lock, jobs, left, lost>>
     \* The answer is lost, and the transaction with it.
     \/ /\ worker[w].refresh \in good
        /\ Move /\ Issue /\ Release(w) /\ Throw(w)
        /\ lost' = IF rotates THEN lost \cup {r} ELSE lost
     \/ /\ Refused(w)
        /\ Release(w)
        /\ IF worker[w].from = "request" THEN End(w)
           ELSE worker' = [worker EXCEPT ![w].pc = "mark"] /\ UNCHANGED jobs
        /\ UNCHANGED <<good, serial, left, lost>>
     \* The platform fails, or throttles.
     \/ /\ Release(w) /\ Throw(w)
        /\ UNCHANGED <<good, serial, left, lost>>
  /\ UNCHANGED <<row, near, connect, late>>

\* The new tokens are written and committed.
Store(w) ==
  LET r == worker[w].row IN
  /\ worker[w].pc = "store"
  /\ row' = [row EXCEPT ![r].access = worker[w].access, ![r].refresh = worker[w].refresh]
  /\ Release(w)
  /\ worker' = [worker EXCEPT ![w].pc = IF worker[w].from = "job" THEN "reschedule" ELSE "use",
                              ![w].seen = row'[r]]
  /\ UNCHANGED <<issued, jobs, connect, left, lost, late>>
\* The worker dies, or the commit fails: the row keeps the token it had.
StoreFails(w) ==
  LET r == worker[w].row IN
  /\ worker[w].pc = "store"
  /\ Move /\ Release(w) /\ Throw(w)
  /\ lost' = IF r \in Rotating THEN lost \cup {r} ELSE lost
  /\ UNCHANGED <<row, issued, connect, late>>

\* The platform is called with the token.  Refused, the caller asks for a fresh one once;
\* refused again, an engine marks the channel and a collector leaves it.
Use(w) ==
  LET refused == worker[w].access \notin good IN
  /\ worker[w].pc = "use"
  /\ CASE refused /\ ~ worker[w].force /\ worker[w].from \in {"publish", "read"} ->
            /\ worker' = [worker EXCEPT ![w].pc = "fetch", ![w].force = TRUE,
                                        ![w].access = 0, ![w].refresh = 0]
            /\ UNCHANGED jobs
       [] refused /\ worker[w].force /\ worker[w].from = "publish" ->
            worker' = [worker EXCEPT ![w].pc = "mark"] /\ UNCHANGED jobs
       [] OTHER -> IF worker[w].from = "job"
                   THEN worker' = [worker EXCEPT ![w].pc = "reschedule"] /\ UNCHANGED jobs
                   ELSE End(w)
  /\ UNCHANGED <<row, lock, issued, connect, left, lost, late>>

\* History: the token w called with is one its own refresh brought.
Renewed(w) == worker[w].access # 0 /\ worker[w].refresh # 0

\* markNeedsReauth: by id alone, after the transaction.
Mark(w) ==
  LET r == worker[w].row IN
  /\ worker[w].pc = "mark" /\ Unlocked(r)
  /\ row' = [row EXCEPT ![r].status = "needs_reauth"]
  /\ late' = IF row[r] # worker[w].seen \/ Renewed(w) THEN late \cup {r} ELSE late
  /\ End(w)
  /\ UNCHANGED <<lock, issued, connect, left, lost>>

\* The job schedules the next refresh, by what the row says now.
Reschedule(w) ==
  LET r == worker[w].row IN
  /\ worker[w].pc = "reschedule"
  /\ worker' = [worker EXCEPT ![w] = Idle]
  /\ jobs' = LET done == Marked(jobs, r, worker[w].job, "done")
             IN IF row[r].access # 0 THEN Scheduled(done, r, row[r].access) ELSE done
  /\ UNCHANGED <<row, lock, issued, connect, left, lost, late>>

\* The worker dies; its transaction is rolled back, and its job is delivered again.
Crash(w) ==
  /\ worker[w].pc \in {"fetch", "exchange", "use", "mark", "reschedule"}
  /\ Move /\ Release(w)
  /\ worker' = [worker EXCEPT ![w] = Idle]
  /\ jobs' = IF worker[w].from = "job" THEN Marked(jobs, worker[w].row, worker[w].job, "waiting") ELSE jobs
  /\ UNCHANGED <<row, issued, connect, lost, late>>

-----------------------------------------------------------------------------
(* maintenance.ts: scheduleTokenRefresh *)

\* Mutant of Renew: the job id leaves out the expiry, so a finished job blocks the next.
RenewSameId(r) ==
  /\ row[r].status = "active" /\ row[r].refresh # 0
  /\ jobs' = IF \E j \in jobs : j.row = r THEN jobs ELSE Scheduled(jobs, r, row[r].access)
\* A job for every channel whose token expires within a day.
Renew(r) ==
  /\ row[r].status = "active" /\ row[r].refresh # 0
  /\ jobs' = Scheduled(jobs, r, row[r].access)
ScheduleRefresh ==
  /\ \E r \in Channels : Renew(r)
  /\ UNCHANGED <<row, lock, issued, worker, connect, left, lost, late>>

-----------------------------------------------------------------------------
(* Time and the platform *)

Tokens == {row[r].access : r \in Rows} \cup {j.token : j \in jobs}
NearExpiry ==
  /\ Move
  /\ \E t \in Tokens \ (near \cup {0}) : near' = near \cup {t}
  /\ UNCHANGED <<row, lock, good, serial, jobs, worker, connect, lost, late>>
Expire ==
  /\ Move
  /\ \E t \in near \cap good : good' = good \ {t}
  /\ UNCHANGED <<row, lock, serial, near, jobs, worker, connect, lost, late>>
\* The user revokes the app on the platform: no token of that login works, be it stored, on
\* its way to a row, or about to be stored by the connection.
Sharing(r) == {s \in Rows : s = r \/ (row[s].refresh = row[r].refresh /\ row[r].refresh # 0)}
TokensOf(u) == {u.access, u.refresh}
LoginTokens(r) ==
  LET rows == Sharing(r)
      storing == {w \in Workers : worker[w].pc = "store" /\ worker[w].row \in rows}
  IN (UNION {TokensOf(row[s]) : s \in rows}) \cup (UNION {TokensOf(worker[w]) : w \in storing})
       \cup (IF connect.refresh = row[r].refresh /\ connect.refresh # 0 THEN TokensOf(connect) ELSE {})
Revoke ==
  /\ Move
  /\ \E r \in Rows : good' = good \ LoginTokens(r)
  /\ UNCHANGED <<row, lock, serial, near, jobs, worker, connect, lost, late>>

-----------------------------------------------------------------------------
Init ==
  /\ row = [r \in Rows |-> Absent] /\ lock = [r \in Rows |-> "none"]
  /\ good = {} /\ serial = 0 /\ near = {} /\ jobs = {}
  /\ worker = [w \in Workers |-> Idle] /\ connect = NoConnect
  /\ left = MaxMoves /\ lost = {} /\ late = {}

WorkerStep(w) ==
  StartJob(w) \/ Fetch(w) \/ Exchange(w) \/ Store(w) \/ Use(w) \/ Mark(w) \/ Reschedule(w)

Next ==
  \/ Connect \/ Upsert \/ UpsertSchedule \/ ConnectFails \/ Disconnect
  \/ \E w \in Workers : Begin(w) \/ WorkerStep(w) \/ StoreFails(w) \/ Crash(w)
  \/ ScheduleRefresh \/ NearExpiry \/ Expire \/ Revoke

Spec == Init /\ [][Next]_vars

\* The worker loops and the repeatable maintenance task keep running; nothing is assumed of
\* people, time, the platform or faults.
Fairness ==
  /\ \A w \in Workers : WF_vars(WorkerStep(w))
  /\ WF_vars(ScheduleRefresh)
FairSpec == Spec /\ Fairness

-----------------------------------------------------------------------------
(* Properties *)

\* What is asked of the constants: the free lock is no worker's, and there is a row.
CredentialsParameters ==
  /\ "none" \notin Workers
  /\ Rows # {} /\ Channels \cap AdAccounts = {}

\* Every variable keeps its type; a locked row has a worker between its read and its commit.
CredentialsTypeOK ==
  /\ row \in [Rows -> RowStates] /\ lock \in [Rows -> Workers \cup {"none"}]
  /\ serial \in Nat /\ good \subseteq 1..serial /\ near \subseteq 1..serial /\ jobs \subseteq Jobs
  /\ worker \in [Workers -> WorkerStates] /\ connect.rows \subseteq Rows
  /\ \A r \in Rows : ~ Unlocked(r) =>
       worker[lock[r]].row = r /\ worker[lock[r]].pc \in {"exchange", "store"}

\* "Two workers refreshing the same channel concurrently would leave one holding a dead
\* token" (channel-tokens.ts:20): on a platform that rotates, the token a row stores is the
\* platform's current one unless access was revoked (then no token of the login works),
\* or the answer that replaced it was lost.  It needs each login of such a platform to be
\* stored in one channel (OneChannelEach): rows sharing a login share its refresh token.
OneChannelEach == \A r, s \in connect.rows \cap Channels : r \in Rotating => s = r
HoldsCurrentToken ==
  \A r \in Channels \ lost :
    Unlocked(r) /\ row[r].refresh # 0 /\ row[r].access \in good => row[r].refresh \in good

\* The connection goes on: its tokens can be renewed, or need not be yet.
Usable(r) == IF row[r].refresh # 0 THEN row[r].refresh \in good
             ELSE row[r].access \in good \ near
\* needs_reauth: "token expired/revoked or scopes missing, the user must reconnect"
\* (schema/channels.ts:26): a platform that is down, a restart or a slow worker never costs
\* a user the connection, save for a mark written after the row had changed, and for a token
\* that was renewed for the call and had ended again before it was made.
ReauthMeansReconnect ==
  \A r \in Rows : row[r].status = "needs_reauth" /\ r \notin late => ~ Usable(r)

\* Disconnecting wipes the tokens and nothing but a new connection brings any back: a
\* refresh that was in flight does not store the new ones over the wipe.
WipedStaysWiped ==
  [][\A r \in Rows : row[r].access = 0 /\ row'[r].access # 0 => connect' # connect]_vars

\* A refreshable channel about to expire is refreshed or its user is told, unless every
\* attempt of its job has failed (the failed job's id then blocks another).
Exhausted(r) == \E j \in jobs : j.row = r /\ j.token = row[r].access /\ j.st = "failed"
RefreshedInTime ==
  \A r \in Channels : row[r].status = "active" /\ row[r].refresh # 0 /\ row[r].access \in near
    ~> row[r].status # "active" \/ row[r].access \notin near \/ row[r].refresh = 0 \/ Exhausted(r)
=============================================================================
