------------------------- MODULE CredentialsProofs -------------------------
(***************************************************************************)
(* Proofs about Credentials, for any rows, workers and bounds: its types,  *)
(* that a wiped row stays wiped, that a row marked for reconnection needs  *)
(* it (all three from the inductive invariant CredInv), and that a row     *)
(* holds its platform's current token (CurrentInv, kept under CredInv).    *)
(***************************************************************************)
EXTENDS Credentials, TLAPS

\* Access tokens have odd numbers and refresh tokens even ones: no token is both.
AccessTokens  == {t \in 0..serial : t = 0 \/ t % 2 = 1}
RefreshTokens == {t \in 0..serial : t % 2 = 0}
RowTokens == [status : Status, access : AccessTokens, refresh : RefreshTokens]
WorkerTokens ==
  [pc : {"idle", "fetch", "exchange", "store", "use", "mark", "reschedule"}, from : Callers,
   row : Rows, job : AccessTokens, force : BOOLEAN, seen : RowTokens,
   access : AccessTokens, refresh : RefreshTokens]
ConnectTokens ==
  [rows : SUBSET Rows, access : AccessTokens, refresh : RefreshTokens, schedule : SUBSET Rows]

\* Every token was issued, and is of its kind.
TokensTyped ==
  /\ serial \in Nat /\ serial % 2 = 0
  /\ row \in [Rows -> RowTokens] /\ lock \in [Rows -> Workers \cup {"none"}]
  /\ good \subseteq 1..serial /\ near \subseteq AccessTokens \ {0}
  /\ jobs \subseteq Jobs /\ \A j \in jobs : j.token \in AccessTokens
  /\ worker \in [Workers -> WorkerTokens]
  /\ connect \in ConnectTokens

\* A lock is held by the worker between its read and its commit, and the row is what it read.
LocksHeld ==
  /\ \A r \in Rows : lock[r] # "none" =>
       worker[lock[r]].row = r /\ worker[lock[r]].pc \in {"exchange", "store"}
  /\ \A w \in Workers : worker[w].pc \in {"exchange", "store"} =>
       /\ lock[worker[w].row] = w
       /\ worker[w].seen = row[worker[w].row] /\ worker[w].seen.refresh # 0

\* The tokens of u are of no more use, and never will be: no token comes to life again.
Dead(u) == IF u.refresh # 0 THEN u.refresh \notin good ELSE u.access \notin good \/ u.access \in near

RowsWhole ==
  /\ \A r \in Rows : /\ row[r].access = 0 => row[r].refresh = 0
                     /\ row[r].status \in {"absent", "disconnected"} => row[r].access = 0
  /\ connect.rows # {} \/ connect.schedule # {} => connect.access # 0

\* What w's tokens are at each place; about to mark, it saw dead tokens or a marked row.
Carried(w) ==
  LET k == worker[w] IN
  /\ k.pc \in {"idle", "fetch"} => k.access = 0 /\ k.refresh = 0
  /\ k.pc = "exchange" => k.access = 0 /\ k.refresh = k.seen.refresh
  /\ k.pc = "store" => /\ Renewed(w)
                       /\ k.row \notin Rotating => k.refresh = k.seen.refresh
                       /\ k.seen.status = "needs_reauth" => k.row \in late
  /\ k.pc = "use" => /\ k.access = k.seen.access
                     /\ Renewed(w) \/ (k.refresh = 0 /\ (k.force => k.seen.refresh = 0))
  /\ k.pc = "mark" => Renewed(w) \/ Dead(k.seen) \/ k.seen.status = "needs_reauth"

MarkedDead == \A r \in Rows \ late : row[r].status = "needs_reauth" => Dead(row[r])

CredInv == TokensTyped /\ LocksHeld /\ RowsWhole /\ (\A w \in Workers : Carried(w)) /\ MarkedDead

\* The rows that may hold one refresh token: channels of platforms that do not rotate it, and
\* ad accounts.
MayShare(r, s) ==
  \/ r = s
  \/ r \notin Channels /\ s \notin Channels
  \/ r \in Channels \ Rotating /\ s \in Channels \ Rotating
\* w holds a refresh token fresh from the platform, that no row has yet.
Issued(w) == worker[w].pc = "store" /\ worker[w].row \in Rotating
RowsApart ==
  \A r, s \in Rows : row[r].refresh # 0 /\ row[r].refresh = row[s].refresh => MayShare(r, s)
ConnectApart ==
  /\ \A r, s \in connect.rows : MayShare(r, s)
  /\ \A r \in Rows, s \in connect.rows :
       connect.refresh # 0 /\ row[r].refresh = connect.refresh => r # s /\ MayShare(r, s)
IssuedApart ==
  \A w \in Workers : Issued(w) =>
    /\ \A r \in Rows : row[r].refresh # worker[w].refresh
    /\ connect.rows # {} => connect.refresh # worker[w].refresh
    /\ \A v \in Workers : Issued(v) /\ worker[v].refresh = worker[w].refresh => v = w
TokensApart == RowsApart /\ ConnectApart /\ IssuedApart

\* As long as the access token works, so does the refresh token.
Lives(u) == u.refresh # 0 /\ u.access \in good => u.refresh \in good
RowsLive ==
  \A r \in Channels \ lost : (\A w \in Workers : Issued(w) => worker[w].row # r) => Lives(row[r])
StoresLive ==
  \A w \in Workers : worker[w].pc = "store" /\ worker[w].row \in Channels \ lost => Lives(worker[w])
ConnectLives == connect.rows \cap Channels # {} => Lives(connect)
TokensLive == RowsLive /\ StoresLive /\ ConnectLives
CurrentInv == TokensApart /\ TokensLive

-----------------------------------------------------------------------------
(* Types *)

LEMMA GrownSets ==
  ASSUME serial \in Nat, serial' \in Nat, serial <= serial'
  PROVE  /\ AccessTokens \subseteq AccessTokens' /\ RefreshTokens \subseteq RefreshTokens'
         /\ RowTokens \subseteq RowTokens' /\ WorkerTokens \subseteq WorkerTokens'
         /\ ConnectTokens \subseteq ConnectTokens' /\ 1..serial \subseteq 1..serial'
<1>1. AccessTokens \subseteq AccessTokens' /\ RefreshTokens \subseteq RefreshTokens'
  BY DEF AccessTokens, RefreshTokens
<1>2. RowTokens \subseteq RowTokens'
  BY <1>1 DEF RowTokens
<1>3. WorkerTokens \subseteq WorkerTokens'
  BY <1>1, <1>2 DEF WorkerTokens
<1>4. ConnectTokens \subseteq ConnectTokens'
  BY <1>1 DEF ConnectTokens
<1>5. QED
  BY <1>1, <1>2, <1>3, <1>4

LEMMA JobSets ==
  ASSUME NEW r \in Rows, NEW t \in AccessTokens, NEW st \in {"waiting", "active", "done", "failed"},
         NEW q \in SUBSET Jobs, \A j \in q : j.token \in AccessTokens, serial \in Nat
  PROVE  /\ Scheduled(q, r, t) \subseteq Jobs /\ \A j \in Scheduled(q, r, t) : j.token \in AccessTokens
         /\ Marked(q, r, t, st) \subseteq Jobs /\ \A j \in Marked(q, r, t, st) : j.token \in AccessTokens
         /\ Threw(q, r, t) \subseteq Jobs /\ \A j \in Threw(q, r, t) : j.token \in AccessTokens
<1>1. t \in Nat
  BY DEF AccessTokens
<1>2. Scheduled(q, r, t) \subseteq Jobs /\ \A j \in Scheduled(q, r, t) : j.token \in AccessTokens
  BY <1>1 DEF Scheduled, Jobs
<1>3. Marked(q, r, t, st) \subseteq Jobs /\ \A j \in Marked(q, r, t, st) : j.token \in AccessTokens
  BY DEF Marked, Jobs
<1>4. Threw(q, r, t) \subseteq Jobs /\ \A j \in Threw(q, r, t) : j.token \in AccessTokens
  <2>1. ASSUME NEW j \in q
        PROVE  /\ [j EXCEPT !.try = @ + 1, !.st = "waiting"] \in Jobs
               /\ [j EXCEPT !.st = "failed"] \in Jobs
    <3> DEFINE k == [j EXCEPT !.try = @ + 1]
    <3>1. j \in Jobs /\ k \in Jobs
      BY DEF Jobs
    <3>2. [k EXCEPT !.st = "waiting"] \in Jobs
      BY <3>1 DEF Jobs
    <3>3. [j EXCEPT !.try = @ + 1, !.st = "waiting"] = [k EXCEPT !.st = "waiting"]
      OBVIOUS
    <3>4. QED
      BY <3>1, <3>2, <3>3 DEF Jobs
  <2>2. ASSUME NEW j \in q
        PROVE  /\ [j EXCEPT !.try = @ + 1, !.st = "waiting"].token = j.token
               /\ [j EXCEPT !.st = "failed"].token = j.token
    BY DEF Jobs
  <2>3. QED
    BY <2>1, <2>2 DEF Threw
<1>5. QED
  BY <1>2, <1>3, <1>4

LEMMA Idles ==
  ASSUME CredentialsParameters, serial \in Nat
  PROVE  /\ Idle \in WorkerTokens /\ Absent \in RowTokens /\ Wiped \in RowTokens
         /\ NoConnect \in ConnectTokens /\ 0 \in AccessTokens /\ 0 \in RefreshTokens
<1>1. 0 \in AccessTokens /\ 0 \in RefreshTokens
  BY DEF AccessTokens, RefreshTokens
<1>2. SomeRow \in Rows
  BY DEF SomeRow, CredentialsParameters
<1>3. Absent \in RowTokens /\ Wiped \in RowTokens
  BY <1>1 DEF Absent, Wiped, RowTokens, Status
<1>4. QED
  BY <1>1, <1>2, <1>3 DEF Idle, WorkerTokens, Callers, NoConnect, ConnectTokens

LEMMA Ends ==
  ASSUME CredentialsParameters, TokensTyped, NEW w \in Workers, End(w) \/ Throw(w)
  PROVE  /\ worker' = [worker EXCEPT ![w] = Idle] /\ worker' \in [Workers -> WorkerTokens]
         /\ jobs' \subseteq Jobs /\ \A j \in jobs' : j.token \in AccessTokens
<1>1. worker[w] \in WorkerTokens
  BY DEF TokensTyped
<1>2. worker[w].row \in Rows /\ worker[w].job \in AccessTokens
  BY <1>1 DEF WorkerTokens
<1>3. worker' = [worker EXCEPT ![w] = Idle] /\ worker' \in [Workers -> WorkerTokens]
  BY Idles DEF End, Throw, TokensTyped
<1>4. jobs' \in {jobs, Marked(jobs, worker[w].row, worker[w].job, "done"),
                 Threw(jobs, worker[w].row, worker[w].job)}
  BY DEF End, Throw
<1>5. jobs' \subseteq Jobs /\ \A j \in jobs' : j.token \in AccessTokens
  BY <1>2, <1>4, JobSets DEF TokensTyped
<1>6. QED
  BY <1>3, <1>5

LEMMA Releases ==
  ASSUME lock \in [Rows -> Workers \cup {"none"}], NEW w \in Workers, Release(w)
  PROVE  lock' \in [Rows -> Workers \cup {"none"}]
BY DEF Release

LEMMA TypedStep ==
  ASSUME CredentialsParameters, CredInv, [Next]_vars
  PROVE  TokensTyped'
<1>0. serial \in Nat /\ TokensTyped
  BY DEF CredInv, TokensTyped
<1>s. serial' = serial =>
        /\ AccessTokens' = AccessTokens /\ RefreshTokens' = RefreshTokens /\ RowTokens' = RowTokens
        /\ WorkerTokens' = WorkerTokens /\ ConnectTokens' = ConnectTokens
  BY DEF AccessTokens, RefreshTokens, RowTokens, WorkerTokens, ConnectTokens
<1> USE <1>0, <1>s
<1>1. CASE Connect
  <2>1. PICK S \in ((SUBSET Channels) \cup (SUBSET AdAccounts)) \ {{}}, refreshable \in BOOLEAN :
          /\ connect' = [rows |-> S, access |-> serial + 1,
                         refresh |-> IF refreshable THEN serial + 2 ELSE 0, schedule |-> {}]
          /\ serial' = serial + 2
          /\ good' = good \cup (IF refreshable THEN {serial + 1, serial + 2} ELSE {serial + 1})
    BY <1>1 DEF Connect
  <2>2. /\ serial' \in Nat /\ serial' % 2 = 0 /\ serial <= serial'
        /\ serial + 1 \in AccessTokens' /\ serial + 2 \in RefreshTokens' /\ 0 \in RefreshTokens'
    BY <2>1 DEF TokensTyped, AccessTokens, RefreshTokens
  <2>3. good' \subseteq 1..serial'
    BY <2>1, <2>2 DEF TokensTyped
  <2>4. connect' \in ConnectTokens'
    <3>1. S \in SUBSET Rows
      BY DEF Rows
    <3>2. (IF refreshable THEN serial + 2 ELSE 0) \in RefreshTokens'
      BY <2>2
    <3>3. QED
      BY <2>1, <2>2, <3>1, <3>2 DEF ConnectTokens
  <2>5. UNCHANGED <<row, lock, near, jobs, worker>>
    BY <1>1 DEF Connect
  <2>6. /\ row' \in [Rows -> RowTokens'] /\ lock' \in [Rows -> Workers \cup {"none"}]
        /\ near' \subseteq AccessTokens' \ {0} /\ worker' \in [Workers -> WorkerTokens']
        /\ jobs' \subseteq Jobs /\ \A j \in jobs' : j.token \in AccessTokens'
    BY <2>2, <2>5, GrownSets DEF TokensTyped
  <2>7. QED
    BY <2>2, <2>3, <2>4, <2>6 DEF TokensTyped
<1>2. CASE Upsert
  <2>1. PICK r \in connect.rows :
          row' = [row EXCEPT ![r] = [status |-> "active", access |-> connect.access, refresh |-> connect.refresh]]
    BY <1>2 DEF Upsert
  <2>2. connect.access \in AccessTokens /\ connect.refresh \in RefreshTokens /\ r \in Rows
    BY DEF TokensTyped, ConnectTokens
  <2>3. row' \in [Rows -> RowTokens]
    BY <2>1, <2>2 DEF TokensTyped, RowTokens, Status
  <2>4. connect' \in ConnectTokens
    <3>1. connect \in ConnectTokens /\ NoConnect \in ConnectTokens
      BY Idles DEF TokensTyped
    <3>2. PICK u \in connect.rows :
            LET rest == connect.rows \ {u}
                next == IF u \in Channels /\ connect.refresh # 0 THEN {u} ELSE {}
            IN connect' = IF rest = {} /\ next = {} THEN NoConnect
                          ELSE [connect EXCEPT !.rows = rest, !.schedule = next]
      BY <1>2 DEF Upsert
    <3>3. ASSUME NEW A \in SUBSET Rows, NEW B \in SUBSET Rows
          PROVE  [connect EXCEPT !.rows = A, !.schedule = B] \in ConnectTokens
      <4>1. [connect EXCEPT !.rows = A] \in ConnectTokens
        BY <3>1 DEF ConnectTokens
      <4>2. QED
        BY <4>1 DEF ConnectTokens
    <3>4. u \in Rows
      BY <3>1 DEF ConnectTokens
    <3>5. QED
      BY <3>1, <3>2, <3>3, <3>4 DEF ConnectTokens
  <2>5. UNCHANGED <<lock, good, serial, near, jobs, worker>>
    BY <1>2 DEF Upsert, issued
  <2>6. QED
    BY <2>3, <2>4, <2>5 DEF TokensTyped
<1>3. CASE UpsertSchedule
  BY <1>3, Idles, JobSets DEF UpsertSchedule, TokensTyped, ConnectTokens, issued
<1>4. CASE ConnectFails
  BY <1>4, Idles DEF ConnectFails, TokensTyped, issued
<1>5. CASE Disconnect
  BY <1>5, Idles DEF Disconnect, TokensTyped, issued
<1>6. CASE ScheduleRefresh
  <2>1. PICK r \in Channels : jobs' = Scheduled(jobs, r, row[r].access)
    BY <1>6 DEF ScheduleRefresh, Renew
  <2>2. r \in Rows /\ row[r].access \in AccessTokens
    BY DEF TokensTyped, RowTokens, Rows
  <2>3. jobs' \subseteq Jobs /\ \A j \in jobs' : j.token \in AccessTokens
    BY <2>1, <2>2, JobSets DEF TokensTyped
  <2>4. QED
    BY <1>6, <2>3 DEF ScheduleRefresh, TokensTyped, issued
<1>7. CASE NearExpiry
  BY <1>7 DEF NearExpiry, TokensTyped, Tokens, RowTokens
<1>8. CASE Expire
  BY <1>8 DEF Expire, TokensTyped
<1>9. CASE Revoke
  BY <1>9 DEF Revoke, TokensTyped
<1>10. ASSUME NEW w \in Workers, Begin(w)
      PROVE  TokensTyped'
  <2>1. PICK r \in Rows, from \in Callers :
          worker' = [worker EXCEPT ![w] = [Idle EXCEPT !.pc = "fetch", !.from = from, !.row = r]]
    BY <1>10 DEF Begin
  <2>2. [Idle EXCEPT !.pc = "fetch", !.from = from, !.row = r] \in WorkerTokens
    BY Idles DEF Idle, WorkerTokens
  <2>3. QED
    BY <1>10, <2>1, <2>2 DEF Begin, TokensTyped, issued
<1>11. ASSUME NEW w \in Workers, StartJob(w)
      PROVE  TokensTyped'
  <2>1. PICK j \in jobs :
          /\ jobs' = Marked(jobs, j.row, j.token, "active")
          /\ worker' = [worker EXCEPT ![w] = [Idle EXCEPT !.pc = "fetch", !.from = "job", !.row = j.row,
                                                         !.job = j.token, !.force = TRUE]]
    BY <1>11 DEF StartJob
  <2>2. j.row \in Rows /\ j.token \in AccessTokens
    BY DEF TokensTyped, Jobs
  <2>3. [Idle EXCEPT !.pc = "fetch", !.from = "job", !.row = j.row, !.job = j.token, !.force = TRUE]
          \in WorkerTokens
    BY <2>2, Idles DEF Idle, WorkerTokens, Callers
  <2>4. jobs' \subseteq Jobs /\ \A k \in jobs' : k.token \in AccessTokens
    BY <2>1, <2>2, JobSets DEF TokensTyped
  <2>5. QED
    BY <1>11, <2>1, <2>3, <2>4 DEF StartJob, TokensTyped, issued
<1>12. ASSUME NEW w \in Workers, Fetch(w)
      PROVE  TokensTyped'
  <2> DEFINE r == worker[w].row
  <2>1. worker[w] \in WorkerTokens /\ r \in Rows /\ row[r] \in RowTokens
    BY DEF TokensTyped, WorkerTokens
  <2>2. UNCHANGED <<row, good, serial, near, connect>>
    BY <1>12 DEF Fetch, FetchRow, issued
  <2>3. lock' \in [Rows -> Workers \cup {"none"}]
    BY <1>12, <2>1 DEF Fetch, FetchRow, TokensTyped, End
  <2>4. jobs' \subseteq Jobs /\ \A j \in jobs' : j.token \in AccessTokens
    BY <1>12, Ends DEF Fetch, FetchRow, TokensTyped
  <2>5. worker' \in [Workers -> WorkerTokens]
    <3>1. CASE End(w)
      BY <3>1, Ends
    <3>2. CASE worker' = [worker EXCEPT ![w].pc = "mark", ![w].seen = row[r]]
      BY <2>1, <3>2 DEF TokensTyped, WorkerTokens
    <3>3. CASE worker' = [worker EXCEPT ![w].pc = "use", ![w].access = row[r].access, ![w].seen = row[r]]
      BY <2>1, <3>3 DEF TokensTyped, WorkerTokens, RowTokens
    <3>4. CASE worker' = [worker EXCEPT ![w].pc = "exchange", ![w].refresh = row[r].refresh, ![w].seen = row[r]]
      BY <2>1, <3>4 DEF TokensTyped, WorkerTokens, RowTokens
    <3>5. QED
      BY <1>12, <3>1, <3>2, <3>3, <3>4 DEF Fetch, FetchRow
  <2>6. QED
    BY <2>2, <2>3, <2>4, <2>5 DEF TokensTyped
<1>13. ASSUME NEW w \in Workers, Exchange(w)
      PROVE  TokensTyped'
  <2> DEFINE new == IF worker[w].row \in Rotating THEN serial + 2 ELSE worker[w].refresh
  <2>1. /\ worker[w] \in WorkerTokens /\ UNCHANGED <<row, near, connect>>
        /\ worker[w].access \in AccessTokens /\ worker[w].refresh \in RefreshTokens
    BY <1>13 DEF TokensTyped, WorkerTokens, Exchange
  <2>2. \/ /\ serial' = serial + 2 /\ good' \subseteq good \cup {serial + 1, new}
           /\ worker[w].refresh \in good
        \/ serial' = serial /\ good' = good
    BY <1>13 DEF Exchange
  <2>3. /\ serial' \in Nat /\ serial' % 2 = 0 /\ serial <= serial' /\ good' \subseteq 1..serial'
        /\ serial' = serial + 2 => serial + 1 \in AccessTokens' /\ serial + 2 \in RefreshTokens'
    <3>1. /\ serial' \in Nat /\ serial' % 2 = 0 /\ serial <= serial'
          /\ serial' = serial + 2 => serial + 1 \in AccessTokens' /\ serial + 2 \in RefreshTokens'
      BY <2>2 DEF TokensTyped, AccessTokens, RefreshTokens
    <3>2. CASE serial' = serial /\ good' = good
      BY <3>1, <3>2 DEF TokensTyped
    <3>3. CASE /\ serial' = serial + 2 /\ good' \subseteq good \cup {serial + 1, new}
               /\ worker[w].refresh \in good
      BY <3>1, <3>3 DEF TokensTyped
    <3>4. QED
      BY <2>2, <3>1, <3>2, <3>3
  <2>4. /\ AccessTokens \subseteq AccessTokens' /\ RefreshTokens \subseteq RefreshTokens'
        /\ RowTokens \subseteq RowTokens' /\ WorkerTokens \subseteq WorkerTokens'
        /\ ConnectTokens \subseteq ConnectTokens'
    BY <2>3, GrownSets
  <2>5. worker' \in [Workers -> WorkerTokens']
    <3>1. CASE End(w) \/ Throw(w)
      BY <2>4, <3>1, Ends
    <3>2. CASE worker' = [worker EXCEPT ![w].pc = "mark"]
      BY <2>1, <2>4, <3>2 DEF TokensTyped, WorkerTokens
    <3>3. CASE /\ serial' = serial + 2
               /\ worker' = [worker EXCEPT ![w].pc = "store", ![w].access = serial + 1, ![w].refresh = new]
      <4>1. worker[w] \in WorkerTokens' /\ serial + 1 \in AccessTokens' /\ new \in RefreshTokens'
        BY <2>1, <2>3, <2>4, <3>3
      <4>2. worker' = [worker EXCEPT ![w] = [worker[w] EXCEPT !.pc = "store", !.access = serial + 1, !.refresh = new]]
        BY <3>3 DEF TokensTyped
      <4>3. [worker[w] EXCEPT !.pc = "store", !.access = serial + 1, !.refresh = new] \in WorkerTokens'
        BY <4>1 DEF WorkerTokens
      <4>4. QED
        BY <2>4, <4>2, <4>3 DEF TokensTyped
    <3>4. QED
      BY <1>13, <3>1, <3>2, <3>3 DEF Exchange
  <2>6. lock' \in [Rows -> Workers \cup {"none"}]
    BY <1>13, Releases DEF Exchange, TokensTyped
  <2>7. jobs' \subseteq Jobs /\ \A j \in jobs' : j.token \in AccessTokens
    BY <1>13, Ends DEF Exchange, TokensTyped
  <2>8. /\ row' \in [Rows -> RowTokens'] /\ near' \subseteq AccessTokens' \ {0}
        /\ connect' \in ConnectTokens' /\ \A j \in jobs' : j.token \in AccessTokens'
    BY <2>1, <2>4, <2>7 DEF TokensTyped
  <2>9. QED
    BY <2>3, <2>5, <2>6, <2>7, <2>8 DEF TokensTyped
<1>14. ASSUME NEW w \in Workers, Store(w)
      PROVE  TokensTyped'
  <2> DEFINE r == worker[w].row
             u == [row[r] EXCEPT !.access = worker[w].access, !.refresh = worker[w].refresh]
             p == IF worker[w].from = "job" THEN "reschedule" ELSE "use"
  <2>1. worker[w] \in WorkerTokens /\ r \in Rows /\ row[r] \in RowTokens
    BY DEF TokensTyped, WorkerTokens
  <2>2. /\ row' = [row EXCEPT ![r] = u]
        /\ worker' = [worker EXCEPT ![w] = [worker[w] EXCEPT !.pc = p, !.seen = row'[r]]]
    BY <1>14, <2>1 DEF Store, TokensTyped
  <2>3. u \in RowTokens
    BY <2>1 DEF RowTokens, WorkerTokens
  <2>4. row' \in [Rows -> RowTokens] /\ row'[r] = u
    BY <2>1, <2>2, <2>3 DEF TokensTyped
  <2>5. [worker[w] EXCEPT !.pc = p, !.seen = u] \in WorkerTokens
    BY <2>1, <2>3 DEF WorkerTokens
  <2>6. worker' \in [Workers -> WorkerTokens]
    BY <2>2, <2>4, <2>5 DEF TokensTyped
  <2>7. lock' \in [Rows -> Workers \cup {"none"}] /\ UNCHANGED <<good, serial, near, jobs, connect>>
    BY <1>14, Releases DEF Store, issued, TokensTyped
  <2>8. QED
    BY <2>4, <2>6, <2>7 DEF TokensTyped
<1>15. ASSUME NEW w \in Workers, Use(w)
      PROVE  TokensTyped'
  BY <1>15, Ends, Idles DEF Use, TokensTyped, WorkerTokens, issued
<1>16. ASSUME NEW w \in Workers, Mark(w)
      PROVE  TokensTyped'
  BY <1>16, Ends DEF Mark, TokensTyped, WorkerTokens, RowTokens, Status, issued
<1>17. ASSUME NEW w \in Workers, Reschedule(w)
      PROVE  TokensTyped'
  <2> DEFINE r == worker[w].row
             done == Marked(jobs, r, worker[w].job, "done")
  <2>1. r \in Rows /\ worker[w].job \in AccessTokens /\ row[r].access \in AccessTokens
    BY DEF TokensTyped, WorkerTokens, RowTokens
  <2>2. done \subseteq Jobs /\ \A j \in done : j.token \in AccessTokens
    BY <2>1, JobSets DEF TokensTyped
  <2>3. /\ Scheduled(done, r, row[r].access) \subseteq Jobs
        /\ \A j \in Scheduled(done, r, row[r].access) : j.token \in AccessTokens
    <3> HIDE DEF done
    <3> QED
      BY <2>1, <2>2, JobSets
  <2>4. jobs' \in {done, Scheduled(done, r, row[r].access)}
    BY <1>17 DEF Reschedule
  <2>5. jobs' \subseteq Jobs /\ \A j \in jobs' : j.token \in AccessTokens
    BY <2>2, <2>3, <2>4
  <2>6. QED
    BY <1>17, <2>5, Idles DEF Reschedule, TokensTyped, issued
<1>18. ASSUME NEW w \in Workers, StoreFails(w)
      PROVE  TokensTyped'
  BY <1>18, Ends, Releases DEF StoreFails, TokensTyped, issued
<1>19. ASSUME NEW w \in Workers, Crash(w)
      PROVE  TokensTyped'
  BY <1>19, Idles, JobSets, Releases DEF Crash, TokensTyped, WorkerTokens, issued
<1>20. CASE UNCHANGED vars
  BY <1>20 DEF vars, issued, TokensTyped
<1> QED
  BY <1>1, <1>2, <1>3, <1>4, <1>5, <1>6, <1>7, <1>8, <1>9, <1>10, <1>11, <1>12, <1>13, <1>14, <1>15, <1>16, <1>17, <1>18, <1>19, <1>20 DEF Next, WorkerStep

-----------------------------------------------------------------------------
(* Locks, what workers carry, and marks *)

LEMMA Exchanges ==
  ASSUME TokensTyped, NEW w \in Workers, Exchange(w)
  PROVE  LET new == IF worker[w].row \in Rotating THEN serial + 2 ELSE worker[w].refresh IN
         /\ worker[w].pc = "exchange"
         /\ \/ /\ worker' = [worker EXCEPT ![w] = [worker[w] EXCEPT !.pc = "store", !.access = serial + 1, !.refresh = new]]
               /\ worker[w].refresh \in good /\ UNCHANGED <<lock, lost>>
            \/ /\ worker' = [worker EXCEPT ![w] = Idle]
               /\ Release(w)
            \/ /\ worker' = [worker EXCEPT ![w] = [worker[w] EXCEPT !.pc = "mark"]]
               /\ worker[w].refresh \notin good /\ Release(w) /\ UNCHANGED <<good, lost>>
<1> DEFINE new == IF worker[w].row \in Rotating THEN serial + 2 ELSE worker[w].refresh
<1>1. worker[w].pc = "exchange"
  BY DEF Exchange
<1>2. CASE /\ worker[w].refresh \in good /\ UNCHANGED <<lock, lost>>
           /\ worker' = [worker EXCEPT ![w].pc = "store", ![w].access = serial + 1, ![w].refresh = new]
  <2>1. worker' = [worker EXCEPT ![w] = [worker[w] EXCEPT !.pc = "store", !.access = serial + 1, !.refresh = new]]
    BY <1>2 DEF TokensTyped
  <2>2. QED
    BY <1>1, <1>2, <2>1
<1>3. CASE (End(w) \/ Throw(w)) /\ Release(w)
  BY <1>1, <1>3 DEF End, Throw
<1>4. CASE Refused(w) /\ Release(w) /\ UNCHANGED <<good, lost>> /\ worker' = [worker EXCEPT ![w].pc = "mark"]
  <2>1. worker' = [worker EXCEPT ![w] = [worker[w] EXCEPT !.pc = "mark"]]
    BY <1>4 DEF TokensTyped
  <2>2. QED
    BY <1>1, <1>4, <2>1 DEF Refused
<1>5. QED
  BY <1>2, <1>3, <1>4 DEF Exchange

LEMMA OthersHold ==
  ASSUME CredentialsParameters, TokensTyped, LocksHeld, NEW w \in Workers,
         \A v \in Workers \ {w} : worker'[v] = worker[v],
         worker'[w].pc \notin {"exchange", "store"},
         Release(w) \/ (UNCHANGED lock /\ worker[w].pc \notin {"exchange", "store"}),
         \A r \in Rows : lock[r] \in Workers \ {w} => row'[r] = row[r]
  PROVE  LocksHeld'
<1>1. ASSUME NEW r \in Rows, lock'[r] # "none"
      PROVE  /\ lock'[r] = lock[r] /\ lock[r] \in Workers \ {w}
             /\ worker'[lock'[r]].row = r /\ worker'[lock'[r]].pc \in {"exchange", "store"}
  <2>1. lock'[r] = lock[r] /\ lock[r] \in Workers /\ lock[r] # w
    BY <1>1 DEF Release, TokensTyped, LocksHeld, CredentialsParameters
  <2>2. QED
    BY <1>1, <2>1 DEF LocksHeld
<1>2. ASSUME NEW v \in Workers, worker'[v].pc \in {"exchange", "store"}
      PROVE  /\ lock'[worker'[v].row] = v
             /\ worker'[v].seen = row'[worker'[v].row] /\ worker'[v].seen.refresh # 0
  <2>1. v # w /\ worker'[v] = worker[v] /\ worker[v].row \in Rows
    BY <1>2 DEF TokensTyped, WorkerTokens
  <2>2. lock[worker[v].row] = v /\ worker[v].seen = row[worker[v].row] /\ worker[v].seen.refresh # 0
    BY <1>2, <2>1 DEF LocksHeld
  <2>3. lock'[worker[v].row] = v
    BY <2>1, <2>2 DEF Release
  <2>4. QED
    BY <2>1, <2>2, <2>3
<1>3. QED
  BY <1>1, <1>2 DEF LocksHeld

LEMMA LockedRowsKept ==
  ASSUME CredentialsParameters, TokensTyped, LocksHeld, UNCHANGED <<worker, lock>>,
         \A r \in Rows : ~ Unlocked(r) => row'[r] = row[r]
  PROVE  LocksHeld'
<1>1. ASSUME NEW v \in Workers, worker[v].pc \in {"exchange", "store"}
      PROVE  row'[worker[v].row] = row[worker[v].row]
  BY <1>1 DEF TokensTyped, WorkerTokens, LocksHeld, Unlocked, CredentialsParameters
<1>2. QED
  BY <1>1 DEF LocksHeld

LEMMA LocksStep ==
  ASSUME CredentialsParameters, CredInv, [Next]_vars
  PROVE  LocksHeld'
<1>0. TokensTyped /\ LocksHeld
  BY DEF CredInv
<1> USE <1>0
<1>1. CASE Connect
  BY <1>1 DEF Connect, issued, LocksHeld, TokensTyped
<1>2. CASE Upsert
  BY <1>2, LockedRowsKept DEF Upsert, TokensTyped, Unlocked
<1>3. CASE UpsertSchedule
  BY <1>3 DEF UpsertSchedule, issued, LocksHeld, TokensTyped
<1>4. CASE ConnectFails
  BY <1>4 DEF ConnectFails, issued, LocksHeld, TokensTyped
<1>5. CASE Disconnect
  BY <1>5, LockedRowsKept DEF Disconnect, TokensTyped, Unlocked
<1>6. CASE ScheduleRefresh
  BY <1>6 DEF ScheduleRefresh, issued, LocksHeld, TokensTyped
<1>7. CASE NearExpiry
  BY <1>7 DEF NearExpiry, issued, LocksHeld, TokensTyped
<1>8. CASE Expire
  BY <1>8 DEF Expire, issued, LocksHeld, TokensTyped
<1>9. CASE Revoke
  BY <1>9 DEF Revoke, issued, LocksHeld, TokensTyped
<1>10. ASSUME NEW w \in Workers, Begin(w)
      PROVE  LocksHeld'
  BY <1>10 DEF Begin, issued, Idle, LocksHeld, TokensTyped, CredentialsParameters
<1>11. ASSUME NEW w \in Workers, StartJob(w)
      PROVE  LocksHeld'
  BY <1>11 DEF StartJob, issued, Idle, LocksHeld, TokensTyped, CredentialsParameters
<1>12. ASSUME NEW w \in Workers, Fetch(w)
      PROVE  LocksHeld'
  BY <1>12 DEF Fetch, issued, FetchRow, End, Idle, LocksHeld, TokensTyped, Unlocked, CredentialsParameters, WorkerTokens
<1>13. ASSUME NEW w \in Workers, Exchange(w)
      PROVE  LocksHeld'
  <2> DEFINE new == IF worker[w].row \in Rotating THEN serial + 2 ELSE worker[w].refresh
  <2>1. worker[w] \in WorkerTokens /\ UNCHANGED row /\ worker[w].pc = "exchange"
    BY <1>13 DEF Exchange, TokensTyped
  <2>2. CASE /\ worker' = [worker EXCEPT ![w] = [worker[w] EXCEPT !.pc = "store", !.access = serial + 1, !.refresh = new]]
             /\ UNCHANGED lock
    <3>1. /\ \A v \in Workers \ {w} : worker'[v] = worker[v]
          /\ worker'[w].pc = "store" /\ worker'[w].row = worker[w].row /\ worker'[w].seen = worker[w].seen
      BY <2>1, <2>2 DEF TokensTyped, WorkerTokens
    <3>2. QED
      BY <2>1, <2>2, <3>1 DEF LocksHeld, TokensTyped, CredentialsParameters
  <2>3. CASE worker' = [worker EXCEPT ![w] = Idle] /\ Release(w)
    BY <2>1, <2>3, OthersHold DEF Idle, TokensTyped
  <2>4. CASE worker' = [worker EXCEPT ![w] = [worker[w] EXCEPT !.pc = "mark"]] /\ Release(w)
    <3>1. (\A v \in Workers \ {w} : worker'[v] = worker[v]) /\ worker'[w].pc = "mark"
      BY <2>1, <2>4 DEF TokensTyped, WorkerTokens
    <3>2. QED
      BY <2>1, <2>4, <3>1, OthersHold
  <2>5. QED
    BY <1>13, <2>2, <2>3, <2>4, Exchanges
<1>14. ASSUME NEW w \in Workers, Store(w)
      PROVE  LocksHeld'
  <2>1. worker[w].row \in Rows /\ lock[worker[w].row] = w
    BY <1>14 DEF Store, LocksHeld, TokensTyped, WorkerTokens
  <2>2. /\ Release(w) /\ \A v \in Workers \ {w} : worker'[v] = worker[v]
        /\ worker'[w].pc \notin {"exchange", "store"}
        /\ \A r \in Rows : r # worker[w].row => row'[r] = row[r]
    BY <1>14 DEF Store, TokensTyped
  <2>3. QED
    BY <2>1, <2>2, OthersHold
<1>15. ASSUME NEW w \in Workers, Use(w)
      PROVE  LocksHeld'
  <2>1. /\ UNCHANGED <<row, lock>> /\ worker[w].pc = "use"
        /\ \A v \in Workers \ {w} : worker'[v] = worker[v]
    BY <1>15 DEF Use, End, TokensTyped
  <2>2. worker'[w].pc \notin {"exchange", "store"}
    BY <1>15 DEF Use, End, Idle, TokensTyped, WorkerTokens
  <2>3. QED
    BY <2>1, <2>2, OthersHold
<1>16. ASSUME NEW w \in Workers, Mark(w)
      PROVE  LocksHeld'
  BY <1>16 DEF Mark, issued, End, Idle, LocksHeld, TokensTyped, Unlocked, CredentialsParameters
<1>17. ASSUME NEW w \in Workers, Reschedule(w)
      PROVE  LocksHeld'
  BY <1>17 DEF Reschedule, issued, Idle, LocksHeld, TokensTyped, CredentialsParameters
<1>18. ASSUME NEW w \in Workers, StoreFails(w)
      PROVE  LocksHeld'
  BY <1>18, OthersHold DEF StoreFails, Throw, Idle, TokensTyped
<1>19. ASSUME NEW w \in Workers, Crash(w)
      PROVE  LocksHeld'
  BY <1>19, OthersHold DEF Crash, Idle, TokensTyped
<1>20. CASE UNCHANGED vars
  BY <1>20 DEF vars, issued, LocksHeld
<1> QED
  BY <1>1, <1>2, <1>3, <1>4, <1>5, <1>6, <1>7, <1>8, <1>9, <1>10,
     <1>11, <1>12, <1>13, <1>14, <1>15, <1>16, <1>17, <1>18, <1>19, <1>20 DEF Next, WorkerStep

LEMMA RowsStep ==
  ASSUME CredentialsParameters, CredInv, [Next]_vars
  PROVE  RowsWhole'
<1>0. TokensTyped /\ LocksHeld /\ RowsWhole /\ \A w \in Workers : Carried(w)
  BY DEF CredInv
<1> USE <1>0
<1>1. CASE Connect
  BY <1>1 DEF Connect, issued, RowsWhole, TokensTyped
<1>2. CASE Upsert
  BY <1>2 DEF Upsert, issued, RowsWhole, TokensTyped, ConnectTokens, NoConnect
<1>3. CASE UpsertSchedule
  BY <1>3 DEF UpsertSchedule, issued, RowsWhole, TokensTyped, ConnectTokens, NoConnect
<1>4. CASE ConnectFails
  BY <1>4 DEF ConnectFails, issued, RowsWhole, NoConnect
<1>5. CASE Disconnect
  BY <1>5 DEF Disconnect, issued, RowsWhole, TokensTyped, Wiped, Absent
<1>6. CASE ScheduleRefresh
  BY <1>6 DEF ScheduleRefresh, issued, RowsWhole
<1>7. CASE NearExpiry
  BY <1>7 DEF NearExpiry, issued, RowsWhole
<1>8. CASE Expire
  BY <1>8 DEF Expire, issued, RowsWhole
<1>9. CASE Revoke
  BY <1>9 DEF Revoke, issued, RowsWhole
<1>10. ASSUME NEW w \in Workers, Begin(w)
      PROVE  RowsWhole'
  BY <1>10 DEF Begin, issued, RowsWhole
<1>11. ASSUME NEW w \in Workers, StartJob(w)
      PROVE  RowsWhole'
  BY <1>11 DEF StartJob, issued, RowsWhole
<1>12. ASSUME NEW w \in Workers, Fetch(w)
      PROVE  RowsWhole'
  BY <1>12 DEF Fetch, issued, FetchRow, RowsWhole
<1>13. ASSUME NEW w \in Workers, Exchange(w)
      PROVE  RowsWhole'
  BY <1>13 DEF Exchange, issued, RowsWhole
<1>14. ASSUME NEW w \in Workers, Store(w)
      PROVE  RowsWhole'
  BY <1>14 DEF Store, issued, RowsWhole, TokensTyped, Carried, Renewed, LocksHeld, RowTokens
<1>15. ASSUME NEW w \in Workers, Use(w)
      PROVE  RowsWhole'
  BY <1>15 DEF Use, issued, RowsWhole
<1>16. ASSUME NEW w \in Workers, Mark(w)
      PROVE  RowsWhole'
  BY <1>16 DEF Mark, issued, RowsWhole, TokensTyped, RowTokens
<1>17. ASSUME NEW w \in Workers, Reschedule(w)
      PROVE  RowsWhole'
  BY <1>17 DEF Reschedule, issued, RowsWhole
<1>18. ASSUME NEW w \in Workers, StoreFails(w)
      PROVE  RowsWhole'
  BY <1>18 DEF StoreFails, issued, RowsWhole
<1>19. ASSUME NEW w \in Workers, Crash(w)
      PROVE  RowsWhole'
  BY <1>19 DEF Crash, issued, RowsWhole
<1>20. CASE UNCHANGED vars
  BY <1>20 DEF vars, issued, RowsWhole
<1> QED
  BY <1>1, <1>2, <1>3, <1>4, <1>5, <1>6, <1>7, <1>8, <1>9, <1>10,
     <1>11, <1>12, <1>13, <1>14, <1>15, <1>16, <1>17, <1>18, <1>19, <1>20 DEF Next, WorkerStep

LEMMA GoodAges ==
  ASSUME CredentialsParameters, CredInv, [Next]_vars
  PROVE  /\ serial \in Nat /\ serial' \in Nat /\ serial <= serial' /\ near \subseteq near'
         /\ \A t \in 0..serial : t \in good' => t \in good
<1>0. TokensTyped /\ serial \in Nat
  BY DEF CredInv, TokensTyped
<1>1. CASE Connect
  BY <1>0, <1>1 DEF Connect, TokensTyped
<1>2. CASE Upsert \/ UpsertSchedule \/ ConnectFails \/ Disconnect \/ ScheduleRefresh
  <2>1. UNCHANGED <<good, serial, near>>
    BY <1>2 DEF Upsert, UpsertSchedule, ConnectFails, Disconnect, ScheduleRefresh, issued
  <2>2. QED
    BY <1>0, <2>1
<1>3. CASE NearExpiry
  BY <1>0, <1>3 DEF NearExpiry
<1>4. CASE Expire \/ Revoke
  BY <1>0, <1>4 DEF Expire, Revoke
<1>5. ASSUME NEW w \in Workers, Begin(w) \/ StartJob(w) \/ Fetch(w) \/ Store(w) \/ Use(w)
      PROVE  UNCHANGED <<good, serial, near>>
  BY <1>5 DEF Begin, StartJob, Fetch, FetchRow, Store, Use, issued
<1>6. ASSUME NEW w \in Workers, Mark(w) \/ Reschedule(w) \/ StoreFails(w) \/ Crash(w)
      PROVE  UNCHANGED <<good, serial, near>>
  BY <1>6 DEF Mark, Reschedule, StoreFails, Crash, issued
<1>7. ASSUME NEW w \in Workers, Exchange(w)
      PROVE  /\ serial' \in Nat /\ serial <= serial' /\ near \subseteq near'
             /\ \A t \in 0..serial : t \in good' => t \in good
  <2>1. near' = near
    BY <1>7 DEF Exchange
  <2>2. CASE serial' = serial /\ good' = good
    BY <1>0, <2>1, <2>2
  <2>3. CASE /\ serial' = serial + 2 /\ worker[w].refresh \in good
             /\ \E gone \in SUBSET {worker[w].seen.access} :
                  good' = (good \ (gone \cup IF worker[w].row \in Rotating THEN {worker[w].refresh} ELSE {}))
                          \cup {serial + 1, IF worker[w].row \in Rotating THEN serial + 2 ELSE worker[w].refresh}
    BY <1>0, <2>1, <2>3
  <2>4. QED
    BY <1>7, <2>2, <2>3 DEF Exchange
<1>8. CASE UNCHANGED vars
  BY <1>0, <1>8 DEF vars, issued
<1>9. QED
  BY <1>0, <1>1, <1>2, <1>3, <1>4, <1>5, <1>6, <1>7, <1>8 DEF Next, WorkerStep

LEMMA DeadStaysDead ==
  ASSUME CredentialsParameters, CredInv, [Next]_vars, NEW u \in RowTokens, Dead(u)
  PROVE  Dead(u)'
BY GoodAges DEF Dead, RowTokens, AccessTokens, RefreshTokens

LEMMA CarriedKept ==
  ASSUME CredentialsParameters, CredInv, [Next]_vars, NEW v \in Workers, worker'[v] = worker[v],
         worker[v].pc = "store" /\ worker[v].row \in late => worker[v].row \in late'
  PROVE  Carried(v)'
<1>1. worker[v].seen \in RowTokens /\ Carried(v)
  BY DEF CredInv, TokensTyped, WorkerTokens
<1>2. Dead(worker[v].seen) => Dead(worker[v].seen)'
  <2>1. PICK x \in RowTokens : x = worker[v].seen
    BY <1>1
  <2>2. Dead(x) => Dead(x)'
    BY DeadStaysDead
  <2>3. worker'[v].seen = x
    BY <2>1
  <2>4. QED
    BY <2>1, <2>2, <2>3 DEF Dead
<1> HIDE DEF Dead
<1>3. Renewed(v)' <=> Renewed(v)
  BY DEF Renewed
<1>4. QED
  BY <1>1, <1>2, <1>3 DEF Carried

LEMMA CarriedStep ==
  ASSUME CredentialsParameters, CredInv, [Next]_vars
  PROVE  \A w \in Workers : Carried(w)'
<1>0. TokensTyped /\ LocksHeld /\ RowsWhole /\ MarkedDead /\ \A w \in Workers : Carried(w)
  BY DEF CredInv
<1>1. CASE UNCHANGED worker /\ late \subseteq late'
  BY <1>1, CarriedKept
<1>2. CASE /\ UNCHANGED worker
           /\ \E r \in Rows : Unlocked(r) /\ late' = late \ {r}
  <2>1. PICK r \in Rows : Unlocked(r) /\ late' = late \ {r}
    BY <1>2
  <2>2. ASSUME NEW v \in Workers, worker[v].pc = "store"
        PROVE  worker[v].row # r
    BY <1>0, <2>1, <2>2 DEF LocksHeld, Unlocked, CredentialsParameters
  <2>3. QED
    BY <1>2, <2>1, <2>2, CarriedKept
<1>3. CASE Connect \/ UpsertSchedule \/ ConnectFails \/ ScheduleRefresh \/ NearExpiry \/ Expire \/ Revoke
  <2>1. UNCHANGED <<worker, late>>
    BY <1>3 DEF Connect, UpsertSchedule, ConnectFails, ScheduleRefresh, NearExpiry, Expire, Revoke
  <2>2. QED
    BY <1>1, <2>1
<1>4. CASE Upsert
  <2>1. \E r \in Rows : Unlocked(r) /\ late' = late \ {r}
    BY <1>0, <1>4 DEF Upsert, TokensTyped, ConnectTokens
  <2>2. QED
    BY <1>2, <1>4, <2>1 DEF Upsert
<1>5. CASE Disconnect
  BY <1>2, <1>5 DEF Disconnect
<1>6. ASSUME NEW w \in Workers, NEW x,
             worker' = [worker EXCEPT ![w] = x], late \subseteq late', Carried(w)'
      PROVE  \A v \in Workers : Carried(v)'
  <2>1. ASSUME NEW v \in Workers, v # w
        PROVE  Carried(v)'
    <3>1. worker'[v] = worker[v]
      BY <1>0, <1>6, <2>1 DEF TokensTyped
    <3>2. QED
      BY <1>6, <3>1, CarriedKept
  <2>2. QED
    BY <1>6, <2>1
<1>7. ASSUME NEW w \in Workers, worker' = [worker EXCEPT ![w] = Idle], late \subseteq late'
      PROVE  \A v \in Workers : Carried(v)'
  <2>1. worker'[w] = Idle
    BY <1>0, <1>7 DEF TokensTyped
  <2>2. Carried(w)'
    BY <2>1 DEF Carried, Idle
  <2>3. QED
    BY <1>6, <1>7, <2>2
<1>8. ASSUME NEW w \in Workers, Begin(w)
      PROVE  \A v \in Workers : Carried(v)'
  <2>1. PICK r \in Rows, from \in Callers :
          worker' = [worker EXCEPT ![w] = [Idle EXCEPT !.pc = "fetch", !.from = from, !.row = r]]
    BY <1>8 DEF Begin
  <2>2. worker'[w] = [Idle EXCEPT !.pc = "fetch", !.from = from, !.row = r]
    BY <1>0, <2>1 DEF TokensTyped
  <2>3. Carried(w)'
    BY <2>2 DEF Carried, Idle
  <2>4. QED
    BY <1>6, <1>8, <2>1, <2>3 DEF Begin
<1>9. ASSUME NEW w \in Workers, StartJob(w)
      PROVE  \A v \in Workers : Carried(v)'
  <2>1. PICK j \in jobs :
          worker' = [worker EXCEPT ![w] = [Idle EXCEPT !.pc = "fetch", !.from = "job", !.row = j.row,
                                                         !.job = j.token, !.force = TRUE]]
    BY <1>9 DEF StartJob
  <2>2. worker'[w] = [Idle EXCEPT !.pc = "fetch", !.from = "job", !.row = j.row, !.job = j.token, !.force = TRUE]
    BY <1>0, <2>1 DEF TokensTyped
  <2>3. Carried(w)'
    BY <2>2 DEF Carried, Idle
  <2>4. QED
    BY <1>6, <1>9, <2>1, <2>3 DEF StartJob
<1>10. ASSUME NEW w \in Workers, Fetch(w)
       PROVE  \A v \in Workers : Carried(v)'
  <2> DEFINE r == worker[w].row
             u == row[r]
  <2>1. /\ worker[w] \in WorkerTokens /\ UNCHANGED <<row, good, near, late>> /\ u \in RowTokens
        /\ worker[w].access = 0 /\ worker[w].refresh = 0
    BY <1>0, <1>10 DEF Fetch, FetchRow, issued, TokensTyped, WorkerTokens, Carried
  <2>2. CASE End(w)
    BY <1>7, <2>1, <2>2 DEF End
  <2>3. CASE /\ worker' = [worker EXCEPT ![w].pc = "mark", ![w].seen = u]
             /\ u.status # "active" \/ (u.refresh = 0 /\ u.access \in near)
    <3>1. worker' = [worker EXCEPT ![w] = [worker[w] EXCEPT !.pc = "mark", !.seen = u]]
      BY <1>0, <2>3 DEF TokensTyped
    <3>2. worker'[w] = [worker[w] EXCEPT !.pc = "mark", !.seen = u]
      BY <1>0, <3>1 DEF TokensTyped
    <3>3. worker'[w].pc = "mark" /\ worker'[w].seen = u
      BY <2>1, <3>2 DEF WorkerTokens
    <3>4. Dead(u) \/ u.status = "needs_reauth"
      <4>0. r \in Rows
        BY <2>1 DEF WorkerTokens
      <4>1. 0 \notin good
        BY <1>0 DEF TokensTyped
      <4>2. u.status \in {"absent", "disconnected"} => Dead(u)
        BY <1>0, <4>0, <4>1 DEF RowsWhole, Dead
      <4>3. u.refresh = 0 /\ u.access \in near => Dead(u)
        BY DEF Dead
      <4>4. u.status \in Status
        BY <2>1 DEF RowTokens
      <4>5. QED
        BY <2>3, <4>2, <4>3, <4>4 DEF Status
    <3>5. Carried(w)'
      BY <2>1, <3>3, <3>4 DEF Carried, Dead
    <3>6. QED
      BY <1>6, <2>1, <3>1, <3>5
  <2>4. CASE /\ worker' = [worker EXCEPT ![w].pc = "use", ![w].access = u.access, ![w].seen = u]
             /\ u.refresh # 0 => ~ worker[w].force
    <3>1. worker' = [worker EXCEPT ![w] = [worker[w] EXCEPT !.pc = "use", !.access = u.access, !.seen = u]]
      BY <1>0, <2>4 DEF TokensTyped
    <3>2. worker'[w] = [worker[w] EXCEPT !.pc = "use", !.access = u.access, !.seen = u]
      BY <1>0, <3>1 DEF TokensTyped
    <3>3. /\ worker'[w].pc = "use" /\ worker'[w].seen = u /\ worker'[w].access = u.access
          /\ worker'[w].refresh = 0 /\ worker'[w].force = worker[w].force
      BY <2>1, <3>2 DEF WorkerTokens
    <3>4. Carried(w)'
      BY <2>4, <3>3 DEF Carried
    <3>5. QED
      BY <1>6, <2>1, <3>1, <3>4
  <2>5. CASE worker' = [worker EXCEPT ![w].pc = "exchange", ![w].refresh = u.refresh, ![w].seen = u]
    <3>1. worker' = [worker EXCEPT ![w] = [worker[w] EXCEPT !.pc = "exchange", !.refresh = u.refresh, !.seen = u]]
      BY <1>0, <2>5 DEF TokensTyped
    <3>2. worker'[w] = [worker[w] EXCEPT !.pc = "exchange", !.refresh = u.refresh, !.seen = u]
      BY <1>0, <3>1 DEF TokensTyped
    <3>3. /\ worker'[w].pc = "exchange" /\ worker'[w].seen = u /\ worker'[w].access = 0
          /\ worker'[w].refresh = u.refresh
      BY <2>1, <3>2 DEF WorkerTokens
    <3>4. Carried(w)'
      BY <3>3 DEF Carried
    <3>5. QED
      BY <1>6, <2>1, <3>1, <3>4
  <2>6. QED
    BY <1>10, <2>2, <2>3, <2>4, <2>5 DEF Fetch, FetchRow
<1>11. ASSUME NEW w \in Workers, Exchange(w)
       PROVE  \A v \in Workers : Carried(v)'
  <2> DEFINE new == IF worker[w].row \in Rotating THEN serial + 2 ELSE worker[w].refresh
             stored == [worker[w] EXCEPT !.pc = "store", !.access = serial + 1, !.refresh = new]
             marking == [worker[w] EXCEPT !.pc = "mark"]
  <2>1. /\ worker[w] \in WorkerTokens /\ worker[w].pc = "exchange" /\ UNCHANGED <<row, near, late>>
        /\ worker[w].refresh = worker[w].seen.refresh /\ worker[w].seen.refresh # 0
        /\ worker[w].seen = row[worker[w].row] /\ worker[w].row \in Rows /\ serial \in Nat
    BY <1>0, <1>11 DEF Exchange, TokensTyped, WorkerTokens, Carried, LocksHeld
  <2>2. CASE worker' = [worker EXCEPT ![w] = stored] /\ worker[w].refresh \in good
    <3>1. worker'[w] = stored
      BY <1>0, <2>2 DEF TokensTyped
    <3>2. /\ worker'[w].pc = "store" /\ worker'[w].access # 0 /\ worker'[w].refresh = new
          /\ worker'[w].seen = worker[w].seen /\ worker'[w].row = worker[w].row
      BY <2>1, <3>1 DEF WorkerTokens
    <3>3. new # 0 /\ (worker[w].row \notin Rotating => new = worker[w].seen.refresh)
      BY <2>1
    <3>4. worker[w].seen.status = "needs_reauth" => worker[w].row \in late
      BY <1>0, <2>1, <2>2 DEF MarkedDead, Dead
    <3>5. Carried(w)'
      BY <2>1, <3>2, <3>3, <3>4 DEF Carried, Renewed
    <3>6. QED
      BY <1>6, <2>1, <2>2, <3>5
  <2>3. CASE worker' = [worker EXCEPT ![w] = Idle]
    BY <1>7, <2>1, <2>3
  <2>4. CASE worker' = [worker EXCEPT ![w] = marking] /\ worker[w].refresh \notin good /\ UNCHANGED good
    <3>1. worker'[w] = marking
      BY <1>0, <2>4 DEF TokensTyped
    <3>2. worker'[w].pc = "mark" /\ worker'[w].seen = worker[w].seen
      BY <2>1, <3>1 DEF WorkerTokens
    <3>3. Carried(w)'
      BY <2>1, <2>4, <3>2 DEF Carried, Dead
    <3>4. QED
      BY <1>6, <2>1, <2>4, <3>3
  <2>5. QED
    BY <1>0, <1>11, <2>2, <2>3, <2>4, Exchanges
<1>12. ASSUME NEW w \in Workers, Store(w)
       PROVE  \A v \in Workers : Carried(v)'
  <2> DEFINE r == worker[w].row
             u == [row[r] EXCEPT !.access = worker[w].access, !.refresh = worker[w].refresh]
             p == IF worker[w].from = "job" THEN "reschedule" ELSE "use"
  <2>1. worker[w] \in WorkerTokens /\ Renewed(w) /\ late' = late /\ r \in Rows /\ row[r] \in RowTokens
    BY <1>0, <1>12 DEF Store, TokensTyped, WorkerTokens, Carried
  <2>2. row'[r] = u /\ worker' = [worker EXCEPT ![w] = [worker[w] EXCEPT !.pc = p, !.seen = row'[r]]]
    BY <1>0, <1>12, <2>1 DEF Store, TokensTyped
  <2>3. worker'[w] = [worker[w] EXCEPT !.pc = p, !.seen = u]
    BY <1>0, <2>2 DEF TokensTyped
  <2>4. /\ worker'[w].pc \in {"use", "reschedule"} /\ worker'[w].seen = u
        /\ worker'[w].access = worker[w].access /\ worker'[w].refresh = worker[w].refresh
    BY <2>1, <2>3 DEF WorkerTokens
  <2>5. u.access = worker[w].access
    BY <2>1 DEF RowTokens
  <2>6. Carried(w)'
    BY <2>1, <2>4, <2>5 DEF Carried, Renewed
  <2>7. QED
    BY <1>6, <2>1, <2>2, <2>6
<1>13. ASSUME NEW w \in Workers, Use(w)
       PROVE  \A v \in Workers : Carried(v)'
  <2>1. /\ worker[w] \in WorkerTokens /\ worker[w].pc = "use" /\ UNCHANGED <<good, near, late>>
        /\ worker[w].access = worker[w].seen.access
        /\ Renewed(w) \/ (worker[w].refresh = 0 /\ (worker[w].force => worker[w].seen.refresh = 0))
    BY <1>0, <1>13 DEF Use, issued, TokensTyped, Carried
  <2>2. CASE End(w)
    BY <1>7, <2>1, <2>2 DEF End
  <2>3. CASE worker' = [worker EXCEPT ![w].pc = "fetch", ![w].force = TRUE, ![w].access = 0, ![w].refresh = 0]
    <3>1. worker' = [worker EXCEPT ![w] = [worker[w] EXCEPT !.pc = "fetch", !.force = TRUE, !.access = 0, !.refresh = 0]]
      BY <1>0, <2>3 DEF TokensTyped
    <3>2. worker'[w] = [worker[w] EXCEPT !.pc = "fetch", !.force = TRUE, !.access = 0, !.refresh = 0]
      BY <1>0, <3>1 DEF TokensTyped
    <3>3. Carried(w)'
      BY <2>1, <3>2 DEF Carried, WorkerTokens
    <3>4. QED
      BY <1>6, <2>1, <3>1, <3>3
  <2>4. CASE worker' = [worker EXCEPT ![w].pc = "mark"] /\ worker[w].access \notin good /\ worker[w].force
    <3>1. worker' = [worker EXCEPT ![w] = [worker[w] EXCEPT !.pc = "mark"]]
      BY <1>0, <2>4 DEF TokensTyped
    <3>2. worker'[w] = [worker[w] EXCEPT !.pc = "mark"]
      BY <1>0, <3>1 DEF TokensTyped
    <3>3. /\ worker'[w].pc = "mark" /\ worker'[w].seen = worker[w].seen
          /\ worker'[w].access = worker[w].access /\ worker'[w].refresh = worker[w].refresh
      BY <2>1, <3>2 DEF WorkerTokens
    <3>4. Carried(w)'
      BY <2>1, <2>4, <3>3 DEF Carried, Dead, Renewed
    <3>5. QED
      BY <1>6, <2>1, <3>1, <3>4
  <2>5. CASE worker' = [worker EXCEPT ![w].pc = "reschedule"]
    <3>1. worker' = [worker EXCEPT ![w] = [worker[w] EXCEPT !.pc = "reschedule"]]
      BY <1>0, <2>5 DEF TokensTyped
    <3>2. worker'[w] = [worker[w] EXCEPT !.pc = "reschedule"]
      BY <1>0, <3>1 DEF TokensTyped
    <3>3. worker'[w].pc = "reschedule"
      BY <2>1, <3>2 DEF WorkerTokens
    <3>4. Carried(w)'
      BY <3>3 DEF Carried
    <3>5. QED
      BY <1>6, <2>1, <3>1, <3>4
  <2>6. QED
    BY <1>13, <2>2, <2>3, <2>4, <2>5 DEF Use
<1>14. ASSUME NEW w \in Workers, Mark(w) \/ Reschedule(w) \/ StoreFails(w) \/ Crash(w)
       PROVE  \A v \in Workers : Carried(v)'
  <2>1. worker' = [worker EXCEPT ![w] = Idle] /\ late \subseteq late'
    BY <1>14 DEF Mark, Reschedule, StoreFails, Crash, End, Throw
  <2>2. QED
    BY <1>7, <2>1
<1>15. CASE UNCHANGED vars
  BY <1>1, <1>15 DEF vars
<1> QED
  BY <1>3, <1>4, <1>5, <1>8, <1>9, <1>10, <1>11, <1>12, <1>13, <1>14, <1>15 DEF Next, WorkerStep

LEMMA MarkedStep ==
  ASSUME CredentialsParameters, CredInv, [Next]_vars
  PROVE  MarkedDead'
<1>0. TokensTyped /\ LocksHeld /\ MarkedDead /\ \A w \in Workers : Carried(w)
  BY DEF CredInv
<1>1. SUFFICES ASSUME NEW r \in Rows, r \notin late', row'[r].status = "needs_reauth"
               PROVE  Dead(row[r])'
  BY DEF MarkedDead
<1>2. row[r] \in RowTokens
  BY <1>0 DEF TokensTyped
<1>3. CASE /\ r \notin late /\ row[r].status = "needs_reauth"
           /\ row'[r].access = row[r].access /\ row'[r].refresh = row[r].refresh
  <2>1. PICK x \in RowTokens : x = row[r]
    BY <1>2
  <2>2. Dead(x)'
    BY <1>0, <1>3, <2>1, DeadStaysDead DEF MarkedDead
  <2>3. QED
    BY <1>3, <2>1, <2>2 DEF Dead
<1>4. CASE UNCHANGED row /\ late \subseteq late'
  BY <1>1, <1>3, <1>4
<1>5. CASE Connect \/ UpsertSchedule \/ ConnectFails \/ ScheduleRefresh \/ NearExpiry \/ Expire \/ Revoke
  <2>1. UNCHANGED <<row, late>>
    BY <1>5 DEF Connect, UpsertSchedule, ConnectFails, ScheduleRefresh, NearExpiry, Expire, Revoke
  <2>2. QED
    BY <1>4, <2>1
<1>6. CASE Upsert
  <2>1. PICK u \in Rows :
          /\ row' = [row EXCEPT ![u] = [status |-> "active", access |-> connect.access, refresh |-> connect.refresh]]
          /\ late' = late \ {u}
    BY <1>0, <1>6 DEF Upsert, TokensTyped, ConnectTokens
  <2>2. u # r /\ row'[r] = row[r] /\ r \notin late
    BY <1>0, <1>1, <2>1 DEF TokensTyped
  <2>3. QED
    BY <1>1, <1>3, <2>2
<1>7. CASE Disconnect
  <2>1. PICK u \in Rows : row' = [row EXCEPT ![u] = Wiped] /\ late' = late \ {u}
    BY <1>7 DEF Disconnect
  <2>2. u # r /\ row'[r] = row[r] /\ r \notin late
    BY <1>0, <1>1, <2>1 DEF TokensTyped, Wiped, Absent
  <2>3. QED
    BY <1>1, <1>3, <2>2
<1>8. ASSUME NEW w \in Workers, Store(w)
      PROVE  Dead(row[r])'
  <2>1. /\ UNCHANGED late
        /\ row' = [row EXCEPT ![worker[w].row].access = worker[w].access, ![worker[w].row].refresh = worker[w].refresh]
    BY <1>8 DEF Store
  <2>2. CASE r # worker[w].row
    <3>1. row'[r] = row[r]
      BY <1>0, <2>1, <2>2 DEF TokensTyped
    <3>2. QED
      BY <1>1, <1>3, <2>1, <3>1
  <2>3. CASE r = worker[w].row
    <3>1. row'[r].status = row[r].status
      BY <1>0, <1>2, <2>1, <2>3 DEF TokensTyped, RowTokens
    <3>2. row[r] = worker[w].seen /\ (worker[w].seen.status = "needs_reauth" => r \in late)
      BY <1>0, <1>8, <2>3 DEF Store, LocksHeld, Carried
    <3>3. QED
      BY <1>1, <2>1, <3>1, <3>2
  <2>4. QED
    BY <2>2, <2>3
<1>9. ASSUME NEW w \in Workers, Mark(w)
      PROVE  Dead(row[r])'
  <2>1. /\ row' = [row EXCEPT ![worker[w].row].status = "needs_reauth"]
        /\ late \subseteq late' /\ UNCHANGED <<good, near>>
        /\ row[worker[w].row] # worker[w].seen \/ Renewed(w) => worker[w].row \in late'
        /\ worker[w].pc = "mark"
    BY <1>9 DEF Mark, issued
  <2>2. CASE r # worker[w].row
    <3>1. row'[r] = row[r]
      BY <1>0, <2>1, <2>2 DEF TokensTyped
    <3>2. QED
      BY <1>1, <1>3, <2>1, <3>1
  <2>3. CASE r = worker[w].row
    <3>1. row'[r].access = row[r].access /\ row'[r].refresh = row[r].refresh
      BY <1>0, <1>2, <2>1, <2>3 DEF TokensTyped, RowTokens
    <3>2. Dead(row[r]) \/ row[r].status = "needs_reauth"
      BY <1>0, <1>1, <2>1, <2>3 DEF Carried
    <3>3. CASE row[r].status = "needs_reauth"
      BY <1>1, <1>3, <2>1, <3>1, <3>3
    <3>4. CASE Dead(row[r])
      BY <2>1, <3>1, <3>4 DEF Dead
    <3>5. QED
      BY <3>2, <3>3, <3>4
  <2>4. QED
    BY <2>2, <2>3
<1>10. ASSUME NEW w \in Workers,
              \/ Begin(w) \/ StartJob(w) \/ Fetch(w) \/ Exchange(w) \/ Use(w)
              \/ Reschedule(w) \/ StoreFails(w) \/ Crash(w)
       PROVE  Dead(row[r])'
  <2>1. UNCHANGED <<row, late>>
    BY <1>10 DEF Begin, StartJob, Fetch, FetchRow, Exchange, Use, Reschedule, StoreFails, Crash
  <2>2. QED
    BY <1>4, <2>1
<1>11. CASE UNCHANGED vars
  BY <1>4, <1>11 DEF vars
<1>12. QED
  BY <1>5, <1>6, <1>7, <1>8, <1>9, <1>10, <1>11 DEF Next, WorkerStep

-----------------------------------------------------------------------------
(* The theorems that hold of every connection *)

LEMMA CredInductive ==
  ASSUME CredentialsParameters
  PROVE  /\ Init => CredInv
         /\ CredInv /\ [Next]_vars => CredInv'
<1>1. Init => CredInv
  <2>1. SUFFICES ASSUME Init PROVE CredInv
    OBVIOUS
  <2>2. TokensTyped
    <3>1. serial \in Nat /\ serial % 2 = 0
      BY <2>1 DEF Init
    <3>2. QED
      BY <2>1, <3>1, Idles DEF Init, TokensTyped
  <2>3. LocksHeld /\ RowsWhole /\ MarkedDead /\ \A w \in Workers : Carried(w)
    BY <2>1 DEF Init, LocksHeld, RowsWhole, MarkedDead, Carried, Idle, Absent, NoConnect
  <2>4. QED
    BY <2>2, <2>3 DEF CredInv
<1>2. CredInv /\ [Next]_vars => CredInv'
  BY TypedStep, LocksStep, RowsStep, CarriedStep, MarkedStep DEF CredInv
<1>3. QED
  BY <1>1, <1>2

\* Every variable keeps its type, and a row is locked by the worker that is between its read
\* of it and its commit.
THEOREM CredentialsTyped == ASSUME CredentialsParameters PROVE Spec => []CredentialsTypeOK
<1>1. CredInv => CredentialsTypeOK
  <2>1. SUFFICES ASSUME CredInv PROVE CredentialsTypeOK
    OBVIOUS
  <2>2. TokensTyped /\ LocksHeld /\ serial \in Nat
    BY <2>1 DEF CredInv, TokensTyped
  <2>3. AccessTokens \subseteq Nat /\ RefreshTokens \subseteq Nat /\ AccessTokens \ {0} \subseteq 1..serial
    BY <2>2 DEF AccessTokens, RefreshTokens
  <2>4. RowTokens \subseteq RowStates
    BY <2>3 DEF RowTokens, RowStates
  <2>5. WorkerTokens \subseteq WorkerStates
    BY <2>3, <2>4 DEF WorkerTokens, WorkerStates
  <2>6. connect.rows \subseteq Rows
    BY <2>2 DEF TokensTyped, ConnectTokens
  <2>7. QED
    BY <2>2, <2>3, <2>4, <2>5, <2>6 DEF TokensTyped, LocksHeld, Unlocked, CredentialsTypeOK
<1>2. QED
  BY <1>1, CredInductive, PTL DEF Spec

\* Nothing but a connection brings tokens back to a row without any (channels.service.ts,
\* disconnect): a refresh that was in flight never stores its tokens over the wipe, because it
\* holds the row it read them from.
THEOREM WipesStay == ASSUME CredentialsParameters PROVE Spec => WipedStaysWiped
<1> DEFINE Stays == \A r \in Rows : row[r].access = 0 /\ row'[r].access # 0 => connect' # connect
<1>1. CredInv /\ [Next]_vars => [Stays]_vars
  <2>1. SUFFICES ASSUME CredInv, [Next]_vars, NEW r \in Rows, row[r].access = 0, row'[r].access # 0
                 PROVE  connect' # connect
    OBVIOUS
  <2>2. TokensTyped /\ LocksHeld /\ RowsWhole
    BY <2>1 DEF CredInv
  <2>3. CASE Upsert
    <3>1. PICK u \in connect.rows :
            LET rest == connect.rows \ {u}
                next == IF u \in Channels /\ connect.refresh # 0 THEN {u} ELSE {}
            IN connect' = IF rest = {} /\ next = {} THEN NoConnect
                          ELSE [connect EXCEPT !.rows = rest, !.schedule = next]
      BY <2>3 DEF Upsert
    <3>2. connect'.rows \subseteq connect.rows \ {u}
      BY <2>2, <3>1 DEF NoConnect, TokensTyped, ConnectTokens
    <3>3. QED
      BY <3>1, <3>2
  <2>4. ASSUME NEW w \in Workers, Store(w)
        PROVE  FALSE
    <3>1. /\ worker[w].pc = "store" /\ worker[w].row \in Rows
          /\ \A s \in Rows \ {worker[w].row} : row'[s] = row[s]
      BY <2>2, <2>4 DEF Store, TokensTyped, WorkerTokens
    <3>2. row[worker[w].row].refresh # 0
      BY <2>2, <3>1 DEF LocksHeld
    <3>3. QED
      BY <2>1, <2>2, <3>1, <3>2 DEF RowsWhole
  <2>5. CASE Disconnect
    BY <2>1, <2>2, <2>5 DEF Disconnect, Wiped, Absent, TokensTyped
  <2>6. ASSUME NEW w \in Workers, Mark(w)
        PROVE  FALSE
    <3>1. row[r] \in RowTokens
      BY <2>2 DEF TokensTyped
    <3>2. QED
      BY <2>1, <2>2, <2>6, <3>1 DEF Mark, TokensTyped, RowTokens
  <2>7. CASE UNCHANGED row
    BY <2>1, <2>7
  <2>8. QED
    BY <2>1, <2>3, <2>4, <2>5, <2>6, <2>7
       DEF Next, WorkerStep, vars, Connect, UpsertSchedule, ConnectFails, Begin, StartJob, Fetch, FetchRow,
           Exchange, Use, Reschedule, StoreFails, Crash, ScheduleRefresh, NearExpiry, Expire, Revoke
<1>2. QED
  BY <1>1, CredInductive, PTL DEF Spec, WipedStaysWiped

\* A row is marked for reconnection only when its tokens are of no more use, save where the
\* row had changed since the outcome, or the platform refused a token it had just issued: no
\* restart, outage or slow worker costs a user the connection (channel-tokens.ts,
\* markNeedsReauth).
THEOREM MarkedNeedReconnect == ASSUME CredentialsParameters PROVE Spec => []ReauthMeansReconnect
<1>1. CredInv => ReauthMeansReconnect
  BY DEF CredInv, MarkedDead, Dead, ReauthMeansReconnect, Usable
<1>2. QED
  BY <1>1, CredInductive, PTL DEF Spec

-----------------------------------------------------------------------------
(* The current token of a platform that rotates *)

LEMMA ApartKept ==
  ASSUME TokensApart,
         \A r \in Rows : row'[r].refresh \in {0, row[r].refresh},
         connect'.rows \subseteq connect.rows, connect'.rows # {} => connect'.refresh = connect.refresh,
         \A w \in Workers : Issued(w)' => Issued(w) /\ worker'[w].refresh = worker[w].refresh,
         \A w \in Workers : Issued(w) => worker[w].refresh # 0
  PROVE  TokensApart'
<1>1. RowsApart'
  BY DEF TokensApart, RowsApart, MayShare
<1>2. ConnectApart'
  BY DEF TokensApart, ConnectApart, MayShare
<1>3. IssuedApart'
  <2>1. SUFFICES ASSUME NEW w \in Workers, Issued(w)'
        PROVE  /\ \A r \in Rows : row'[r].refresh # worker'[w].refresh
               /\ connect'.rows # {} => connect'.refresh # worker'[w].refresh
               /\ \A v \in Workers : Issued(v)' /\ worker'[v].refresh = worker'[w].refresh => v = w
    BY DEF IssuedApart
  <2>2. Issued(w) /\ worker'[w].refresh = worker[w].refresh /\ worker[w].refresh # 0
    BY <2>1
  <2>3. /\ \A r \in Rows : row[r].refresh # worker[w].refresh
        /\ connect.rows # {} => connect.refresh # worker[w].refresh
        /\ \A v \in Workers : Issued(v) /\ worker[v].refresh = worker[w].refresh => v = w
    BY <2>2 DEF TokensApart, IssuedApart
  <2>4. QED
    BY <2>2, <2>3
<1>4. QED
  BY <1>1, <1>2, <1>3 DEF TokensApart

LEMMA Bounds ==
  ASSUME CredInv
  PROVE  /\ serial \in Nat
         /\ \A r \in Rows : row[r].refresh \in 0..serial
         /\ connect.refresh \in 0..serial /\ connect.rows \subseteq Rows
         /\ \A w \in Workers : /\ worker[w].refresh \in 0..serial /\ worker[w].row \in Rows
                               /\ Issued(w) => worker[w].refresh # 0
<1>1. TokensTyped /\ serial \in Nat /\ \A w \in Workers : Carried(w)
  BY DEF CredInv, TokensTyped
<1>2. \A r \in Rows : row[r].refresh \in 0..serial
  BY <1>1 DEF TokensTyped, RowTokens, RefreshTokens
<1>3. connect.refresh \in 0..serial /\ connect.rows \subseteq Rows
  BY <1>1 DEF TokensTyped, ConnectTokens, RefreshTokens
<1>4. \A w \in Workers : worker[w].refresh \in 0..serial /\ worker[w].row \in Rows
  BY <1>1 DEF TokensTyped, WorkerTokens, RefreshTokens
<1>5. \A w \in Workers : Issued(w) => worker[w].refresh # 0
  BY <1>1 DEF Carried, Issued, Renewed
<1>6. QED
  BY <1>1, <1>2, <1>3, <1>4, <1>5

LEMMA IssuedOnly ==
  ASSUME CredInv, NEW w \in Workers, NEW x,
         worker' = [worker EXCEPT ![w] = x], x.pc # "store"
  PROVE  \A v \in Workers : Issued(v)' => v # w /\ Issued(v) /\ worker'[v] = worker[v]
BY DEF CredInv, TokensTyped, Issued

LEMMA ConnectSteps ==
  ASSUME CredInv, Upsert \/ UpsertSchedule \/ ConnectFails
  PROVE  /\ connect'.rows \subseteq connect.rows
         /\ connect'.rows # {} => connect'.refresh = connect.refresh /\ connect'.access = connect.access
<1>1. connect \in ConnectTokens
  BY DEF CredInv, TokensTyped
<1>2. CASE Upsert
  <2>1. PICK u \in connect.rows :
            LET rest == connect.rows \ {u}
                next == IF u \in Channels /\ connect.refresh # 0 THEN {u} ELSE {}
            IN connect' = IF rest = {} /\ next = {} THEN NoConnect
                          ELSE [connect EXCEPT !.rows = rest, !.schedule = next]
    BY <1>2 DEF Upsert
  <2>2. QED
    BY <1>1, <2>1 DEF NoConnect, ConnectTokens
<1>3. CASE UpsertSchedule \/ ConnectFails
  <2>1. connect' \in {NoConnect, [connect EXCEPT !.schedule = {}]}
    BY <1>3 DEF UpsertSchedule, ConnectFails
  <2>2. QED
    BY <1>1, <2>1 DEF NoConnect, ConnectTokens
<1>4. QED
  BY <1>2, <1>3

\* The steps of a worker that stores no token next.
LEMMA NoStore ==
  ASSUME TokensTyped, NEW w \in Workers,
         \/ Begin(w) \/ StartJob(w) \/ Fetch(w) \/ Use(w) \/ Mark(w) \/ Reschedule(w)
         \/ StoreFails(w) \/ Crash(w)
  PROVE  /\ worker'[w].pc # "store" /\ \A v \in Workers \ {w} : worker'[v] = worker[v]
<1>1. CASE Begin(w) \/ StartJob(w)
  BY <1>1 DEF Begin, StartJob, Idle, TokensTyped
<1>2. CASE Fetch(w)
  <2>1. worker[w].pc = "fetch"
    BY <1>2 DEF Fetch, FetchRow
  <2>2. CASE End(w)
    BY <2>1, <2>2 DEF End, Idle, TokensTyped
  <2>3. CASE \E u : worker' = [worker EXCEPT ![w].pc = "mark", ![w].seen = u]
    BY <2>1, <2>3 DEF TokensTyped, WorkerTokens
  <2>4. CASE \E u, a : worker' = [worker EXCEPT ![w].pc = "use", ![w].access = a, ![w].seen = u]
    BY <2>1, <2>4 DEF TokensTyped, WorkerTokens
  <2>5. CASE \E u, f : worker' = [worker EXCEPT ![w].pc = "exchange", ![w].refresh = f, ![w].seen = u]
    BY <2>1, <2>5 DEF TokensTyped, WorkerTokens
  <2>6. QED
    BY <1>2, <2>2, <2>3, <2>4, <2>5 DEF Fetch, FetchRow
<1>3. CASE Use(w)
  BY <1>3 DEF Use, End, Idle, TokensTyped, WorkerTokens
<1>4. CASE Mark(w) \/ Reschedule(w) \/ StoreFails(w) \/ Crash(w)
  BY <1>4 DEF Mark, Reschedule, StoreFails, Crash, End, Throw, Idle, TokensTyped
<1>5. QED
  BY <1>1, <1>2, <1>3, <1>4

LEMMA ApartStep ==
  ASSUME CredentialsParameters, CredInv, TokensApart, OneChannelEach', [Next]_vars
  PROVE  TokensApart'
<1>0. TokensTyped /\ LocksHeld /\ \A w \in Workers : Carried(w)
  BY DEF CredInv
<1>1. CASE UNCHANGED <<row, worker>> /\ UNCHANGED connect
  BY <1>1, Bounds, ApartKept DEF Issued
<1>2. CASE UpsertSchedule \/ ConnectFails
  <2>1. UNCHANGED <<row, worker>>
    BY <1>2 DEF UpsertSchedule, ConnectFails
  <2>2. QED
    BY <1>2, <2>1, Bounds, ConnectSteps, ApartKept DEF Issued
<1>3. CASE Disconnect
  <2>1. UNCHANGED <<worker, connect>> /\ \A r \in Rows : row'[r].refresh \in {0, row[r].refresh}
    BY <1>0, <1>3 DEF Disconnect, Wiped, Absent, TokensTyped
  <2>2. QED
    BY <2>1, Bounds, ApartKept DEF Issued
<1>4. CASE ScheduleRefresh \/ NearExpiry \/ Expire \/ Revoke
  BY <1>1, <1>4 DEF ScheduleRefresh, NearExpiry, Expire, Revoke
<1>5. CASE Connect
  <2>1. PICK S \in ((SUBSET Channels) \cup (SUBSET AdAccounts)) \ {{}}, refreshable \in BOOLEAN :
          connect' = [rows |-> S, access |-> serial + 1,
                      refresh |-> IF refreshable THEN serial + 2 ELSE 0, schedule |-> {}]
    BY <1>5 DEF Connect
  <2>2. UNCHANGED <<row, worker>>
    BY <1>5 DEF Connect
  <2>3. connect'.rows = S /\ connect'.refresh \in {0, serial + 2}
    BY <2>1
  <2>4. RowsApart'
    BY <2>2 DEF TokensApart, RowsApart, MayShare
  <2>5. ConnectApart'
    <3>1. \A r, s \in S : MayShare(r, s)
      BY <2>1, <2>3 DEF OneChannelEach, MayShare, CredentialsParameters
    <3>2. \A r \in Rows : connect'.refresh # 0 => row[r].refresh # connect'.refresh
      BY <2>3, Bounds
    <3>3. QED
      BY <2>2, <2>3, <3>1, <3>2 DEF ConnectApart, MayShare
  <2>6. IssuedApart'
    <3>1. \A w \in Workers : Issued(w) => connect'.refresh # worker[w].refresh
      BY <2>3, Bounds
    <3>2. QED
      BY <2>2, <3>1 DEF TokensApart, IssuedApart, Issued
  <2>7. QED
    BY <2>4, <2>5, <2>6 DEF TokensApart
<1>6. CASE Upsert
  <2>1. PICK u \in connect.rows :
          /\ Unlocked(u)
          /\ row' = [row EXCEPT ![u] = [status |-> "active", access |-> connect.access, refresh |-> connect.refresh]]
          /\ connect'.rows \subseteq connect.rows \ {u}
    <3>1. PICK u \in connect.rows :
            /\ Unlocked(u)
            /\ row' = [row EXCEPT ![u] = [status |-> "active", access |-> connect.access, refresh |-> connect.refresh]]
            /\ LET rest == connect.rows \ {u}
                   next == IF u \in Channels /\ connect.refresh # 0 THEN {u} ELSE {}
               IN connect' = IF rest = {} /\ next = {} THEN NoConnect
                             ELSE [connect EXCEPT !.rows = rest, !.schedule = next]
      BY <1>6 DEF Upsert
    <3>2. connect'.rows \subseteq connect.rows \ {u}
      BY <1>0, <3>1 DEF NoConnect, TokensTyped, ConnectTokens
    <3>3. QED
      BY <3>1, <3>2
  <2>2. /\ UNCHANGED worker /\ u \in Rows
        /\ row'[u].refresh = connect.refresh /\ \A r \in Rows : r # u => row'[r] = row[r]
    BY <1>0, <1>6, <2>1, Bounds DEF Upsert, TokensTyped
  <2>3. connect'.rows # {} => connect'.refresh = connect.refresh
    BY <1>6, ConnectSteps
  <2>4. RowsApart'
    <3>1. ASSUME NEW r \in Rows, r # u, row[r].refresh = connect.refresh, connect.refresh # 0
          PROVE  MayShare(r, u) /\ MayShare(u, r)
      BY <2>1, <3>1 DEF TokensApart, ConnectApart, MayShare
    <3>2. QED
      BY <2>2, <3>1 DEF TokensApart, RowsApart, MayShare
  <2>5. ConnectApart'
    <3>1. ASSUME NEW r \in Rows, NEW t \in connect'.rows, connect.refresh # 0, row'[r].refresh = connect.refresh
          PROVE  r # t /\ MayShare(r, t)
      <4>1. t \in connect.rows /\ t # u
        BY <2>1
      <4>2. CASE r = u
        BY <2>1, <4>1, <4>2 DEF TokensApart, ConnectApart
      <4>3. CASE r # u
        BY <2>2, <3>1, <4>1, <4>3 DEF TokensApart, ConnectApart
      <4>4. QED
        BY <4>2, <4>3
    <3>2. QED
      BY <2>1, <2>3, <3>1 DEF TokensApart, ConnectApart, MayShare
  <2>6. IssuedApart'
    BY <2>1, <2>2, <2>3 DEF TokensApart, IssuedApart, Issued
  <2>7. QED
    BY <2>4, <2>5, <2>6 DEF TokensApart
<1>7. ASSUME NEW w \in Workers, NEW x, worker' = [worker EXCEPT ![w] = x], x.pc # "store",
             UNCHANGED connect, \A r \in Rows : row'[r].refresh = row[r].refresh
      PROVE  TokensApart'
  BY <1>7, IssuedOnly, Bounds, ApartKept
<1>8. ASSUME NEW w \in Workers,
             Begin(w) \/ StartJob(w) \/ Fetch(w) \/ Use(w) \/ Mark(w) \/ Reschedule(w) \/ StoreFails(w) \/ Crash(w)
      PROVE  TokensApart'
  <2>1. UNCHANGED connect
    BY <1>8 DEF Begin, StartJob, Fetch, FetchRow, Use, Mark, Reschedule, StoreFails, Crash
  <2>2. \A r \in Rows : row'[r].refresh = row[r].refresh
    <3>1. CASE Mark(w)
      BY <1>0, <3>1 DEF Mark, TokensTyped, RowTokens
    <3>2. CASE ~ Mark(w)
      BY <1>8, <3>2 DEF Begin, StartJob, Fetch, FetchRow, Use, Reschedule, StoreFails, Crash
    <3>3. QED
      BY <3>1, <3>2
  <2>3. \A v \in Workers : Issued(v)' => Issued(v) /\ worker'[v].refresh = worker[v].refresh
    <3>1. worker'[w].pc # "store" /\ \A v \in Workers \ {w} : worker'[v] = worker[v]
      BY <1>0, <1>8, NoStore
    <3>2. QED
      BY <3>1 DEF Issued
  <2>4. QED
    BY <2>1, <2>2, <2>3, Bounds, ApartKept
<1>9. ASSUME NEW w \in Workers, Exchange(w)
      PROVE  TokensApart'
  <2> DEFINE new == IF worker[w].row \in Rotating THEN serial + 2 ELSE worker[w].refresh
             stored == [worker[w] EXCEPT !.pc = "store", !.access = serial + 1, !.refresh = new]
  <2>1. UNCHANGED <<row, connect>> /\ worker[w] \in WorkerTokens
    BY <1>0, <1>9 DEF Exchange, TokensTyped
  <2>2. CASE worker' = [worker EXCEPT ![w] = stored]
    <3>1. /\ \A v \in Workers \ {w} : worker'[v] = worker[v]
          /\ worker'[w].pc = "store" /\ worker'[w].row = worker[w].row /\ worker'[w].refresh = new
      BY <1>0, <2>1, <2>2 DEF TokensTyped, WorkerTokens
    <3>2. CASE worker[w].row \notin Rotating
      <4>1. \A v \in Workers : Issued(v)' => Issued(v) /\ worker'[v].refresh = worker[v].refresh
        BY <3>1, <3>2 DEF Issued
      <4>2. QED
        BY <2>1, <4>1, Bounds, ApartKept
    <3>3. CASE worker[w].row \in Rotating
      <4>1. \A v \in Workers \ {w} : Issued(v)' => Issued(v) /\ worker'[v].refresh = worker[v].refresh
        BY <3>1 DEF Issued
      <4>2. /\ \A r \in Rows : row[r].refresh # serial + 2
            /\ connect.refresh # serial + 2 /\ \A v \in Workers : worker[v].refresh # serial + 2
        BY Bounds
      <4>3. IssuedApart'
        BY <2>1, <3>1, <3>3, <4>1, <4>2 DEF TokensApart, IssuedApart
      <4>4. QED
        BY <2>1, <4>3 DEF TokensApart, RowsApart, ConnectApart, MayShare
    <3>4. QED
      BY <3>2, <3>3
  <2>3. CASE worker' = [worker EXCEPT ![w] = Idle]
    <3>1. Idle.pc # "store"
      BY DEF Idle
    <3>2. QED
      BY <1>7, <2>1, <2>3, <3>1
  <2>4. CASE worker' = [worker EXCEPT ![w] = [worker[w] EXCEPT !.pc = "mark"]]
    <3>1. [worker[w] EXCEPT !.pc = "mark"].pc # "store"
      BY <2>1 DEF WorkerTokens
    <3>2. QED
      BY <1>7, <2>1, <2>4, <3>1
  <2>5. QED
    BY <1>0, <1>9, <2>2, <2>3, <2>4, Exchanges
<1>10. ASSUME NEW w \in Workers, Store(w)
       PROVE  TokensApart'
  <2> DEFINE u == worker[w].row
  <2>1. /\ worker[w] \in WorkerTokens /\ u \in Rows /\ UNCHANGED connect /\ worker[w].pc = "store"
        /\ row'[u].refresh = worker[w].refresh /\ \A r \in Rows : r # u => row'[r] = row[r]
        /\ \A v \in Workers \ {w} : worker'[v] = worker[v]
    BY <1>0, <1>10 DEF Store, TokensTyped, WorkerTokens, RowTokens
  <2>2. worker'[w].pc # "store"
    BY <1>0, <1>10 DEF Store, TokensTyped, WorkerTokens
  <2>3. \A v \in Workers : Issued(v)' => v # w /\ Issued(v) /\ worker'[v].refresh = worker[v].refresh
    BY <2>1, <2>2 DEF Issued
  <2>4. CASE u \notin Rotating
    <3>1. worker[w].refresh = row[u].refresh
      BY <1>0, <2>1, <2>4 DEF Carried, LocksHeld
    <3>2. QED
      BY <2>1, <2>3, <3>1, Bounds, ApartKept
  <2>5. CASE u \in Rotating
    <3>1. /\ Issued(w) /\ \A r \in Rows : row[r].refresh # worker[w].refresh
          /\ connect.rows # {} => connect.refresh # worker[w].refresh
          /\ \A v \in Workers : Issued(v) /\ worker[v].refresh = worker[w].refresh => v = w
      BY <2>1, <2>5 DEF Issued, TokensApart, IssuedApart
    <3>2. RowsApart'
      BY <2>1, <3>1 DEF TokensApart, RowsApart, MayShare
    <3>3. ConnectApart'
      BY <2>1, <3>1 DEF TokensApart, ConnectApart, MayShare
    <3>4. IssuedApart'
      BY <2>1, <2>3, <3>1 DEF TokensApart, IssuedApart
    <3>5. QED
      BY <3>2, <3>3, <3>4 DEF TokensApart
  <2>6. QED
    BY <2>4, <2>5
<1>11. CASE UNCHANGED vars
  BY <1>1, <1>11 DEF vars
<1>12. QED
  BY <1>2, <1>3, <1>4, <1>5, <1>6, <1>8, <1>9, <1>10, <1>11 DEF Next, WorkerStep

LEMMA LivesOn ==
  ASSUME CredentialsParameters, CredInv, [Next]_vars, NEW u,
         u.access \in 0..serial, u.refresh \in good => u.refresh \in good', Lives(u)
  PROVE  u.refresh # 0 /\ u.access \in good' => u.refresh \in good'
BY GoodAges DEF Lives

LEMMA AccessBounds ==
  ASSUME CredInv
  PROVE  /\ \A r \in Rows : row[r].access \in 0..serial
         /\ connect.access \in 0..serial
         /\ \A w \in Workers : worker[w].access \in 0..serial
<1>1. TokensTyped
  BY DEF CredInv
<1>2. \A r \in Rows : row[r].access \in 0..serial
  BY <1>1 DEF TokensTyped, RowTokens, AccessTokens
<1>3. connect.access \in 0..serial
  BY <1>1 DEF TokensTyped, ConnectTokens, AccessTokens
<1>4. \A w \in Workers : worker[w].access \in 0..serial
  BY <1>1 DEF TokensTyped, WorkerTokens, AccessTokens
<1>5. QED
  BY <1>2, <1>3, <1>4

\* Steps that take no refresh token's life and store none.
LEMMA LiveKept ==
  ASSUME CredentialsParameters, CredInv, TokensLive, [Next]_vars,
         \A t \in RefreshTokens \ {0} : t \in good => t \in good',
         \A r \in Rows : row'[r].refresh = 0 \/ (row'[r].refresh = row[r].refresh /\ row'[r].access = row[r].access),
         connect'.rows \subseteq connect.rows,
         connect'.rows # {} => connect'.refresh = connect.refresh /\ connect'.access = connect.access,
         \A w \in Workers : worker'[w].pc = "store" => worker'[w] = worker[w],
         \A w \in Workers : Issued(w) => Issued(w)' \/ worker[w].row \in lost',
         \A r \in Rows : r \in lost /\ r \notin lost' => row'[r].refresh = 0 /\ Unlocked(r)
  PROVE  TokensLive'
<1>1. /\ \A r \in Rows : row[r].refresh \in RefreshTokens
      /\ connect.refresh \in RefreshTokens
      /\ \A w \in Workers : worker[w].refresh \in RefreshTokens
  BY DEF CredInv, TokensTyped, RowTokens, ConnectTokens, WorkerTokens
<1>2. RowsLive'
  <2>1. SUFFICES ASSUME NEW r \in Channels, r \notin lost', \A w \in Workers : Issued(w)' => worker'[w].row # r,
                        row'[r].refresh # 0, row'[r].access \in good'
                 PROVE  row'[r].refresh \in good'
    BY DEF RowsLive, Lives
  <2>2. r \in Rows /\ row'[r].refresh = row[r].refresh /\ row'[r].access = row[r].access /\ r \notin lost
    BY <2>1 DEF Rows
  <2>3. \A w \in Workers : Issued(w) => worker[w].row # r
    BY <2>1 DEF Issued
  <2>4. Lives(row[r])
    BY <2>1, <2>2, <2>3 DEF TokensLive, RowsLive
  <2>5. row[r].access \in good
    BY <2>1, <2>2, GoodAges, AccessBounds
  <2>6. QED
    BY <1>1, <2>1, <2>2, <2>4, <2>5 DEF Lives
<1>3. StoresLive'
  <2>1. SUFFICES ASSUME NEW w \in Workers, worker'[w].pc = "store", worker'[w].row \in Channels \ lost',
                        worker'[w].refresh # 0, worker'[w].access \in good'
                 PROVE  worker'[w].refresh \in good'
    BY DEF StoresLive, Lives
  <2>2. worker'[w] = worker[w] /\ worker[w].row \in Rows
    BY <2>1 DEF CredInv, TokensTyped, WorkerTokens
  <2>3. worker[w].row \notin lost
    BY <2>1, <2>2 DEF CredInv, LocksHeld, Unlocked, CredentialsParameters
  <2>4. Lives(worker[w])
    BY <2>1, <2>2, <2>3 DEF TokensLive, StoresLive
  <2>5. worker[w].access \in good
    BY <2>1, <2>2, GoodAges, AccessBounds
  <2>6. QED
    BY <1>1, <2>1, <2>2, <2>4, <2>5 DEF Lives
<1>4. ConnectLives'
  <2>1. SUFFICES ASSUME connect'.rows \cap Channels # {}, connect'.refresh # 0, connect'.access \in good'
                 PROVE  connect'.refresh \in good'
    BY DEF ConnectLives, Lives
  <2>2. /\ connect'.refresh = connect.refresh /\ connect'.access = connect.access
        /\ connect.rows \cap Channels # {}
    BY <2>1
  <2>3. Lives(connect)
    BY <2>2 DEF TokensLive, ConnectLives
  <2>4. connect.access \in good
    BY <2>1, <2>2, GoodAges, AccessBounds
  <2>5. QED
    BY <1>1, <2>1, <2>2, <2>3, <2>4 DEF Lives
<1>5. QED
  BY <1>2, <1>3, <1>4 DEF TokensLive

\* What one step leaves alone goes on living, unless its refresh token's life was taken alone.
LEMMA OneLives ==
  ASSUME CredentialsParameters, CredInv, TokensLive, [Next]_vars
  PROVE  /\ \A r \in Channels \ lost :
              /\ \A w \in Workers : Issued(w) => worker[w].row # r
              /\ row'[r].refresh = row[r].refresh /\ row'[r].access = row[r].access
              /\ row[r].refresh \in good /\ row[r].refresh # 0 /\ row[r].access \in good' => row[r].refresh \in good'
              => Lives(row[r])'
         /\ \A w \in Workers :
              /\ worker[w].pc = "store" /\ worker[w].row \in Channels \ lost /\ worker'[w] = worker[w]
              /\ worker[w].refresh \in good /\ worker[w].refresh # 0 /\ worker[w].access \in good' => worker[w].refresh \in good'
              => Lives(worker[w])'
         /\ /\ connect.rows \cap Channels # {} /\ connect'.refresh = connect.refresh /\ connect'.access = connect.access
            /\ connect.refresh \in good /\ connect.refresh # 0 /\ connect.access \in good' => connect.refresh \in good'
            => Lives(connect)'
<1>1. \A t \in 0..serial : t \in good' => t \in good
  BY GoodAges
<1>2. ASSUME NEW r \in Channels \ lost, \A w \in Workers : Issued(w) => worker[w].row # r,
             row'[r].refresh = row[r].refresh, row'[r].access = row[r].access,
             row[r].refresh \in good /\ row[r].refresh # 0 /\ row[r].access \in good' => row[r].refresh \in good'
      PROVE  Lives(row[r])'
  <2>1. r \in Rows /\ Lives(row[r])
    BY <1>2 DEF TokensLive, RowsLive, Rows
  <2>2. QED
    BY <1>1, <1>2, <2>1, AccessBounds DEF Lives
<1>3. ASSUME NEW w \in Workers, worker[w].pc = "store", worker[w].row \in Channels \ lost, worker'[w] = worker[w],
             worker[w].refresh \in good /\ worker[w].refresh # 0 /\ worker[w].access \in good' => worker[w].refresh \in good'
      PROVE  Lives(worker[w])'
  <2>1. Lives(worker[w])
    BY <1>3 DEF TokensLive, StoresLive
  <2>2. QED
    BY <1>1, <1>3, <2>1, AccessBounds DEF Lives
<1>4. ASSUME connect.rows \cap Channels # {}, connect'.refresh = connect.refresh, connect'.access = connect.access,
             connect.refresh \in good /\ connect.refresh # 0 /\ connect.access \in good' => connect.refresh \in good'
      PROVE  Lives(connect)'
  <2>1. Lives(connect)
    BY <1>4 DEF TokensLive, ConnectLives
  <2>2. QED
    BY <1>1, <1>4, <2>1, AccessBounds DEF Lives
<1>5. QED
  BY <1>2, <1>3, <1>4

\* A revocation ends the access tokens of whatever loses its refresh token to it.
LEMMA RevokesLogins ==
  ASSUME CredentialsParameters, CredInv, TokensApart, NEW r \in Rows
  PROVE  /\ \A s \in Rows : row[s].refresh # 0 /\ row[s].refresh \in LoginTokens(r) => row[s].access \in LoginTokens(r)
         /\ \A w \in Workers : worker[w].pc = "store" /\ worker[w].refresh \in LoginTokens(r) => worker[w].access \in LoginTokens(r)
         /\ connect.rows # {} /\ connect.refresh # 0 /\ connect.refresh \in LoginTokens(r) => connect.access \in LoginTokens(r)
<1> DEFINE storing == {w \in Workers : worker[w].pc = "store" /\ worker[w].row \in Sharing(r)}
<1>1. TokensTyped /\ LocksHeld /\ \A w \in Workers : Carried(w)
  BY DEF CredInv
\* The refresh tokens among them: the row's own, and those fresh from an exchange.
<1>2. ASSUME NEW x \in RefreshTokens \ {0}, x \in LoginTokens(r)
      PROVE  x = row[r].refresh \/ \E w \in storing : Issued(w) /\ worker[w].refresh = x
  <2>1. x \notin AccessTokens
    BY <1>2 DEF AccessTokens, RefreshTokens
  <2>2. \/ \E s \in Sharing(r) : x \in TokensOf(row[s])
        \/ \E w \in storing : x \in TokensOf(worker[w])
        \/ connect.refresh = row[r].refresh /\ connect.refresh # 0 /\ x \in TokensOf(connect)
    BY <1>2 DEF LoginTokens
  <2>3. ASSUME NEW s \in Sharing(r), x \in TokensOf(row[s])
        PROVE  x = row[r].refresh
    <3>1. s \in Rows /\ x = row[s].refresh
      BY <1>1, <2>1, <2>3 DEF Sharing, TokensOf, TokensTyped, RowTokens
    <3>2. QED
      BY <1>2, <2>3, <3>1 DEF Sharing
  <2>4. ASSUME NEW w \in storing, x \in TokensOf(worker[w])
        PROVE  x = row[r].refresh \/ (Issued(w) /\ worker[w].refresh = x)
    <3>1. x = worker[w].refresh
      BY <1>1, <2>1, <2>4 DEF TokensOf, TokensTyped, WorkerTokens
    <3>2. CASE worker[w].row \notin Rotating
      <4>1. x = row[worker[w].row].refresh
        BY <1>1, <3>1, <3>2 DEF Carried, LocksHeld
      <4>2. QED
        BY <1>2, <4>1 DEF Sharing
    <3>3. QED
      BY <3>1, <3>2 DEF Issued
  <2>5. CASE connect.refresh = row[r].refresh /\ x \in TokensOf(connect)
    BY <1>1, <2>1, <2>5 DEF TokensOf, TokensTyped, ConnectTokens
  <2>6. QED
    BY <2>2, <2>3, <2>4, <2>5
<1>3. ASSUME NEW s \in Rows, row[s].refresh # 0, row[s].refresh \in LoginTokens(r)
      PROVE  s \in Sharing(r) /\ row[s].access \in LoginTokens(r)
  <2>1. row[s].refresh \in RefreshTokens \ {0}
    BY <1>1, <1>3 DEF TokensTyped, RowTokens
  <2>2. row[s].refresh = row[r].refresh
    BY <1>2, <1>3, <2>1 DEF TokensApart, IssuedApart
  <2>3. s \in Sharing(r)
    BY <1>3, <2>2 DEF Sharing
  <2>4. QED
    BY <2>3 DEF LoginTokens, TokensOf
<1>4. ASSUME NEW w \in Workers, worker[w].pc = "store", worker[w].refresh \in LoginTokens(r)
      PROVE  worker[w].access \in LoginTokens(r)
  <2>1. worker[w].refresh \in RefreshTokens \ {0} /\ worker[w].row \in Rows
    BY <1>1, <1>4 DEF TokensTyped, WorkerTokens, Carried, Renewed
  <2>2. worker[w].row \in Sharing(r)
    <3>1. CASE Issued(w)
      <4>1. PICK v \in storing : Issued(v) /\ worker[v].refresh = worker[w].refresh
        BY <1>2, <1>4, <2>1, <3>1 DEF TokensApart, IssuedApart
      <4>2. v = w
        BY <3>1, <4>1 DEF TokensApart, IssuedApart
      <4>3. QED
        BY <4>2
    <3>2. CASE ~ Issued(w)
      <4>1. row[worker[w].row].refresh = worker[w].refresh
        BY <1>1, <1>4, <3>2 DEF Carried, LocksHeld, Issued
      <4>2. QED
        BY <1>3, <1>4, <2>1, <4>1
    <3>3. QED
      BY <3>1, <3>2
  <2>3. w \in storing
    BY <1>4, <2>2
  <2>4. QED
    BY <2>3 DEF LoginTokens, TokensOf
<1>5. ASSUME connect.rows # {}, connect.refresh # 0, connect.refresh \in LoginTokens(r)
      PROVE  connect.access \in LoginTokens(r)
  <2>1. connect.refresh \in RefreshTokens \ {0}
    BY <1>1, <1>5 DEF TokensTyped, ConnectTokens
  <2>2. connect.refresh = row[r].refresh
    BY <1>2, <1>5, <2>1 DEF TokensApart, IssuedApart
  <2>3. QED
    BY <1>5, <2>2 DEF LoginTokens, TokensOf
<1>6. QED
  BY <1>3, <1>4, <1>5

LEMMA LiveStep ==
  ASSUME CredentialsParameters, CredInv, CurrentInv, [Next]_vars
  PROVE  TokensLive'
<1>0. TokensTyped /\ LocksHeld /\ (\A w \in Workers : Carried(w)) /\ TokensApart /\ TokensLive
  BY DEF CredInv, CurrentInv
<1>1. CASE UNCHANGED <<row, good, connect, lost>> /\ \A w \in Workers : (Issued(w) => Issued(w)') /\ (worker'[w].pc = "store" => worker'[w] = worker[w])
  BY <1>0, <1>1, LiveKept
<1>2. CASE UpsertSchedule \/ ConnectFails
  <2>1. UNCHANGED <<row, good, worker, lost>>
    BY <1>2 DEF UpsertSchedule, ConnectFails, issued
  <2>2. QED
    BY <1>0, <1>2, <2>1, ConnectSteps, LiveKept DEF Issued
<1>3. CASE Disconnect
  <2>1. PICK u \in Rows : Unlocked(u) /\ row' = [row EXCEPT ![u] = Wiped] /\ lost' = lost \ {u}
    BY <1>3 DEF Disconnect
  <2>2. UNCHANGED <<good, worker, connect>>
    BY <1>3 DEF Disconnect, issued
  <2>3. \A s \in Rows : row'[s] = IF s = u THEN Wiped ELSE row[s]
    BY <1>0, <2>1 DEF TokensTyped
  <2>4. Wiped.refresh = 0
    BY DEF Wiped, Absent
  <2>5. QED
    BY <1>0, <2>1, <2>2, <2>3, <2>4, LiveKept DEF Issued
<1>4. CASE Expire
  <2>1. PICK t \in near : good' = good \ {t}
    BY <1>4 DEF Expire
  <2>2. t \notin RefreshTokens \ {0}
    BY <1>0, <2>1 DEF TokensTyped, AccessTokens, RefreshTokens
  <2>3. UNCHANGED <<row, worker, connect, lost>>
    BY <1>4 DEF Expire
  <2>4. QED
    BY <1>0, <2>1, <2>2, <2>3, LiveKept DEF Issued
<1>5. CASE ScheduleRefresh \/ NearExpiry
  BY <1>1, <1>5 DEF ScheduleRefresh, NearExpiry, issued, Issued
<1>6. CASE Connect
  <2>1. PICK S \in ((SUBSET Channels) \cup (SUBSET AdAccounts)) \ {{}}, refreshable \in BOOLEAN :
          /\ connect' = [rows |-> S, access |-> serial + 1,
                         refresh |-> IF refreshable THEN serial + 2 ELSE 0, schedule |-> {}]
          /\ good' = good \cup (IF refreshable THEN {serial + 1, serial + 2} ELSE {serial + 1})
    BY <1>6 DEF Connect
  <2>2. UNCHANGED <<row, worker, lost>>
    BY <1>6 DEF Connect
  <2>3. good \subseteq good'
    BY <2>1
  <2>4. RowsLive'
    BY <1>0, <2>2, <2>3, OneLives DEF RowsLive, Issued
  <2>5. StoresLive'
    BY <1>0, <2>2, <2>3, OneLives DEF StoresLive
  <2>6. ConnectLives'
    BY <2>1 DEF ConnectLives, Lives
  <2>7. QED
    BY <2>4, <2>5, <2>6 DEF TokensLive
<1>7. CASE Upsert
  <2>1. PICK u \in connect.rows :
          /\ Unlocked(u) /\ lost' = lost \ {u}
          /\ row' = [row EXCEPT ![u] = [status |-> "active", access |-> connect.access, refresh |-> connect.refresh]]
    BY <1>7 DEF Upsert
  <2>2. UNCHANGED <<good, worker>> /\ u \in Rows
    BY <1>0, <1>7, <2>1, Bounds DEF Upsert, issued
  <2>3. /\ \A s \in Rows \ {u} : row'[s] = row[s]
        /\ row'[u].refresh = connect.refresh /\ row'[u].access = connect.access
    BY <1>0, <2>1, <2>2 DEF TokensTyped
  <2>4. RowsLive'
    <3>1. ASSUME NEW r \in Channels \ lost', \A w \in Workers : Issued(w)' => worker'[w].row # r
          PROVE  Lives(row[r])'
      <4>1. CASE r = u
        <5>1. Lives(connect)
          BY <1>0, <2>1, <4>1 DEF TokensLive, ConnectLives
        <5>2. QED
          BY <2>2, <2>3, <4>1, <5>1 DEF Lives
      <4>2. CASE r # u
        <5>1. r \in Channels \ lost /\ r \in Rows \ {u} /\ \A w \in Workers : Issued(w) => worker[w].row # r
          BY <2>1, <2>2, <3>1, <4>2 DEF Issued, Rows
        <5>2. QED
          BY <1>0, <2>2, <2>3, <5>1, OneLives
      <4>3. QED
        BY <4>1, <4>2
    <3>2. QED
      BY <3>1 DEF RowsLive
  <2>5. StoresLive'
    <3>1. \A w \in Workers : worker[w].pc = "store" => worker[w].row # u
      BY <1>0, <2>1 DEF LocksHeld, Unlocked, CredentialsParameters
    <3>2. QED
      BY <1>0, <2>1, <2>2, <3>1 DEF TokensLive, StoresLive, Lives
  <2>6. ConnectLives'
    <3>1. /\ connect'.rows \subseteq connect.rows
          /\ connect'.rows # {} => connect'.refresh = connect.refresh /\ connect'.access = connect.access
      BY <1>7, ConnectSteps
    <3>2. QED
      BY <1>0, <2>2, <3>1 DEF TokensLive, ConnectLives, Lives
  <2>7. QED
    BY <2>4, <2>5, <2>6 DEF TokensLive
<1>8. CASE Revoke
  <2>1. PICK r \in Rows : good' = good \ LoginTokens(r)
    BY <1>8 DEF Revoke
  <2>2. UNCHANGED <<row, worker, connect, lost>>
    BY <1>8 DEF Revoke
  <2>3. RowsLive'
    <3>1. \A s \in Rows : row[s].refresh \in good /\ row[s].refresh # 0 /\ row[s].access \in good' => row[s].refresh \in good'
      BY <1>0, <2>1, RevokesLogins
    <3>2. QED
      BY <1>0, <2>2, <3>1, OneLives DEF RowsLive, Issued, Rows
  <2>4. StoresLive'
    <3>1. \A w \in Workers : worker[w].pc = "store" /\ worker[w].refresh \in good /\ worker[w].access \in good' => worker[w].refresh \in good'
      BY <1>0, <2>1, RevokesLogins
    <3>2. QED
      BY <1>0, <2>2, <3>1, OneLives DEF StoresLive
  <2>5. ConnectLives'
    <3>1. connect.rows # {} /\ connect.refresh \in good /\ connect.refresh # 0 /\ connect.access \in good' => connect.refresh \in good'
      BY <1>0, <2>1, RevokesLogins
    <3>2. QED
      BY <1>0, <2>2, <3>1, OneLives DEF ConnectLives
  <2>6. QED
    BY <2>3, <2>4, <2>5 DEF TokensLive
<1>9. ASSUME NEW w \in Workers, Exchange(w)
      PROVE  TokensLive'
  <2> DEFINE r == worker[w].row
             f == worker[w].refresh
             new == IF r \in Rotating THEN serial + 2 ELSE f
             stored == [worker[w] EXCEPT !.pc = "store", !.access = serial + 1, !.refresh = new]
  <2>1. /\ worker[w] \in WorkerTokens /\ r \in Rows /\ UNCHANGED <<row, connect>> /\ ~ Issued(w)
        /\ worker[w].pc = "exchange" /\ row[r].refresh = f /\ f # 0 /\ lock[r] = w
    BY <1>0, <1>9 DEF Exchange, TokensTyped, WorkerTokens, LocksHeld, Carried, Issued
  <2>2. /\ lost \subseteq lost' /\ lost' \subseteq lost \cup {r}
        /\ \/ worker' = [worker EXCEPT ![w] = stored] /\ serial + 1 \in good' /\ new \in good' /\ lost' = lost
           \/ worker' = [worker EXCEPT ![w] = Idle]
           \/ worker' = [worker EXCEPT ![w] = [worker[w] EXCEPT !.pc = "mark"]] /\ good' = good
        /\ r \in Rotating => good' = good \/ Issued(w)' \/ r \in lost'
    <3>1. CASE /\ f \in good /\ UNCHANGED lost /\ serial + 1 \in good' /\ new \in good'
               /\ worker' = [worker EXCEPT ![w].pc = "store", ![w].access = serial + 1, ![w].refresh = new]
      <4>1. worker' = [worker EXCEPT ![w] = stored]
        BY <1>0, <3>1 DEF TokensTyped
      <4>2. worker'[w].pc = "store" /\ worker'[w].row = r
        BY <1>0, <2>1, <4>1 DEF TokensTyped, WorkerTokens
      <4>3. QED
        BY <3>1, <4>1, <4>2 DEF Issued
    <3>2. CASE /\ lost' = (IF r \in Rotating THEN lost \cup {r} ELSE lost) /\ Throw(w)
      BY <3>2 DEF Throw
    <3>3. CASE /\ UNCHANGED <<good, lost>>
               /\ End(w) \/ Throw(w) \/ worker' = [worker EXCEPT ![w].pc = "mark"]
      <4>1. worker' = [worker EXCEPT ![w].pc = "mark"] => worker' = [worker EXCEPT ![w] = [worker[w] EXCEPT !.pc = "mark"]]
        BY <1>0 DEF TokensTyped
      <4>2. QED
        BY <3>3, <4>1 DEF End, Throw
    <3>4. QED
      BY <1>9, <3>1, <3>2, <3>3 DEF Exchange
  \* Of the refresh tokens, at most the one just used loses its life.
  <2>3. \A t \in RefreshTokens \ {0} : t \in good => t \in good' \/ (r \in Rotating /\ t = f)
    <3>1. worker[w].seen.access \notin RefreshTokens \ {0}
      BY <2>1 DEF WorkerTokens, RowTokens, AccessTokens, RefreshTokens
    <3>2. good \ ({worker[w].seen.access} \cup IF r \in Rotating THEN {f} ELSE {}) \subseteq good'
      BY <1>9 DEF Exchange
    <3>3. QED
      BY <3>1, <3>2
  <2>4. \A v \in Workers : v # w => worker'[v] = worker[v] /\ (worker[v].pc = "store" => worker[v].row # r)
    BY <1>0, <2>1, <2>2 DEF TokensTyped, LocksHeld
  <2>5. worker'[w].pc = "store" => /\ worker'[w].access = serial + 1 /\ worker'[w].refresh = new /\ worker'[w].row = r
                                   /\ new \in good'
    <3>1. CASE worker' = [worker EXCEPT ![w] = stored] /\ new \in good'
      BY <1>0, <2>1, <3>1 DEF TokensTyped, WorkerTokens
    <3>2. CASE worker' = [worker EXCEPT ![w] = Idle]
      BY <1>0, <3>2 DEF TokensTyped, Idle
    <3>3. CASE worker' = [worker EXCEPT ![w] = [worker[w] EXCEPT !.pc = "mark"]]
      BY <1>0, <2>1, <3>3 DEF TokensTyped, WorkerTokens
    <3>4. QED
      BY <2>2, <3>1, <3>2, <3>3
  <2>6. RowsLive'
    <3>1. ASSUME NEW s \in Channels \ lost', \A v \in Workers : Issued(v)' => worker'[v].row # s
          PROVE  Lives(row[s])'
      <4>1. s \in Channels \ lost /\ s \in Rows /\ \A v \in Workers : Issued(v) => worker[v].row # s
        BY <2>1, <2>2, <2>4, <3>1 DEF Issued, Rows
      <4>2. row[s].refresh \in good /\ row[s].refresh # 0 => row[s].refresh \in good'
        <5>1. CASE s = r
          <6>1. r \in Rotating => good' = good
            BY <2>2, <2>5, <3>1, <5>1 DEF Issued
          <6>2. QED
            BY <1>0, <2>1, <2>3, <4>1, <6>1 DEF TokensTyped, RowTokens
        <5>2. CASE s # r
          <6>1. r \in Rotating => row[s].refresh # f
            BY <1>0, <2>1, <4>1, <5>2 DEF TokensApart, RowsApart, MayShare
          <6>2. QED
            BY <1>0, <2>3, <4>1, <6>1 DEF TokensTyped, RowTokens
        <5>3. QED
          BY <5>1, <5>2
      <4>3. QED
        BY <1>0, <2>1, <4>1, <4>2, OneLives
    <3>2. QED
      BY <3>1 DEF RowsLive
  <2>7. StoresLive'
    <3>1. ASSUME NEW v \in Workers, worker'[v].pc = "store", worker'[v].row \in Channels \ lost'
          PROVE  Lives(worker[v])'
      <4>1. CASE v = w
        BY <2>5, <3>1, <4>1 DEF Lives
      <4>2. CASE v # w
        <5>1. /\ worker'[v] = worker[v] /\ worker[v].pc = "store" /\ worker[v].row \in Channels \ lost
              /\ worker[v].row \in Rows /\ worker[v].row # r
          BY <2>2, <2>4, <3>1, <4>2, Bounds
        <5>2. r \in Rotating => worker[v].refresh # f
          <6>1. CASE Issued(v)
            BY <1>0, <2>1, <6>1 DEF TokensApart, IssuedApart
          <6>2. CASE ~ Issued(v)
            <7>1. worker[v].refresh = row[worker[v].row].refresh
              BY <1>0, <5>1, <6>2 DEF Carried, LocksHeld, Issued
            <7>2. QED
              BY <1>0, <2>1, <5>1, <7>1 DEF TokensApart, RowsApart, MayShare
          <6>3. QED
            BY <6>1, <6>2
        <5>3. worker[v].refresh \in RefreshTokens
          BY <1>0 DEF TokensTyped, WorkerTokens
        <5>4. QED
          BY <1>0, <2>3, <5>1, <5>2, <5>3, OneLives
      <4>3. QED
        BY <4>1, <4>2
    <3>2. QED
      BY <3>1 DEF StoresLive
  <2>8. ConnectLives'
    <3>1. SUFFICES ASSUME connect.rows \cap Channels # {}
                   PROVE  Lives(connect)'
      BY <2>1 DEF ConnectLives
    <3>2. PICK s \in connect.rows : s \in Channels
      BY <3>1
    <3>3. r \in Rotating /\ connect.refresh # 0 => connect.refresh # f
      BY <1>0, <2>1, <3>2 DEF TokensApart, ConnectApart, MayShare
    <3>4. connect.refresh \in RefreshTokens
      BY <1>0 DEF TokensTyped, ConnectTokens
    <3>5. QED
      BY <1>0, <2>1, <2>3, <3>1, <3>3, <3>4, OneLives
  <2>9. QED
    BY <2>6, <2>7, <2>8 DEF TokensLive
<1>10. ASSUME NEW w \in Workers, Store(w)
       PROVE  TokensLive'
  <2> DEFINE u == worker[w].row
  <2>1. /\ u \in Rows /\ UNCHANGED <<connect, good, lost>> /\ worker[w].pc = "store"
        /\ row'[u].refresh = worker[w].refresh /\ row'[u].access = worker[w].access
        /\ \A r \in Rows : r # u => row'[r] = row[r]
        /\ \A v \in Workers \ {w} : worker'[v] = worker[v]
    BY <1>0, <1>10 DEF Store, TokensTyped, WorkerTokens, RowTokens, issued
  <2>2. worker'[w].pc # "store"
    BY <1>0, <1>10 DEF Store, TokensTyped, WorkerTokens
  <2>3. RowsLive'
    <3>1. ASSUME NEW s \in Channels \ lost', \A v \in Workers : Issued(v)' => worker'[v].row # s
          PROVE  Lives(row[s])'
      <4>1. CASE s = u
        BY <1>0, <2>1, <3>1, <4>1 DEF TokensLive, StoresLive, Lives
      <4>2. CASE s # u
        BY <1>0, <2>1, <3>1, <4>2 DEF TokensLive, RowsLive, Lives, Issued, Rows
      <4>3. QED
        BY <4>1, <4>2
    <3>2. QED
      BY <3>1 DEF RowsLive
  <2>4. StoresLive'
    BY <1>0, <2>1, <2>2 DEF TokensLive, StoresLive, Lives
  <2>5. ConnectLives'
    BY <1>0, <2>1 DEF TokensLive, ConnectLives, Lives
  <2>6. QED
    BY <2>3, <2>4, <2>5 DEF TokensLive
<1>11. ASSUME NEW w \in Workers, StoreFails(w)
       PROVE  TokensLive'
  <2>1. /\ UNCHANGED <<row, good, connect>> /\ worker' = [worker EXCEPT ![w] = Idle]
        /\ lost' = IF worker[w].row \in Rotating THEN lost \cup {worker[w].row} ELSE lost
    BY <1>11 DEF StoreFails, Throw, issued
  <2>2. worker'[w] = Idle /\ \A v \in Workers \ {w} : worker'[v] = worker[v]
    BY <1>0, <2>1 DEF TokensTyped
  <2>3. QED
    BY <1>0, <2>1, <2>2, LiveKept DEF Issued, Idle
<1>12. ASSUME NEW w \in Workers,
              Begin(w) \/ StartJob(w) \/ Fetch(w) \/ Use(w) \/ Mark(w) \/ Reschedule(w) \/ Crash(w)
       PROVE  TokensLive'
  <2>1. UNCHANGED <<good, connect, lost>>
    BY <1>12 DEF Begin, StartJob, Fetch, FetchRow, Use, Mark, Reschedule, Crash, issued
  <2>2. \A r \in Rows : row'[r].refresh = row[r].refresh /\ row'[r].access = row[r].access
    <3>1. CASE Mark(w)
      BY <1>0, <3>1 DEF Mark, TokensTyped, RowTokens
    <3>2. CASE ~ Mark(w)
      BY <1>12, <3>2 DEF Begin, StartJob, Fetch, FetchRow, Use, Reschedule, Crash
    <3>3. QED
      BY <3>1, <3>2
  <2>3. worker[w].pc # "store"
    BY <1>12 DEF Begin, StartJob, Fetch, FetchRow, Use, Mark, Reschedule, Crash
  <2>4. worker'[w].pc # "store" /\ \A v \in Workers \ {w} : worker'[v] = worker[v]
    BY <1>0, <1>12, NoStore
  <2>5. QED
    BY <1>0, <2>1, <2>2, <2>3, <2>4, LiveKept DEF Issued
<1>13. CASE UNCHANGED vars
  BY <1>1, <1>13 DEF vars, issued, Issued
<1>14. QED
  BY <1>2, <1>3, <1>4, <1>5, <1>6, <1>7, <1>8, <1>9, <1>10, <1>11, <1>12, <1>13 DEF Next, WorkerStep

\* "Two workers refreshing the same channel concurrently would leave one holding a dead token
\* and could get the grant revoked" (channel-tokens.ts:20): under the row's lock none does.
\* The token stored is the platform's current one, unless access was revoked or the answer
\* with the next was lost, wherever each login of a platform that rotates is one channel.
THEOREM CurrentTokenHeld ==
  ASSUME CredentialsParameters
  PROVE  Spec /\ []OneChannelEach => []HoldsCurrentToken
<1>1. Init => CurrentInv
  BY DEF Init, CurrentInv, TokensApart, RowsApart, ConnectApart, IssuedApart, TokensLive, RowsLive,
         StoresLive, ConnectLives, Lives, Issued, Absent, NoConnect, Idle, Rows
<1>2. CredInv /\ CurrentInv /\ OneChannelEach' /\ [Next]_vars => CurrentInv'
  BY ApartStep, LiveStep DEF CurrentInv
<1>3. CredInv /\ CurrentInv => HoldsCurrentToken
  <2>1. SUFFICES ASSUME CredInv, CurrentInv, NEW r \in Channels \ lost, Unlocked(r),
                        row[r].refresh # 0, row[r].access \in good
                 PROVE  row[r].refresh \in good
    BY DEF HoldsCurrentToken
  <2>2. \A w \in Workers : Issued(w) => worker[w].row # r
    BY <2>1 DEF CredInv, LocksHeld, Unlocked, Issued, CredentialsParameters
  <2>3. QED
    BY <2>1, <2>2 DEF CurrentInv, TokensLive, RowsLive, Lives
<1>4. QED
  BY <1>1, <1>2, <1>3, CredInductive, PTL DEF Spec
=============================================================================
