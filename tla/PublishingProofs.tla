-------------------------- MODULE PublishingProofs --------------------------
(***************************************************************************)
(* Proofs about Publishing, for every set of rows, channels, workers and   *)
(* requests and every bound: its types, the versions and the ownership of  *)
(* attempts, the roll-up, and last the accounting: each step that shows a  *)
(* post, or makes one more possible, takes it from what might still        *)
(* appear, from a confirmation or from a slip.                             *)
(***************************************************************************)
EXTENDS Publishing, FiniteSetTheorems, TLAPS

-----------------------------------------------------------------------------
(* What the helpers of the actions do to the types.                        *)

LEMMA ConstantTypes ==
  /\ NoTask \in JobIds
  /\ NoLocal \in Locals
  /\ NoRequest \in Requests
  /\ \A t \in Targets, n \in Nat : PublishId(t, n) \in JobIds /\ CheckId(t, n) \in JobIds
  /\ \A id \in JobIds : NewJob(id) \in Jobs
<1>1. NoTask \in JobIds
  BY TargetsAssumption DEF NoTask, PublishId, JobIds
<1>2. NoLocal \in Locals
  BY DEF NoLocal, Locals, Outcomes
<1>3. NoRequest \in Requests
  BY DEF NoRequest, Requests
<1>4. \A t \in Targets, n \in Nat : PublishId(t, n) \in JobIds /\ CheckId(t, n) \in JobIds
  BY DEF PublishId, CheckId, JobIds
<1>5. \A id \in JobIds : NewJob(id) \in Jobs
  BY DEF NewJob, Jobs
<1> QED
  BY <1>1, <1>2, <1>3, <1>4, <1>5

\* The roll-up stays in the posts.status enum.
LEMMA RollUpType ==
  ASSUME NEW S, NEW current \in PostStatuses
  PROVE  DerivePostStatus(S, current) \in PostStatuses
BY DEF DerivePostStatus, PostStatuses

LEMMA JobsTypes ==
  ASSUME TypeOK, NEW w \in Workers
  PROVE  JobDone(w) \subseteq Jobs /\ JobThrew(w) \subseteq Jobs
<1>1. \A j \in Jobs : Finished(j) \in Jobs
  BY DEF Finished, Jobs
<1>2. ASSUME NEW j \in Jobs
      PROVE  Again(j) \in Jobs
  BY DEF Again, Jobs
<1>3. JobDone(w) \subseteq Jobs
  BY <1>1 DEF JobDone, TypeOK
<1>4. JobThrew(w) \subseteq Jobs
  BY <1>1, <1>2 DEF JobThrew, TypeOK
<1> QED
  BY <1>3, <1>4

LEMMA AddedType ==
  ASSUME NEW q, q \subseteq Jobs, NEW id \in JobIds
  PROVE  AddedTo(q, id) \subseteq Jobs
BY ConstantTypes DEF AddedTo

\* A worker that moves to another step of its processor keeps its types.
LEMMA GotoType ==
  ASSUME TypeOK, NEW w \in Workers, NEW p \in WorkerPc, Goto(w, p), local' \in [Workers -> Locals]
  PROVE  WorkerType'
BY DEF TypeOK, WorkerType, Goto

LEMMA WriteType ==
  ASSUME TypeOK, NEW w \in Workers, NEW o \in Outcomes, Write(w, o)
  PROVE  WorkerType'
<1>1. [NoLocal EXCEPT !.out = o] \in Locals
  BY ConstantTypes DEF Locals
<1>2. local' \in [Workers -> Locals]
  BY <1>1 DEF Write, TypeOK, WorkerType
<1> QED
  BY <1>2, GotoType DEF Write, WorkerPc

LEMMA EnqueueType ==
  ASSUME TypeOK, NEW w \in Workers, NEW p \in WorkerPc, NEW n \in Nat, Enqueue(w, p, n)
  PROVE  WorkerType'
<1>1. [NoLocal EXCEPT !.next = n] \in Locals
  BY ConstantTypes DEF Locals
<1>2. local' \in [Workers -> Locals]
  BY <1>1 DEF Enqueue, TypeOK, WorkerType
<1> QED
  BY <1>2, GotoType DEF Enqueue

LEMMA FinishType ==
  ASSUME TypeOK, NEW w \in Workers, NEW q, Finish(w, q)
  PROVE  WorkerType' /\ queue' = q
BY ConstantTypes DEF Finish, TypeOK, WorkerType, WorkerPc

LEMMA FreshType ==
  ASSUME TypeOK, NEW w \in Workers
  PROVE  [local EXCEPT ![w].fresh = TRUE] \in [Workers -> Locals]
<1>1. local[w] \in Locals
  BY DEF TypeOK, WorkerType
<1>2. [local[w] EXCEPT !.fresh = TRUE] \in Locals
  BY <1>1 DEF Locals
<1> QED
  BY <1>2 DEF TypeOK, WorkerType

LEMMA DecideRange ==
  ASSUME NEW kind \in ErrorKinds, NEW a \in Nat, NEW sent \in BOOLEAN, NEW r \in BOOLEAN
  PROVE  Decide(kind, a, sent, r) \in Decisions
BY DEF Decide, Decisions, ErrorKinds, ProviderErrors, RetryOrFail

LEMMA ApplyType ==
  ASSUME TypeOK, NEW w \in Workers, NEW d \in Decisions, Apply(w, d)
  PROVE  WorkerType'
<1>1. CASE d = "retry"
  <2>1. Write(w, "retry")
    BY <1>1 DEF Apply
  <2> QED
    BY <2>1, WriteType DEF Outcomes
<1>2. CASE d = "fail"
  <2>1. Write(w, "failed")
    BY <1>2 DEF Apply
  <2> QED
    BY <2>1, WriteType DEF Outcomes
<1>3. CASE d = "revoked"
  <2>1. Goto(w, "revoked") /\ UNCHANGED local
    BY <1>3 DEF Apply
  <2> QED
    BY <2>1, GotoType DEF WorkerPc, TypeOK, WorkerType
<1>4. CASE d = "unconfirmed"
  <2>1. Write(w, "unconfirmed")
    BY <1>4 DEF Apply
  <2> QED
    BY <2>1, WriteType DEF Outcomes
<1>5. CASE d = "refresh_token"
  <2>1. \/ Goto(w, "token") /\ local' = [local EXCEPT ![w].fresh = TRUE]
        \/ Write(w, "unconfirmed")
    BY <1>5 DEF Apply
  <2> QED
    BY <2>1, GotoType, FreshType, WriteType DEF WorkerPc, Outcomes
<1> QED
  BY <1>1, <1>2, <1>3, <1>4, <1>5 DEF Decisions

LEMMA CatchType ==
  ASSUME TypeOK, NEW w \in Workers, NEW kind \in ErrorKinds, Catch(w, kind)
  PROVE  WorkerType'
<1>1. task[w].num \in Nat /\ local[w].attempt \in Nat /\ local[w].fresh \in BOOLEAN
  BY DEF TypeOK, WorkerType, JobIds, Locals
<1>2. CASE Publishes(w)
  <2>1. Apply(w, Decide(kind, local[w].attempt, pc[w] \notin {"token", "reauth"}, local[w].fresh))
    BY <1>2 DEF Catch
  <2> QED
    BY <1>1, <2>1, DecideRange, ApplyType
<1>3. CASE ~ Publishes(w) /\ kind \in {"transient", "rate_limited"}
  <2>1. Enqueue(w, "repoll", task[w].num + 1)
    BY <1>3 DEF Catch
  <2> QED
    BY <1>1, <2>1, EnqueueType DEF WorkerPc
<1>4. CASE ~ Publishes(w) /\ kind \notin {"transient", "rate_limited"}
  <2>1. Apply(w, Decide(kind, MaxAttempts, TRUE, TRUE))
    BY <1>4 DEF Catch
  <2> QED
    BY <2>1, DecideRange, ApplyType, MaxAttemptsAssumption
<1> QED
  BY <1>2, <1>3, <1>4

-----------------------------------------------------------------------------
(* Type correctness.                                                       *)

LEMMA RollUpStep ==
  ASSUME TypeOK, RollUp(status')
  PROVE  postStatus' \in PostStatuses
BY RollUpType DEF RollUp, TypeOK

LEMMA WorkerStepType ==
  ASSUME TypeOK, NEW w \in Workers, WorkerStep(w)
  PROVE  TypeOK'
<1> USE DEF postVars, rowVars, maintVars, bounds, history
<1> DEFINE t == Target(w)
<1>t. t \in Targets /\ task[w].num \in Nat /\ ChannelRow(w) \in Channels
  BY TargetsAssumption DEF TypeOK, WorkerType, JobIds, Target, ChannelRow
<1>1. CASE StartJob(w)
  <2>1. PICK j \in queue : /\ queue' = Without(j.id) \cup {[j EXCEPT !.st = "active"]}
                           /\ task' = [task EXCEPT ![w] = j.id]
    BY <1>1 DEF StartJob
  <2>2. j.id \in JobIds /\ [j EXCEPT !.st = "active"] \in Jobs
    BY DEF TypeOK, Jobs
  <2>3. queue' \subseteq Jobs
    BY <2>1, <2>2 DEF TypeOK, Without
  <2>4. WorkerType'
    BY <1>1, <2>1, <2>2 DEF StartJob, TypeOK, WorkerType, WorkerPc
  <2> QED
    BY <1>1, <2>3, <2>4 DEF StartJob, TypeOK, RowType, HistoryType
<1>2. CASE Claim(w)
  <2>1. attempts[t] \in Nat /\ local[w] \in Locals
    BY <1>t DEF TypeOK, RowType, WorkerType
  <2>2. [local[w] EXCEPT !.attempt = attempts[t] + 1] \in Locals
    BY <2>1 DEF Locals
  <2>3. local' \in [Workers -> Locals]
    BY <1>2, <2>2 DEF Claim, TypeOK, WorkerType
  <2>4. WorkerType'
    BY <1>2, <2>3, GotoType DEF Claim, WorkerPc
  <2>5. RowType'
    BY <1>2, <1>t, <2>1 DEF Claim, TypeOK, RowType, RowStatus, TargetStatus
  <2> QED
    BY <1>2, <2>4, <2>5, RollUpStep DEF Claim, TypeOK, HistoryType
<1>3. CASE SkipStale(w)
  BY <1>3, FinishType, JobsTypes DEF SkipStale, Return, TypeOK, RowType, HistoryType
<1>4. CASE LoadContext(w)
  <2>1. WorkerType'
    BY <1>4, WriteType, GotoType DEF LoadContext, Outcomes, WorkerPc, TypeOK, WorkerType
  <2> QED
    BY <1>4, <2>1 DEF LoadContext, TypeOK, RowType, HistoryType
<1>5. CASE ReadProcessing(w)
  <2>1. WorkerType' /\ queue' \subseteq Jobs
    BY <1>5, FinishType, JobsTypes, GotoType, WriteType
       DEF ReadProcessing, Return, WorkerPc, Outcomes, TypeOK, WorkerType
  <2> QED
    BY <1>5, <2>1 DEF ReadProcessing, TypeOK, RowType, HistoryType
<1>6. CASE GetToken(w)
  <2>1. WorkerType'
    BY <1>6, CatchType, GotoType
       DEF GetToken, WorkerPc, TypeOK, WorkerType, ErrorKinds, ProviderErrors
  <2> QED
    BY <1>6, <2>1 DEF GetToken, TypeOK, RowType, HistoryType
<1>7. CASE MarkNeedsReauth(w)
  <2>1. WorkerType'
    BY <1>7, WriteType DEF MarkNeedsReauth, Outcomes
  <2>2. channel' \in [Channels -> ChannelStatus]
    BY <1>7 DEF MarkNeedsReauth, TypeOK, ChannelStatus
  <2> QED
    BY <1>7, <2>1, <2>2 DEF MarkNeedsReauth, TypeOK, RowType, HistoryType
<1>8. CASE Send(w)
  <2>1. WorkerType'
    BY <1>8, CatchType, WriteType
       DEF Send, Outcomes, Refusals, Unknowns, ErrorKinds, ProviderErrors
  <2>2. live' \in [Channels -> Nat]
    BY <1>8 DEF Send, Show, TypeOK, HistoryType
  <2> QED
    BY <1>8, <2>1, <2>2 DEF Send, TypeOK, RowType, HistoryType
<1>9. CASE SendCheck(w)
  <2>1. WorkerType'
    BY <1>9, CatchType, WriteType
       DEF SendCheck, Outcomes, Refusals, Unknowns, ErrorKinds, ProviderErrors
  <2>2. live' \in [Channels -> Nat]
    BY <1>9 DEF SendCheck, Show, TypeOK, HistoryType
  <2>3. asked' \in [Targets -> BOOLEAN]
    BY <1>9 DEF SendCheck, TypeOK, HistoryType
  <2>4. slips' \in [Channels -> Nat]
    BY <1>9 DEF SendCheck, SlipAt, TypeOK, HistoryType
  <2> QED
    BY <1>9, <2>1, <2>2, <2>3, <2>4 DEF SendCheck, TypeOK, RowType, HistoryType
<1>10. CASE WriteFinal(w)
  <2>1. WorkerType' /\ queue' \subseteq Jobs
    BY <1>10, FinishType, JobsTypes DEF WriteFinal, Return
  <2>2. RowType'
    BY <1>10 DEF WriteFinal, TypeOK, RowType, RowStatus, TargetStatus
  <2>3. asked' \in [Targets -> BOOLEAN] /\ slips' \in [Channels -> Nat]
    <3>1. slips' = slips \/ slips' = [slips EXCEPT ![ChannelRow(w)] = @ + 1]
      BY <1>10 DEF WriteFinal, SlipAt
    <3>2. slips' \in [Channels -> Nat]
      BY <3>1, <1>t DEF TypeOK, HistoryType
    <3> QED
      BY <1>10, <3>2 DEF WriteFinal, TypeOK, HistoryType
  <2>4. postStatus' \in PostStatuses
    BY <1>10, RollUpStep DEF WriteFinal
  <2> QED
    BY <1>10, <2>1, <2>2, <2>3, <2>4 DEF WriteFinal, TypeOK, HistoryType
<1>11. CASE WriteProcessing(w)
  <2>1. WorkerType'
    BY <1>11, EnqueueType DEF WriteProcessing, WorkerPc
  <2>2. RowType'
    BY <1>11 DEF WriteProcessing, TypeOK, RowType, RowStatus, TargetStatus
  <2>3. postStatus' \in PostStatuses
    BY <1>11, RollUpStep DEF WriteProcessing
  <2> QED
    BY <1>11, <2>1, <2>2, <2>3 DEF WriteProcessing, TypeOK, HistoryType
<1>12. CASE WritePending(w)
  <2>1. WorkerType'
    BY <1>12, <1>t, EnqueueType DEF WritePending, WorkerPc
  <2>2. RowType'
    BY <1>12 DEF WritePending, TypeOK, RowType
  <2> QED
    BY <1>12, <2>1, <2>2 DEF WritePending, TypeOK, HistoryType
<1>13. CASE WriteRetry(w)
  <2>1. version[t] \in Nat
    BY <1>t DEF TypeOK, RowType
  <2>2. WorkerType'
    BY <1>13, <2>1, EnqueueType DEF WriteRetry, WorkerPc
  <2>3. RowType'
    <3>0. version' = [version EXCEPT ![t] = version[t] + 1] /\ version \in [Targets -> Nat]
      BY <1>13 DEF WriteRetry, TypeOK, RowType
    <3>1. version' \in [Targets -> Nat]
      BY <1>t, <3>0, <2>1
    <3>2. status' \in [Targets -> RowStatus]
      BY <1>13 DEF WriteRetry, TypeOK, RowType, RowStatus, TargetStatus
    <3> QED
      BY <1>13, <3>1, <3>2 DEF WriteRetry, TypeOK, RowType
  <2>4. postStatus' \in PostStatuses
    BY <1>13, RollUpStep DEF WriteRetry
  <2> QED
    BY <1>13, <2>2, <2>3, <2>4 DEF WriteRetry, TypeOK, HistoryType
<1>14. CASE WriteLost(w)
  BY <1>14, FinishType, JobsTypes DEF WriteLost, Throw, TypeOK, RowType, HistoryType
<1>15. CASE EnqueueRetry(w)
  <2>1. PublishId(t, local[w].next) \in JobIds
    BY <1>t, ConstantTypes DEF TypeOK, WorkerType, Locals
  <2>2. WorkerType' /\ queue' \subseteq Jobs
    BY <1>15, <2>1, FinishType, JobsTypes, AddedType DEF EnqueueRetry
  <2> QED
    BY <1>15, <2>2 DEF EnqueueRetry, TypeOK, RowType, HistoryType
<1>16. CASE PollAgain(w)
  <2>1. CheckId(t, local[w].next) \in JobIds
    BY <1>t, ConstantTypes DEF TypeOK, WorkerType, Locals
  <2>2. WorkerType' /\ queue' \subseteq Jobs
    <3>1. CASE local[w].next >= MaxChecks
      BY <1>16, <3>1, WriteType DEF PollAgain, Outcomes, TypeOK
    <3>2. CASE ~ (local[w].next >= MaxChecks)
      BY <1>16, <3>2, <2>1, FinishType, JobsTypes, AddedType DEF PollAgain
    <3> QED
      BY <3>1, <3>2
  <2> QED
    BY <1>16, <2>2 DEF PollAgain, TypeOK, RowType, HistoryType
<1> QED
  BY <1>1, <1>2, <1>3, <1>4, <1>5, <1>6, <1>7, <1>8, <1>9, <1>10, <1>11, <1>12, <1>13,
     <1>14, <1>15, <1>16 DEF WorkerStep

LEMMA WorkerFaultType ==
  ASSUME TypeOK, NEW w \in Workers, WorkerFault(w)
  PROVE  TypeOK'
<1> USE DEF postVars, rowVars, maintVars, bounds, history
<1>f. ASSUME Fault PROVE ops' \in Nat /\ faults' \in Nat
  BY <1>f DEF Fault, TypeOK
<1>1. CASE CallFails(w)
  <2>1. WorkerType' /\ queue' \subseteq Jobs
    BY <1>1, FinishType, JobsTypes DEF CallFails, Throw
  <2> QED
    BY <1>1, <1>f, <2>1 DEF CallFails, TypeOK, RowType, HistoryType
<1>2. CASE TryFails(w)
  <2>1. WorkerType'
    BY <1>2, CatchType DEF TryFails, ErrorKinds
  <2> QED
    BY <1>2, <1>f, <2>1 DEF TryFails, TypeOK, RowType, HistoryType
<1>3. CASE Crash(w)
  <2>1. WorkerType' /\ queue' = queue
    BY <1>3, FinishType DEF Crash
  <2> QED
    BY <1>3, <1>f, <2>1 DEF Crash, TypeOK, RowType, HistoryType
<1>4. CASE LoseLock(w)
  <2>1. WorkerType'
    BY <1>4 DEF LoseLock, TypeOK, WorkerType
  <2> QED
    BY <1>4, <1>f, <2>1 DEF LoseLock, TypeOK, RowType, HistoryType
<1> QED
  BY <1>1, <1>2, <1>3, <1>4 DEF WorkerFault

\* A request that goes on, starts or ends keeps its type.
LEMMA ThenType ==
  ASSUME TypeOK, NEW c \in Calls, NEW p \in {"enqueue", "cancel"}, NEW js, js \subseteq JobIds,
         Then(c, p, js)
  PROVE  api' \in [Calls -> Requests]
<1>1. api[c] \in Requests
  BY DEF TypeOK
<1>2. api[c].again \in BOOLEAN
  BY <1>1 DEF Requests
<1>3. [NoRequest EXCEPT !.pc = p, !.jobs = js, !.again = api[c].again] \in Requests
  BY <1>2 DEF NoRequest, Requests
<1> QED
  BY <1>3, ConstantTypes DEF Then, TypeOK

LEMMA StartsType ==
  ASSUME TypeOK, NEW c \in Calls, NEW r \in Requests, api' = [api EXCEPT ![c] = r]
  PROVE  api' \in [Calls -> Requests]
BY DEF TypeOK

LEMMA ScheduleRequest == [NoRequest EXCEPT !.pc = "schedule"] \in Requests
BY DEF NoRequest, Requests

\* The ids of the publish jobs of a set of rows.
LEMMA PublishIdsType ==
  ASSUME TypeOK, NEW ts, ts \subseteq Targets
  PROVE  /\ PublishIds(ts) \subseteq JobIds
         /\ {PublishId(t, version[t] + 1) : t \in ts} \subseteq JobIds
<1>1. \A t \in ts : version[t] \in Nat /\ version[t] + 1 \in Nat
  BY DEF TypeOK, RowType
<1>2. \A t \in ts : PublishId(t, version[t]) \in JobIds /\ PublishId(t, version[t] + 1) \in JobIds
  BY <1>1, ConstantTypes
<1> QED
  BY <1>2 DEF PublishIds

\* A set of rows whose status becomes st, with or without a new version.
LEMMA RowsType ==
  ASSUME TypeOK, NEW rows, NEW st \in TargetStatus,
         status' = [t \in Targets |-> IF t \in rows THEN st ELSE status[t]]
  PROVE  status' \in [Targets -> RowStatus]
BY DEF TypeOK, RowType, RowStatus

LEMMA BumpType ==
  ASSUME TypeOK, NEW rows,
         version' = [t \in Targets |-> IF t \in rows THEN version[t] + 1 ELSE version[t]]
  PROVE  version' \in [Targets -> Nat]
<1>1. \A t \in Targets : version[t] \in Nat /\ version[t] + 1 \in Nat
  BY DEF TypeOK, RowType
<1> QED
  BY <1>1

LEMMA SlipsType ==
  ASSUME TypeOK, NEW ts, Slip(ts)
  PROVE  slips' \in [Channels -> Nat]
<1>1. \A ch \in Channels : slips[ch] \in Nat /\ slips[ch] + 1 \in Nat
  BY DEF TypeOK, HistoryType
<1> QED
  BY <1>1 DEF Slip

LEMMA ApiStepType ==
  ASSUME TypeOK, NEW c \in Calls, ApiStep(c)
  PROVE  TypeOK'
<1> USE DEF postVars, rowVars, workerVars, maintVars, bounds, history
<1>r. Rows \subseteq Targets
  BY DEF Rows
<1>q. api[c] \in Requests /\ api[c].jobs \subseteq JobIds
  BY DEF TypeOK, Requests
<1>1. CASE ScheduleTx(c)
  <2> DEFINE rows == {t \in Rows : status[t] \in SCHEDULABLE}
             js   == {PublishId(t, version[t] + 1) : t \in rows}
             next == IF rows = {} THEN "idle" ELSE "enqueue"
  <2>1. js \subseteq JobIds
    BY <1>r, PublishIdsType
  <2>2. [NoRequest EXCEPT !.pc = next, !.jobs = js] \in Requests
    BY <2>1 DEF NoRequest, Requests
  <2>3. api' \in [Calls -> Requests]
    BY <1>1, <2>2, StartsType DEF ScheduleTx
  <2>4. status' \in [Targets -> RowStatus]
    BY <1>1, RowsType DEF ScheduleTx, TargetStatus
  <2>5. version' \in [Targets -> Nat]
    BY <1>1, BumpType DEF ScheduleTx
  <2>6. attempts' \in [Targets -> Nat] /\ pending' \in [Targets -> BOOLEAN]
    BY <1>1 DEF ScheduleTx, TypeOK, RowType
  <2>7. postStatus' \in PostStatuses
    BY <1>1, RollUpStep DEF ScheduleTx
  <2> QED
    BY <1>1, <2>3, <2>4, <2>5, <2>6, <2>7 DEF ScheduleTx, TypeOK, RowType, WorkerType, HistoryType
<1>2. CASE EditTx(c)
  <2>1. status' \in [Targets -> RowStatus]
    BY <1>2 DEF EditTx, InsertTargets, TypeOK, RowType, RowStatus, TargetStatus
  <2>2. postStatus' \in PostStatuses
    BY <1>2, RollUpStep DEF EditTx
  <2>3. api' \in [Calls -> Requests]
    BY <1>2, <1>q, ThenType DEF EditTx
  <2>4. slips' \in [Channels -> Nat]
    BY <1>2, SlipsType DEF EditTx
  <2> QED
    BY <1>2, <2>1, <2>2, <2>3, <2>4 DEF EditTx, TypeOK, RowType, WorkerType, HistoryType
<1>3. CASE RetryTx(c)
  <2>1. PICK t \in {j.target : j \in api[c].jobs} :
          \/ /\ t \in Rows
             /\ status' = [status EXCEPT ![t] = "scheduled"]
             /\ version' = [version EXCEPT ![t] = @ + 1]
             /\ pending' = [pending EXCEPT ![t] = FALSE]
             /\ RollUp(status')
             /\ Then(c, "enqueue", {PublishId(t, version[t] + 1)})
             /\ \/ /\ confirmed' = [confirmed EXCEPT ![ChannelOf[t]] = @ + 1]
                   /\ UNCHANGED slips
                \/ /\ Slip({t} \cap {u \in Rows : status[u] \in MayBeSent})
                   /\ UNCHANGED confirmed
          \/ /\ Ends(c)
             /\ UNCHANGED <<postStatus, status, version, pending, confirmed, slips>>
    BY <1>3 DEF RetryTx
  <2>2. t \in Targets
    BY <1>q DEF JobIds
  <2>3. version[t] + 1 \in Nat /\ PublishId(t, version[t] + 1) \in JobIds
    BY <2>2, ConstantTypes DEF TypeOK, RowType
  <2>4. status' \in [Targets -> RowStatus] /\ pending' \in [Targets -> BOOLEAN]
    BY <2>1, <2>2 DEF TypeOK, RowType, RowStatus, TargetStatus
  <2>5. version' \in [Targets -> Nat]
    BY <2>1, <2>2, <2>3 DEF TypeOK, RowType
  <2>6. postStatus' \in PostStatuses
    BY <2>1, RollUpStep DEF TypeOK
  <2>7. api' \in [Calls -> Requests]
    <3>1. CASE Then(c, "enqueue", {PublishId(t, version[t] + 1)})
      BY <3>1, <2>3, ThenType
    <3>2. CASE Ends(c)
      BY <3>2, StartsType, ConstantTypes DEF Ends
    <3> QED
      BY <2>1, <3>1, <3>2
  <2>8. ChannelOf[t] \in Channels
    BY <2>2, TargetsAssumption
  <2>9. confirmed' \in [Channels -> Nat]
    BY <2>1, <2>8 DEF TypeOK, HistoryType
  <2>10. slips' \in [Channels -> Nat]
    BY <2>1, SlipsType DEF TypeOK, HistoryType
  <2> QED
    BY <1>3, <2>4, <2>5, <2>6, <2>7, <2>9, <2>10
       DEF RetryTx, TypeOK, RowType, WorkerType, HistoryType
<1>4. CASE CancelJob(c)
  <2>1. api' \in [Calls -> Requests]
    <3>1. CASE \E id \in api[c].jobs : Then(c, "cancel", api[c].jobs \ {id})
      BY <3>1, <1>q, ThenType
    <3>2. CASE Ends(c) \/ api' = [api EXCEPT ![c] = [NoRequest EXCEPT !.pc = "schedule"]]
      BY <3>2, StartsType, ScheduleRequest, ConstantTypes DEF Ends
    <3> QED
      BY <1>4, <3>1, <3>2 DEF CancelJob
  <2>2. queue' \subseteq Jobs
    BY <1>4 DEF CancelJob, TypeOK
  <2> QED
    BY <1>4, <2>1, <2>2 DEF CancelJob, TypeOK, RowType, WorkerType, HistoryType
<1>5. CASE EnqueueJob(c)
  <2>1. PICK id \in api[c].jobs : Add(id) /\ Then(c, "enqueue", api[c].jobs \ {id})
    BY <1>5 DEF EnqueueJob
  <2>2. api' \in [Calls -> Requests]
    BY <2>1, <1>q, ThenType
  <2>3. NewJob(id) \in Jobs
    BY <1>q, ConstantTypes
  <2>4. queue' \subseteq Jobs
    BY <2>1, <2>3 DEF Add, TypeOK
  <2> QED
    BY <1>5, <2>2, <2>4 DEF EnqueueJob, TypeOK, RowType, WorkerType, HistoryType
<1> QED
  BY <1>1, <1>2, <1>3, <1>4, <1>5 DEF ApiStep

LEMMA ApiFaultType ==
  ASSUME TypeOK, NEW c \in Calls, ApiFault(c)
  PROVE  TypeOK'
<1> USE DEF postVars, rowVars, workerVars, maintVars, bounds, history
<1>q. api[c].jobs \subseteq JobIds
  BY DEF TypeOK, Requests
<1>1. CASE QueueCallFails(c)
  <2>1. api' \in [Calls -> Requests]
    BY <1>1, <1>q, ThenType DEF QueueCallFails
  <2> QED
    BY <1>1, <2>1 DEF QueueCallFails, TypeOK, RowType, WorkerType, HistoryType
<1>2. CASE ApiCrash(c)
  <2>1. api' \in [Calls -> Requests]
    BY <1>2, StartsType, ConstantTypes DEF ApiCrash, Ends
  <2> QED
    BY <1>2, <2>1 DEF ApiCrash, TypeOK, RowType, WorkerType, HistoryType
<1> QED
  BY <1>1, <1>2 DEF ApiFault

\* The requests that only read, or that run their one transaction when they start.
LEMMA UserStepType ==
  ASSUME TypeOK, UserStep
  PROVE  TypeOK'
<1> USE DEF postVars, rowVars, workerVars, maintVars, bounds, history
<1>r. Rows \subseteq Targets
  BY DEF Rows
<1>b. ASSUME NEW c, NEW op, Begin(c, op) PROVE ops' \in Nat /\ faults' \in Nat
  BY <1>b DEF Begin, TypeOK
<1>1. ASSUME NEW c \in Calls, Create(c) PROVE TypeOK'
  <2>1. status' \in [Targets -> RowStatus]
    BY <1>1 DEF Create, InsertTargets, TypeOK, RowType, RowStatus, TargetStatus
  <2>2. api' \in [Calls -> Requests]
    <3>1. [api[c] EXCEPT !.pc = "schedule"] \in Requests
      BY DEF TypeOK, Requests
    <3> QED
      BY <1>1, <3>1 DEF Create, TypeOK
  <2>3. ops' \in Nat /\ faults' \in Nat
    BY <1>1, <1>b DEF Create
  <2> QED
    BY <1>1, <2>1, <2>2, <2>3 DEF Create, TypeOK, RowType, WorkerType, HistoryType
<1>2. ASSUME NEW c \in Calls, ScheduleRead(c) PROVE TypeOK'
  <2>1. api' \in [Calls -> Requests]
    <3>1. [api[c] EXCEPT !.pc = "schedule"] \in Requests
      BY DEF TypeOK, Requests
    <3> QED
      BY <1>2, <3>1 DEF ScheduleRead, TypeOK
  <2>2. ops' \in Nat /\ faults' \in Nat
    BY <1>2, <1>b DEF ScheduleRead
  <2> QED
    BY <1>2, <2>1, <2>2 DEF ScheduleRead, TypeOK, RowType, WorkerType, HistoryType
<1>3. ASSUME NEW c \in Calls, EditRead(c) PROVE TypeOK'
  <2>1. PICK cs \in SUBSET Channels, again \in BOOLEAN :
          api' = [api EXCEPT ![c] = [pc |-> "edit", jobs |-> PublishIds(Rows), chans |-> cs,
                                     again |-> again, sure |-> FALSE]]
    <3>1. \A cs : {FALSE, postStatus = "scheduled" /\ Valid(cs)} \subseteq BOOLEAN
      OBVIOUS
    <3>2. PICK cs \in SUBSET Channels : \E again \in {FALSE, postStatus = "scheduled" /\ Valid(cs)} :
            api' = [api EXCEPT ![c] = [pc |-> "edit", jobs |-> PublishIds(Rows), chans |-> cs,
                                       again |-> again, sure |-> FALSE]]
      BY <1>3 DEF EditRead
    <3> QED
      BY <3>1, <3>2
  <2>2. PublishIds(Rows) \subseteq JobIds
    BY <1>r, PublishIdsType
  <2>3. [pc |-> "edit", jobs |-> PublishIds(Rows), chans |-> cs, again |-> again, sure |-> FALSE] \in Requests
    BY <2>2 DEF Requests
  <2>4. api' \in [Calls -> Requests]
    BY <2>1, <2>3, StartsType
  <2>5. ops' \in Nat /\ faults' \in Nat
    BY <1>3, <1>b DEF EditRead
  <2> QED
    BY <1>3, <2>4, <2>5 DEF EditRead, TypeOK, RowType, WorkerType, HistoryType
<1>4. ASSUME NEW c \in Calls, Unschedule(c) PROVE TypeOK'
  <2>1. status' \in [Targets -> RowStatus]
    BY <1>4, RowsType DEF Unschedule, TargetStatus
  <2>2. version' \in [Targets -> Nat]
    BY <1>4, BumpType DEF Unschedule
  <2>3. postStatus' \in PostStatuses
    BY <1>4, RollUpStep DEF Unschedule
  <2>4. api' \in [Calls -> Requests]
    BY <1>4, <1>r, PublishIdsType, ThenType DEF Unschedule
  <2>5. ops' \in Nat /\ faults' \in Nat
    BY <1>4, <1>b DEF Unschedule
  <2> QED
    BY <1>4, <2>1, <2>2, <2>3, <2>4, <2>5 DEF Unschedule, TypeOK, RowType, WorkerType, HistoryType
<1>5. ASSUME NEW c \in Calls, RetryRead(c) PROVE TypeOK'
  <2>1. PICK t \in Rows : api' = [api EXCEPT ![c] = [NoRequest EXCEPT
                             !.pc = "retry", !.jobs = PublishIds({t}),
                             !.sure = status[t] = "unconfirmed"]]
    BY <1>5 DEF RetryRead
  <2>2. PublishIds({t}) \subseteq JobIds
    BY <1>r, PublishIdsType
  <2>3. [NoRequest EXCEPT !.pc = "retry", !.jobs = PublishIds({t}),
                          !.sure = status[t] = "unconfirmed"] \in Requests
    BY <2>2 DEF NoRequest, Requests
  <2>4. api' \in [Calls -> Requests]
    BY <2>1, <2>3, StartsType
  <2>5. ops' \in Nat /\ faults' \in Nat
    BY <1>5, <1>b DEF RetryRead
  <2> QED
    BY <1>5, <2>4, <2>5 DEF RetryRead, TypeOK, RowType, WorkerType, HistoryType
<1>6. ASSUME NEW c \in Calls, Remove(c) PROVE TypeOK'
  <2>1. status' \in [Targets -> RowStatus]
    BY <1>6, RowsType DEF Remove, TargetStatus
  <2>2. version' \in [Targets -> Nat]
    BY <1>6, BumpType DEF Remove
  <2>3. api' \in [Calls -> Requests]
    BY <1>6, <1>r, PublishIdsType, ThenType DEF Remove
  <2>4. ops' \in Nat /\ faults' \in Nat
    BY <1>6, <1>b DEF Remove
  <2> QED
    BY <1>6, <2>1, <2>2, <2>3, <2>4 DEF Remove, TypeOK, RowType, WorkerType, HistoryType
<1>7. ASSUME NEW ch \in Channels, Disconnect(ch) PROVE TypeOK'
  <2>1. status' \in [Targets -> RowStatus]
    BY <1>7, RowsType DEF Disconnect, TargetStatus
  <2>2. channel' \in [Channels -> ChannelStatus]
    BY <1>7 DEF Disconnect, TypeOK, ChannelStatus
  <2> QED
    BY <1>7, <2>1, <2>2 DEF Disconnect, TypeOK, RowType, WorkerType, HistoryType
<1>8. ASSUME NEW ch \in Channels, Reconnect(ch) PROVE TypeOK'
  <2>1. channel' \in [Channels -> ChannelStatus]
    BY <1>8 DEF Reconnect, TypeOK, ChannelStatus
  <2> QED
    BY <1>8, <2>1 DEF Reconnect, TypeOK, RowType, WorkerType, HistoryType
<1> QED
  BY <1>1, <1>2, <1>3, <1>4, <1>5, <1>6, <1>7, <1>8 DEF UserStep

LEMMA SystemStepType ==
  ASSUME TypeOK,
         RecoverStalled \/ Maintenance \/ RecoverEarly \/ MaintenanceCrash \/ Expire \/ RedisLoss
  PROVE  TypeOK'
<1> USE DEF postVars, rowVars, workerVars, maintVars, bounds, history
<1>r. Rows \subseteq Targets
  BY DEF Rows
<1>f. ASSUME Fault PROVE ops' \in Nat /\ faults' \in Nat
  BY <1>f DEF Fault, TypeOK
<1>1. CASE RecoverStalled
  <2>1. \A j \in Jobs : [j EXCEPT !.st = "waiting", !.stalls = 1] \in Jobs /\ Finished(j) \in Jobs
    BY DEF Jobs, Finished
  <2>2. queue' \subseteq Jobs
    BY <1>1, <2>1 DEF RecoverStalled, Without, TypeOK
  <2> QED
    BY <1>1, <2>2 DEF RecoverStalled, TypeOK, RowType, WorkerType, HistoryType
<1>2. CASE SweepRead
  <2>1. due' \subseteq JobIds
    BY <1>2, <1>r, PublishIdsType DEF SweepRead, PublishIds
  <2> QED
    BY <1>2, <2>1 DEF SweepRead, TypeOK, RowType, WorkerType, HistoryType
<1>3. CASE SweepEnsure
  <2>1. queue' \subseteq Jobs
    BY <1>3, ConstantTypes DEF SweepEnsure, Without, TypeOK
  <2> QED
    BY <1>3, <2>1 DEF SweepEnsure, TypeOK, RowType, WorkerType, HistoryType
<1>4. CASE RecoverRead
  BY <1>4, <1>r DEF RecoverRead, Stuck, TypeOK, RowType, WorkerType, HistoryType
<1>5. CASE RecoverEarly
  BY <1>5, <1>r, <1>f DEF RecoverEarly, Stuck, TypeOK, RowType, WorkerType, HistoryType
<1>6. CASE RecoverWrite
  <2>1. status' \in [Targets -> RowStatus]
    BY <1>6 DEF RecoverWrite, TypeOK, RowType, RowStatus, TargetStatus
  <2>2. postStatus' \in PostStatuses
    BY <1>6, RollUpStep DEF RecoverWrite, TypeOK
  <2>3. stuck' \subseteq Targets
    BY <1>6 DEF RecoverWrite, TypeOK
  <2> QED
    BY <1>6, <2>1, <2>2, <2>3 DEF RecoverWrite, TypeOK, RowType, WorkerType, HistoryType
<1>7. CASE MaintenanceCrash
  BY <1>7, <1>f DEF MaintenanceCrash, TypeOK, RowType, WorkerType, HistoryType
<1>8. CASE Expire
  BY <1>8, <1>f DEF Expire, TypeOK, RowType, WorkerType, HistoryType
<1>9. CASE RedisLoss
  BY <1>9, <1>f DEF RedisLoss, TypeOK, RowType, WorkerType, HistoryType
<1> QED
  BY <1>1, <1>2, <1>3, <1>4, <1>5, <1>6, <1>7, <1>8, <1>9 DEF Maintenance

LEMMA InitType == Init => TypeOK
<1> SUFFICES ASSUME Init PROVE TypeOK
  OBVIOUS
<1> QED
  BY ConstantTypes, BoundsAssumption
     DEF Init, TypeOK, RowType, WorkerType, HistoryType, PostStatuses, RowStatus, ChannelStatus,
         WorkerPc

LEMMA TypeStep == TypeOK /\ [Next]_vars => TypeOK'
<1> SUFFICES ASSUME TypeOK, [Next]_vars PROVE TypeOK'
  OBVIOUS
<1>1. CASE UNCHANGED vars
  BY <1>1 DEF vars, postVars, rowVars, workerVars, maintVars, bounds, history, TypeOK, RowType,
              WorkerType, HistoryType
<1>2. CASE UserStep
  BY <1>2, UserStepType
<1>3. ASSUME NEW c \in Calls, ApiStep(c) \/ ApiFault(c) PROVE TypeOK'
  BY <1>3, ApiStepType, ApiFaultType
<1>4. ASSUME NEW w \in Workers, WorkerStep(w) \/ WorkerFault(w) PROVE TypeOK'
  BY <1>4, WorkerStepType, WorkerFaultType
<1>5. CASE RecoverStalled \/ Maintenance \/ RecoverEarly \/ MaintenanceCrash \/ Expire \/ RedisLoss
  BY <1>5, SystemStepType
<1> QED
  BY <1>1, <1>2, <1>3, <1>4, <1>5 DEF Next

\* Every reachable state is well typed, whatever the numbers of rows, channels, workers,
\* requests and faults.
THEOREM TypeCorrect == Spec => []TypeOK
<1>1. Init => TypeOK
  BY InitType
<1>2. TypeOK /\ [Next]_vars => TypeOK'
  BY TypeStep
<1> QED
  BY <1>1, <1>2, PTL DEF Spec

-----------------------------------------------------------------------------
(* Schedule versions.                                                      *)

\* The ways in which the writers change versions and statuses.
LEMMA NoNewVersion ==
  ASSUME TypeOK, UNCHANGED version,
         \A t \in Targets : status'[t] \in Waiting => status[t] \in Waiting
  PROVE  VersionStep
BY DEF VersionStep, TypeOK, RowType

LEMMA BumpedVersions ==
  ASSUME TypeOK, NEW rows,
         version' = [t \in Targets |-> IF t \in rows THEN version[t] + 1 ELSE version[t]],
         \A t \in Targets \ rows : status'[t] = status[t]
  PROVE  VersionStep
<1>1. \A t \in Targets : version[t] \in Nat
  BY DEF TypeOK, RowType
<1> QED
  BY <1>1 DEF VersionStep

LEMMA BumpedVersion ==
  ASSUME TypeOK, NEW t \in Targets, NEW st,
         version' = [version EXCEPT ![t] = @ + 1], status' = [status EXCEPT ![t] = st]
  PROVE  VersionStep
<1>1. version \in [Targets -> Nat] /\ status \in [Targets -> RowStatus]
  BY DEF TypeOK, RowType
<1>2. version[t] \in Nat
  BY <1>1
<1>3. version' = [u \in Targets |-> IF u \in {t} THEN version[u] + 1 ELSE version[u]]
  BY <1>1
<1>4. \A u \in Targets \ {t} : status'[u] = status[u]
  BY <1>1
<1> QED
  BY <1>3, <1>4, BumpedVersions

\* A row set to a status that no claim accepts.
LEMMA SetNotWaiting ==
  ASSUME TypeOK, UNCHANGED version, NEW t, NEW st, st \notin Waiting,
         status' = [status EXCEPT ![t] = st]
  PROVE  VersionStep
<1>1. \A u \in Targets : status'[u] \in Waiting => status[u] \in Waiting
  BY DEF TypeOK, RowType
<1> QED
  BY <1>1, NoNewVersion

LEMMA WorkerVersions ==
  ASSUME TypeOK, NEW w \in Workers, WorkerStep(w) \/ WorkerFault(w)
  PROVE  VersionStep
<1> USE DEF rowVars
<1>t. Target(w) \in Targets
  BY DEF TypeOK, WorkerType, JobIds, Target
<1>1. CASE Claim(w)
  BY <1>1, SetNotWaiting DEF Claim, Waiting
<1>2. CASE WriteFinal(w)
  BY <1>2, SetNotWaiting DEF WriteFinal, Waiting
<1>3. CASE WriteProcessing(w)
  BY <1>3, SetNotWaiting DEF WriteProcessing, Waiting
<1>4. CASE WriteRetry(w)
  BY <1>4, <1>t, BumpedVersion DEF WriteRetry
<1>5. CASE UNCHANGED <<status, version>>
  BY <1>5, NoNewVersion
<1>6. \/ Claim(w) \/ WriteFinal(w) \/ WriteProcessing(w) \/ WriteRetry(w)
      \/ UNCHANGED <<status, version>>
  BY DEF WorkerStep, WorkerFault, StartJob, SkipStale, LoadContext, ReadProcessing, GetToken,
         MarkNeedsReauth, Send, SendCheck, WritePending, WriteLost, EnqueueRetry, PollAgain,
         CallFails, TryFails, Crash, LoseLock
<1> QED
  BY <1>1, <1>2, <1>3, <1>4, <1>5, <1>6

LEMMA RequestVersions ==
  ASSUME TypeOK, NEW c \in Calls, ApiStep(c) \/ ApiFault(c)
  PROVE  VersionStep
<1> USE DEF rowVars
<1>1. CASE ScheduleTx(c)
  <2> DEFINE rows == {t \in Rows : status[t] \in SCHEDULABLE}
  <2>1. /\ version' = [t \in Targets |-> IF t \in rows THEN version[t] + 1 ELSE version[t]]
        /\ status' = [t \in Targets |-> IF t \in rows THEN "scheduled" ELSE status[t]]
    BY <1>1 DEF ScheduleTx
  <2>2. \A t \in Targets \ rows : status'[t] = status[t]
    BY <2>1
  <2> HIDE DEF rows
  <2> QED
    BY <2>1, <2>2, BumpedVersions
<1>2. CASE EditTx(c)
  <2>1. \A t \in Targets : status'[t] \in Waiting => status[t] \in Waiting
    BY <1>2 DEF EditTx, InsertTargets, Waiting
  <2>2. UNCHANGED version
    BY <1>2 DEF EditTx
  <2> QED
    BY <2>1, <2>2, NoNewVersion
<1>3. CASE RetryTx(c)
  <2>1. PICK t \in {j.target : j \in api[c].jobs} :
          \/ /\ status' = [status EXCEPT ![t] = "scheduled"]
             /\ version' = [version EXCEPT ![t] = @ + 1]
          \/ UNCHANGED <<status, version>>
    BY <1>3 DEF RetryTx
  <2>2. t \in Targets
    BY DEF TypeOK, Requests, JobIds
  <2> QED
    BY <2>1, <2>2, BumpedVersion, NoNewVersion
<1>4. CASE UNCHANGED <<status, version>>
  BY <1>4, NoNewVersion
<1>5. ScheduleTx(c) \/ EditTx(c) \/ RetryTx(c) \/ UNCHANGED <<status, version>>
  BY DEF ApiStep, ApiFault, CancelJob, EnqueueJob, QueueCallFails, ApiCrash
<1> QED
  BY <1>1, <1>2, <1>3, <1>4, <1>5

LEMMA UserVersions ==
  ASSUME TypeOK, UserStep
  PROVE  VersionStep
<1> USE DEF rowVars
<1>1. ASSUME NEW c \in Calls, Create(c) PROVE VersionStep
  <2>1. \A t \in Targets : status'[t] \in Waiting => status[t] \in Waiting
    BY <1>1 DEF Create, InsertTargets, Waiting
  <2>2. UNCHANGED version
    BY <1>1 DEF Create
  <2> QED
    BY <2>1, <2>2, NoNewVersion
<1>2. ASSUME NEW c \in Calls, ScheduleRead(c) \/ EditRead(c) \/ RetryRead(c) PROVE VersionStep
  <2>1. UNCHANGED <<status, version>>
    BY <1>2 DEF ScheduleRead, EditRead, RetryRead
  <2> QED
    BY <2>1, NoNewVersion
<1>3. ASSUME NEW c \in Calls, Unschedule(c) PROVE VersionStep
  <2> DEFINE rows == {t \in Rows : status[t] \in Waiting}
  <2>1. /\ version' = [t \in Targets |-> IF t \in rows THEN version[t] + 1 ELSE version[t]]
        /\ status' = [t \in Targets |-> IF t \in rows THEN "draft" ELSE status[t]]
    BY <1>3 DEF Unschedule
  <2>2. \A t \in Targets \ rows : status'[t] = status[t]
    BY <2>1
  <2> HIDE DEF rows
  <2> QED
    BY <2>1, <2>2, BumpedVersions
<1>4. ASSUME NEW c \in Calls, Remove(c) PROVE VersionStep
  <2> DEFINE rows == {t \in Rows : status[t] \in {"draft"} \cup Waiting}
  <2>1. /\ version' = [t \in Targets |-> IF t \in rows THEN version[t] + 1 ELSE version[t]]
        /\ status' = [t \in Targets |-> IF t \in rows THEN "canceled" ELSE status[t]]
    BY <1>4 DEF Remove
  <2>2. \A t \in Targets \ rows : status'[t] = status[t]
    BY <2>1
  <2> HIDE DEF rows
  <2> QED
    BY <2>1, <2>2, BumpedVersions
<1>5. ASSUME NEW ch \in Channels, Disconnect(ch) PROVE VersionStep
  <2>1. \A t \in Targets : status'[t] \in Waiting => status[t] \in Waiting
    BY <1>5 DEF Disconnect, Waiting
  <2>2. UNCHANGED version
    BY <1>5 DEF Disconnect
  <2> QED
    BY <2>1, <2>2, NoNewVersion
<1>6. ASSUME NEW ch \in Channels, Reconnect(ch) PROVE VersionStep
  BY <1>6, NoNewVersion DEF Reconnect
<1> QED
  BY <1>1, <1>2, <1>3, <1>4, <1>5, <1>6 DEF UserStep

LEMMA Versions == TypeOK /\ [Next]_vars => VersionStep
<1> SUFFICES ASSUME TypeOK, [Next]_vars PROVE VersionStep
  OBVIOUS
<1> USE DEF rowVars
<1>1. CASE RecoverWrite
  <2>1. PICK t : status' = [status EXCEPT ![t] = "unconfirmed"] \/ UNCHANGED status
    BY <1>1 DEF RecoverWrite
  <2>2. UNCHANGED version
    BY <1>1 DEF RecoverWrite
  <2> QED
    BY <2>1, <2>2, SetNotWaiting, NoNewVersion DEF Waiting
<1>2. CASE \/ RecoverStalled \/ SweepRead \/ SweepEnsure \/ RecoverRead \/ RecoverEarly
           \/ MaintenanceCrash \/ Expire \/ RedisLoss \/ UNCHANGED vars
  <2>1. UNCHANGED <<status, version>>
    BY <1>2 DEF RecoverStalled, SweepRead, SweepEnsure, RecoverRead, RecoverEarly,
                MaintenanceCrash, Expire, RedisLoss, vars
  <2> QED
    BY <2>1, NoNewVersion
<1> QED
  BY <1>1, <1>2, WorkerVersions, RequestVersions, UserVersions DEF Next, Maintenance

\* Every writer that puts a row back to be sent gives it a new schedule version, and no
\* version goes back.
THEOREM FreshVersions == Spec => FreshVersion
<1>1. Init => TypeOK
  BY InitType
<1>2. TypeOK /\ [Next]_vars => TypeOK'
  BY TypeStep
<1>3. TypeOK /\ [Next]_vars => [VersionStep]_vars
  BY Versions
<1> QED
  BY <1>1, <1>2, <1>3, PTL DEF Spec, FreshVersion

-----------------------------------------------------------------------------
(* Ownership of an attempt.  OneOwner is not inductive: that nobody claims *)
(* an attempt in progress depends on the row's version having moved on     *)
(* when it waits again.                                                    *)

\* Worker w holds an attempt: it owns it, or has written "processing" and may yet come
\* back, when the first status check cannot be enqueued, to write "unconfirmed".
Holds(w) == Publishes(w) /\ pc[w] \notin {"idle", "claim", "enqueue"}

\* A row never has an older version than an attempt in progress, and has a newer one when
\* it waits to be claimed.
VersionAhead ==
  \A w \in Workers : Holds(w) =>
    /\ task[w].num <= version[Target(w)]
    /\ status[Target(w)] \in Waiting => task[w].num < version[Target(w)]

Distinct == \A u, w \in Workers : Holds(u) /\ Holds(w) /\ task[u] = task[w] => u = w

Ownership == VersionAhead /\ Distinct

LEMMA OwnershipImplies == TypeOK /\ Ownership => OneOwner
<1>h. \A w \in Workers : Owns(w) => Holds(w)
  BY DEF Owns, Holds
<1> SUFFICES ASSUME TypeOK, Ownership, NEW w \in Workers, Owns(w)
             PROVE  /\ ~ (status[Target(w)] \in Waiting /\ version[Target(w)] = task[w].num)
                    /\ \A u \in Workers : Owns(u) /\ task[u] = task[w] => u = w
  BY DEF OneOwner
<1>1. version[Target(w)] \in Nat /\ task[w].num \in Nat
  BY DEF TypeOK, RowType, WorkerType, JobIds, Target
<1> QED
  BY <1>1, <1>h DEF Ownership, VersionAhead, Distinct

\* A step after which every owner already owned the same attempt.
KeepsOwners == \A w \in Workers : Holds(w)' => Holds(w) /\ task'[w] = task[w]

LEMMA KeepsOwnership ==
  ASSUME TypeOK, Ownership, KeepsOwners, VersionStep, TypeOK'
  PROVE  Ownership'
<1>1. Distinct'
  BY DEF Ownership, Distinct, KeepsOwners
<1>2. ASSUME NEW w \in Workers, Holds(w)'
      PROVE  /\ task'[w].num <= version'[Target(w)']
             /\ status'[Target(w)'] \in Waiting => task'[w].num < version'[Target(w)']
  <2> DEFINE t == Target(w)
  <2>1. Holds(w) /\ task'[w] = task[w] /\ Target(w)' = t
    BY <1>2 DEF KeepsOwners, Target
  <2>2. t \in Targets /\ task[w].num \in Nat /\ version[t] \in Nat /\ version'[t] \in Nat
    BY DEF TypeOK, RowType, WorkerType, JobIds, Target
  <2>3. task[w].num <= version[t] /\ (status[t] \in Waiting => task[w].num < version[t])
    BY <2>1 DEF Ownership, VersionAhead
  <2>4. version'[t] >= version[t]
        /\ (status[t] \notin Waiting /\ status'[t] \in Waiting => version'[t] > version[t])
    BY <2>2 DEF VersionStep
  <2> HIDE DEF t
  <2>5. task[w].num <= version'[t]
        /\ (status'[t] \in Waiting => task[w].num < version'[t])
    BY <2>2, <2>3, <2>4
  <2> QED
    BY <2>1, <2>5
<1> QED
  BY <1>1, <1>2 DEF Ownership, VersionAhead

\* The moves of a worker through its processor.
LEMMA GotoKeeps ==
  ASSUME TypeOK, NEW w \in Workers, NEW p, Goto(w, p), Holds(w) \/ ~ Publishes(w)
  PROVE  KeepsOwners
<1>1. \A u \in Workers : u # w => pc'[u] = pc[u]
  BY DEF Goto, TypeOK, WorkerType
<1>2. task' = task
  BY DEF Goto
<1> QED
  BY <1>1, <1>2 DEF KeepsOwners, Holds, Publishes

LEMMA FinishKeeps ==
  ASSUME TypeOK, NEW w \in Workers, NEW q, Finish(w, q)
  PROVE  KeepsOwners
<1>1. pc'[w] = "idle" /\ \A u \in Workers : u # w => pc'[u] = pc[u] /\ task'[u] = task[u]
  BY DEF Finish, TypeOK, WorkerType
<1> QED
  BY <1>1 DEF KeepsOwners, Holds, Publishes

LEMMA IdleKeeps ==
  ASSUME UNCHANGED <<pc, task>>
  PROVE  KeepsOwners
BY DEF KeepsOwners, Holds, Publishes

LEMMA CatchGoes ==
  ASSUME TypeOK, NEW w \in Workers, NEW kind \in ErrorKinds, Catch(w, kind)
  PROVE  \E p : Goto(w, p)
<1>1. ASSUME NEW d \in Decisions, Apply(w, d) PROVE \E p : Goto(w, p)
  BY <1>1 DEF Apply, Decisions, Write
<1>2. task[w].num \in Nat /\ local[w].attempt \in Nat /\ local[w].fresh \in BOOLEAN
  BY DEF TypeOK, WorkerType, JobIds, Locals
<1>3. CASE Publishes(w)
  <2>1. Apply(w, Decide(kind, local[w].attempt, pc[w] \notin {"token", "reauth"}, local[w].fresh))
    BY <1>3 DEF Catch
  <2> QED
    BY <1>1, <1>2, <2>1, DecideRange
<1>4. CASE ~ Publishes(w) /\ kind \in {"transient", "rate_limited"}
  BY <1>4 DEF Catch, Enqueue
<1>5. CASE ~ Publishes(w) /\ kind \notin {"transient", "rate_limited"}
  <2>1. Apply(w, Decide(kind, MaxAttempts, TRUE, TRUE))
    BY <1>5 DEF Catch
  <2> QED
    BY <1>1, <2>1, DecideRange, MaxAttemptsAssumption
<1> QED
  BY <1>3, <1>4, <1>5

LEMMA WorkerOwners ==
  ASSUME TypeOK, NEW w \in Workers, (WorkerStep(w) /\ ~ Claim(w)) \/ WorkerFault(w)
  PROVE  KeepsOwners
<1>k. \A kind \in Refusals \cup Unknowns \cup {"internal"} : kind \in ErrorKinds
  BY DEF Refusals, Unknowns, ErrorKinds, ProviderErrors
<1>1. CASE StartJob(w)
  <2>1. pc'[w] = "claim" /\ \A u \in Workers : u # w => pc'[u] = pc[u] /\ task'[u] = task[u]
    BY <1>1 DEF StartJob, TypeOK, WorkerType
  <2> QED
    BY <2>1 DEF KeepsOwners, Holds, Publishes
<1>2. CASE SkipStale(w) \/ WriteFinal(w) \/ WriteLost(w) \/ EnqueueRetry(w) \/ CallFails(w) \/ Crash(w)
  <2>1. \E q : Finish(w, q)
    BY <1>2 DEF SkipStale, WriteFinal, WriteLost, EnqueueRetry, CallFails, Crash, Return, Throw
  <2> QED
    BY <2>1, FinishKeeps
<1>3. CASE LoadContext(w)
  <2>1. \E p : Goto(w, p)
    BY <1>3 DEF LoadContext, Write
  <2>2. Holds(w) \/ ~ Publishes(w)
    BY <1>3 DEF LoadContext, Holds
  <2> QED
    BY <2>1, <2>2, GotoKeeps
<1>4. CASE ReadProcessing(w)
  <2>1. ~ Publishes(w) /\ ((\E p : Goto(w, p)) \/ \E q : Finish(w, q))
    BY <1>4 DEF ReadProcessing, Return, Write
  <2> QED
    BY <2>1, GotoKeeps, FinishKeeps
<1>5. CASE GetToken(w)
  <2>1. (\E p : Goto(w, p)) \/ \E kind \in ErrorKinds : Catch(w, kind)
    BY <1>5 DEF GetToken, ErrorKinds, ProviderErrors
  <2>2. Holds(w) \/ ~ Publishes(w)
    BY <1>5 DEF GetToken, Holds
  <2> QED
    BY <2>1, <2>2, GotoKeeps, CatchGoes
<1>6. CASE MarkNeedsReauth(w)
  <2>1. \E p : Goto(w, p)
    BY <1>6 DEF MarkNeedsReauth, Write
  <2>2. Holds(w) \/ ~ Publishes(w)
    BY <1>6 DEF MarkNeedsReauth, Holds
  <2> QED
    BY <2>1, <2>2, GotoKeeps
<1>7. CASE Send(w) \/ SendCheck(w)
  <2>1. (\E p : Goto(w, p)) \/ \E kind \in ErrorKinds : Catch(w, kind)
    BY <1>7, <1>k DEF Send, SendCheck, Write
  <2>2. Holds(w) \/ ~ Publishes(w)
    BY <1>7 DEF Send, SendCheck, Holds
  <2> QED
    BY <2>1, <2>2, GotoKeeps, CatchGoes
<1>8. CASE WriteProcessing(w) \/ WritePending(w) \/ WriteRetry(w)
  <2>1. \E p : Goto(w, p)
    BY <1>8 DEF WriteProcessing, WritePending, WriteRetry, Enqueue
  <2>2. Holds(w) \/ ~ Publishes(w)
    BY <1>8 DEF WriteProcessing, WritePending, WriteRetry, Holds
  <2> QED
    BY <2>1, <2>2, GotoKeeps
<1>9. CASE PollAgain(w)
  <2>1. (\E p : Goto(w, p)) \/ \E q : Finish(w, q)
    BY <1>9 DEF PollAgain, Write
  <2>2. Holds(w) \/ ~ Publishes(w)
    BY <1>9 DEF PollAgain, Holds
  <2> QED
    BY <2>1, <2>2, GotoKeeps, FinishKeeps
<1>10. CASE TryFails(w)
  <2>1. Catch(w, "internal")
    BY <1>10 DEF TryFails
  <2>2. Holds(w) \/ ~ Publishes(w)
    BY <1>10 DEF TryFails, Holds
  <2> QED
    BY <1>k, <2>1, <2>2, GotoKeeps, CatchGoes
<1>11. CASE LoseLock(w)
  BY <1>11, IdleKeeps DEF LoseLock
<1> QED
  BY <1>1, <1>2, <1>3, <1>4, <1>5, <1>6, <1>7, <1>8, <1>9, <1>10, <1>11
     DEF WorkerStep, WorkerFault

\* Claim makes one owner, of an attempt nobody can hold: a holder's row, when it waits,
\* has a newer version.
LEMMA ClaimOwnership ==
  ASSUME TypeOK, Ownership, NEW w \in Workers, Claim(w)
  PROVE  Ownership'
<1> DEFINE t == Target(w)
<1>1. /\ t \in Targets /\ task[w].num \in Nat /\ status[t] \in Waiting
      /\ version[t] = task[w].num /\ UNCHANGED <<task, version>>
      /\ status' = [status EXCEPT ![t] = "publishing"]
      /\ pc' = [pc EXCEPT ![w] = "load"]
  BY DEF Claim, Goto, TypeOK, WorkerType, JobIds, Target
<1>2. \A u \in Workers : u # w => (Holds(u)' <=> Holds(u))
  BY <1>1 DEF Holds, Publishes, TypeOK, WorkerType
<1>3. \A u \in Workers : Holds(u) => task[u] # task[w]
  <2> SUFFICES ASSUME NEW u \in Workers, Holds(u), task[u] = task[w] PROVE FALSE
    OBVIOUS
  <2>1. task[w].num < version[t]
    BY <1>1 DEF Ownership, VersionAhead, Target
  <2> QED
    BY <1>1, <2>1
<1>4. Distinct'
  BY <1>1, <1>2, <1>3 DEF Ownership, Distinct
<1>5. ASSUME NEW u \in Workers, Holds(u)'
      PROVE  /\ task[u].num <= version[Target(u)]
             /\ status'[Target(u)] \in Waiting => task[u].num < version[Target(u)]
  <2>1. CASE u = w
    <3>1. status'[t] = "publishing"
      BY <1>1 DEF TypeOK, RowType
    <3> QED
      BY <2>1, <3>1, <1>1 DEF Waiting
  <2>2. CASE u # w
    <3>1. Holds(u)
      BY <1>2, <1>5, <2>2
    <3>2. status'[Target(u)] \in Waiting => status[Target(u)] \in Waiting
      BY <1>1 DEF Waiting, TypeOK, RowType
    <3> QED
      BY <3>1, <3>2 DEF Ownership, VersionAhead
  <2> QED
    BY <2>1, <2>2
<1>6. \A u \in Workers : Target(u)' = Target(u)
  BY <1>1 DEF Target
<1>7. VersionAhead'
  BY <1>1, <1>5, <1>6 DEF VersionAhead
<1> QED
  BY <1>4, <1>7 DEF Ownership

LEMMA StepKeepsOwners ==
  ASSUME TypeOK, [Next]_vars, \A w \in Workers : ~ Claim(w)
  PROVE  KeepsOwners
<1>1. ASSUME NEW w \in Workers, WorkerStep(w) \/ WorkerFault(w) PROVE KeepsOwners
  BY <1>1, WorkerOwners
<1>2. CASE \/ UserStep \/ (\E c \in Calls : ApiStep(c) \/ ApiFault(c)) \/ RecoverStalled
           \/ Maintenance \/ RecoverEarly \/ MaintenanceCrash \/ Expire \/ RedisLoss
           \/ UNCHANGED vars
  <2> USE DEF workerVars
  <2>1. ASSUME UserStep PROVE UNCHANGED <<pc, task>>
    BY <2>1 DEF UserStep, Create, ScheduleRead, EditRead, Unschedule, RetryRead, Remove,
                Disconnect, Reconnect
  <2>2. ASSUME \E c \in Calls : ApiStep(c) \/ ApiFault(c) PROVE UNCHANGED <<pc, task>>
    BY <2>2 DEF ApiStep, ApiFault, ScheduleTx, EditTx, RetryTx, CancelJob, EnqueueJob,
                QueueCallFails, ApiCrash
  <2>3. ASSUME \/ RecoverStalled \/ Maintenance \/ RecoverEarly \/ MaintenanceCrash \/ Expire
               \/ RedisLoss \/ UNCHANGED vars
        PROVE  UNCHANGED <<pc, task>>
    BY <2>3 DEF RecoverStalled, Maintenance, SweepRead, SweepEnsure, RecoverRead, RecoverWrite,
                RecoverEarly, MaintenanceCrash, Expire, RedisLoss, vars
  <2>4. UNCHANGED <<pc, task>>
    BY <1>2, <2>1, <2>2, <2>3
  <2> QED
    BY <2>4, IdleKeeps
<1> QED
  BY <1>1, <1>2 DEF Next

LEMMA OwnershipStep == TypeOK /\ Ownership /\ [Next]_vars => Ownership'
<1> SUFFICES ASSUME TypeOK, Ownership, [Next]_vars PROVE Ownership'
  OBVIOUS
<1>1. TypeOK' /\ VersionStep
  BY TypeStep, Versions
<1>2. CASE \E w \in Workers : Claim(w)
  BY <1>2, ClaimOwnership
<1>3. CASE \A w \in Workers : ~ Claim(w)
  BY <1>1, <1>3, StepKeepsOwners, KeepsOwnership
<1> QED
  BY <1>2, <1>3

\* An attempt is run by at most one worker and cannot be claimed while it runs, for any
\* number of workers and whatever the queue delivers.
THEOREM AttemptOwnership == Spec => []OneOwner
<1>1. Init => TypeOK /\ Ownership
  BY InitType DEF Init, Ownership, VersionAhead, Distinct, Holds
<1>2. TypeOK /\ Ownership /\ [Next]_vars => TypeOK' /\ Ownership'
  BY TypeStep, OwnershipStep
<1>3. TypeOK /\ Ownership => OneOwner
  BY OwnershipImplies
<1> QED
  BY <1>1, <1>2, <1>3, PTL DEF Spec

-----------------------------------------------------------------------------
(* The post row and its targets.                                           *)

\* What every roll-up leaves.  Here a transaction and its roll-up are one step, however many targets
\* the post has; the database makes them one for a post to one channel (PostTransactions), and for
\* no other is it concluded.
RolledUp == PostAgrees \/ \E t \in Rows : status[t] = "canceled"

\* Deriving a post's status again changes nothing.
LEMMA DeriveTwice ==
  ASSUME NEW S, NEW current
  PROVE  LET p == DerivePostStatus(S, current) IN DerivePostStatus(S, p) = p
BY DEF DerivePostStatus

LEMMA RollUpAgrees ==
  ASSUME RollUp(status')
  PROVE  RolledUp'
BY DeriveTwice DEF RollUp, RolledUp, PostAgrees, Rows

LEMMA UnchangedAgrees ==
  ASSUME RolledUp, UNCHANGED <<postStatus, status>>
  PROVE  RolledUp'
BY DEF RolledUp, PostAgrees, Rows

\* Rows become canceled, or nothing changes.
LEMMA CancelAgrees ==
  ASSUME TypeOK, RolledUp, UNCHANGED postStatus, NEW rows, rows \subseteq Rows,
         status' = [t \in Targets |-> IF t \in rows THEN "canceled" ELSE status[t]]
  PROVE  RolledUp'
<1>1. CASE rows = {}
  <2>1. status' = status
    BY <1>1 DEF TypeOK, RowType
  <2> QED
    BY <2>1, UnchangedAgrees
<1>2. CASE rows # {}
  <2>1. PICK t \in rows : TRUE
    BY <1>2
  <2>2. t \in Targets /\ status'[t] = "canceled"
    BY <2>1 DEF Rows
  <2>3. t \in Rows'
    BY <2>2 DEF Rows
  <2> QED
    BY <2>2, <2>3 DEF RolledUp
<1> QED
  BY <1>1, <1>2

\* The first rows of a post are drafts, like the post.
LEMMA CreateAgrees ==
  ASSUME TypeOK, RolledUp, NEW c \in Calls, Create(c)
  PROVE  RolledUp'
<1>1. Rows = {}
  BY DEF Create, Rows
<1>2. postStatus = DerivePostStatus({}, postStatus)
  BY <1>1 DEF RolledUp, PostAgrees
<1>3. \A t \in Rows' : status'[t] = "draft"
  BY DEF Create, InsertTargets, Rows, TypeOK, RowType
<1>4. {status'[t] : t \in Rows'} \subseteq {"draft"}
  BY <1>3
<1>5. postStatus = DerivePostStatus({status'[t] : t \in Rows'}, postStatus)
  BY <1>2, <1>4 DEF DerivePostStatus
<1> QED
  BY <1>5 DEF RolledUp, PostAgrees, Create, postVars

LEMMA AgreesStep == TypeOK /\ RolledUp /\ [Next]_vars => RolledUp'
<1> SUFFICES ASSUME TypeOK, RolledUp, [Next]_vars
             PROVE  RolledUp'
  OBVIOUS
<1> USE DEF postVars, rowVars
<1>1. ASSUME UserStep PROVE RolledUp'
  <2>1. ASSUME NEW c \in Calls, Unschedule(c) PROVE RolledUp'
    BY <2>1, RollUpAgrees DEF Unschedule
  <2>2. ASSUME NEW c \in Calls, Remove(c) PROVE RolledUp'
    BY <2>2, CancelAgrees DEF Remove
  <2>3. ASSUME NEW ch \in Channels, Disconnect(ch) PROVE RolledUp'
    BY <2>3, CancelAgrees DEF Disconnect
  <2>4. ASSUME NEW c \in Calls, ScheduleRead(c) \/ EditRead(c) \/ RetryRead(c)
        PROVE  RolledUp'
    BY <2>4, UnchangedAgrees DEF ScheduleRead, EditRead, RetryRead
  <2>5. ASSUME NEW ch \in Channels, Reconnect(ch) PROVE RolledUp'
    BY <2>5, UnchangedAgrees DEF Reconnect
  <2> QED
    BY <1>1, <2>1, <2>2, <2>3, <2>4, <2>5, CreateAgrees DEF UserStep
<1>2. ASSUME NEW c \in Calls, ApiStep(c) \/ ApiFault(c) PROVE RolledUp'
  <2>1. RollUp(status') \/ UNCHANGED <<postStatus, status>>
    BY <1>2 DEF ApiStep, ApiFault, ScheduleTx, EditTx, RetryTx, CancelJob, EnqueueJob,
                QueueCallFails, ApiCrash
  <2> QED
    BY <2>1, RollUpAgrees, UnchangedAgrees
<1>3. ASSUME NEW w \in Workers, WorkerStep(w) \/ WorkerFault(w) PROVE RolledUp'
  <2>1. RollUp(status') \/ UNCHANGED <<postStatus, status>>
    BY <1>3 DEF WorkerStep, WorkerFault, StartJob, Claim, SkipStale, LoadContext,
                ReadProcessing, GetToken, MarkNeedsReauth, Send, SendCheck, WriteFinal,
                WriteProcessing, WritePending, WriteRetry, WriteLost, EnqueueRetry, PollAgain,
                CallFails, TryFails, Crash, LoseLock
  <2> QED
    BY <2>1, RollUpAgrees, UnchangedAgrees
<1>4. CASE \/ RecoverStalled \/ Maintenance \/ RecoverEarly \/ MaintenanceCrash \/ Expire
           \/ RedisLoss \/ UNCHANGED vars
  <2>1. RollUp(status') \/ UNCHANGED <<postStatus, status>>
    BY <1>4 DEF RecoverStalled, Maintenance, SweepRead, SweepEnsure, RecoverRead, RecoverWrite,
                RecoverEarly, MaintenanceCrash, Expire, RedisLoss, vars
  <2> QED
    BY <2>1, RollUpAgrees, UnchangedAgrees
<1> QED
  BY <1>1, <1>2, <1>3, <1>4 DEF Next

\* The status of a post to one channel is the one its target gives it, whatever workers, edits,
\* retries and recoveries write it; only a canceled target may have been written without the
\* roll-up.
THEOREM PostInAgreement == Spec => []PostAgreesUnlessCanceled
<1>1. Init => TypeOK /\ RolledUp
  <2> SUFFICES ASSUME Init PROVE RolledUp
    BY InitType
  <2>1. Rows = {} /\ postStatus = "draft"
    BY DEF Init, Rows
  <2> QED
    BY <2>1 DEF RolledUp, PostAgrees, DerivePostStatus
<1>2. TypeOK /\ RolledUp /\ [Next]_vars => TypeOK' /\ RolledUp'
  BY TypeStep, AgreesStep
<1>3. RolledUp => PostAgreesUnlessCanceled
  BY DEF RolledUp, PostAgreesUnlessCanceled
<1> QED
  BY <1>1, <1>2, <1>3, PTL DEF Spec

-----------------------------------------------------------------------------
(* Counting, which the accounting rests on.                                *)

LEMMA NoMore ==
  ASSUME NEW S, IsFiniteSet(S), NEW T, T \subseteq S
  PROVE  Cardinality(T) <= Cardinality(S)
BY FS_Subset

LEMMA OneMore ==
  ASSUME NEW S, IsFiniteSet(S), NEW T, NEW x, T \subseteq S \cup {x}
  PROVE  Cardinality(T) <= Cardinality(S) + 1
<1>1. Cardinality(S) \in Nat
  BY FS_CardinalityType
<1>2. /\ IsFiniteSet(S \cup {x})
      /\ Cardinality(S \cup {x}) = IF x \in S THEN Cardinality(S) ELSE Cardinality(S) + 1
  BY FS_AddElement
<1>3. Cardinality(T) <= Cardinality(S \cup {x}) /\ Cardinality(T) \in Nat
      /\ Cardinality(S \cup {x}) \in Nat
  BY <1>2, FS_Subset, FS_CardinalityType
<1> QED
  BY <1>1, <1>2, <1>3

LEMMA OneLess ==
  ASSUME NEW S, IsFiniteSet(S), NEW T, NEW x \in S, T \subseteq S \ {x}
  PROVE  Cardinality(T) + 1 <= Cardinality(S)
<1>1. /\ IsFiniteSet(S \ {x}) /\ Cardinality(S) \in Nat
      /\ Cardinality(S \ {x}) = Cardinality(S) - 1
  BY FS_RemoveElement, FS_CardinalityType
<1>2. Cardinality(T) <= Cardinality(S \ {x}) /\ Cardinality(T) \in Nat
  BY <1>1, FS_Subset, FS_CardinalityType
<1> QED
  BY <1>1, <1>2

\* The numbers Accounting compares.
Balanced(ch) == live[ch] + MayShow(ch) <= 1 + confirmed[ch] + slips[ch]

LEMMA CountsFinite ==
  ASSUME NEW ch
  PROVE  /\ IsFiniteSet(Sending(ch)) /\ IsFiniteSet(Sending(ch)')
         /\ IsFiniteSet(Unsent(ch)) /\ IsFiniteSet(Unsent(ch)')
         /\ IsFiniteSet(Open(ch)) /\ IsFiniteSet(Open(ch)')
<1>1. IsFiniteSet({ch})
  BY FS_Singleton
<1>2. /\ Sending(ch) \subseteq Workers /\ Sending(ch)' \subseteq Workers
      /\ Unsent(ch) \subseteq Targets /\ Unsent(ch)' \subseteq Targets
      /\ Open(ch) \subseteq {ch} /\ Open(ch)' \subseteq {ch}
  BY DEF Sending, Unsent, Open, Rows
<1> QED
  BY <1>1, <1>2, FiniteAssumption, FS_Subset

LEMMA Counts ==
  ASSUME TypeOK, TypeOK', NEW ch \in Channels
  PROVE  /\ Cardinality(Sending(ch)) \in Nat /\ Cardinality(Sending(ch)') \in Nat
         /\ Cardinality(Unsent(ch)) \in Nat /\ Cardinality(Unsent(ch)') \in Nat
         /\ Cardinality(Open(ch)) \in Nat /\ Cardinality(Open(ch)') \in Nat
         /\ live[ch] \in Nat /\ live'[ch] \in Nat
         /\ confirmed[ch] \in Nat /\ confirmed'[ch] \in Nat
         /\ slips[ch] \in Nat /\ slips'[ch] \in Nat
BY CountsFinite, FS_CardinalityType DEF TypeOK, HistoryType

\* Nothing more may appear, nothing has appeared, and what is allowed has not shrunk.
LEMMA NothingNew ==
  ASSUME TypeOK, TypeOK', NEW ch \in Channels, Balanced(ch),
         Sending(ch)' \subseteq Sending(ch), Unsent(ch)' \subseteq Unsent(ch),
         Open(ch)' \subseteq Open(ch), live'[ch] = live[ch],
         confirmed'[ch] >= confirmed[ch], slips'[ch] >= slips[ch]
  PROVE  Balanced(ch)'
<1>1. /\ Cardinality(Sending(ch)') <= Cardinality(Sending(ch))
      /\ Cardinality(Unsent(ch)') <= Cardinality(Unsent(ch))
      /\ Cardinality(Open(ch)') <= Cardinality(Open(ch))
  BY CountsFinite, NoMore
<1> QED
  BY <1>1, Counts DEF Balanced, MayShow

\* One more row may be sent, which a worker's attempt, a confirmation or a slip pays for.
LEMMA OneMoreRow ==
  ASSUME TypeOK, TypeOK', NEW ch \in Channels, Balanced(ch), NEW t,
         Unsent(ch)' \subseteq Unsent(ch) \cup {t}, Open(ch)' \subseteq Open(ch),
         live'[ch] = live[ch], confirmed'[ch] >= confirmed[ch], slips'[ch] >= slips[ch],
         Sending(ch)' \subseteq Sending(ch),
         \/ \E w \in Sending(ch) : w \notin Sending(ch)'
         \/ confirmed'[ch] = confirmed[ch] + 1
         \/ slips'[ch] = slips[ch] + 1
  PROVE  Balanced(ch)'
<1>1. /\ Cardinality(Sending(ch)') <= Cardinality(Sending(ch))
      /\ Cardinality(Unsent(ch)') <= Cardinality(Unsent(ch)) + 1
      /\ Cardinality(Open(ch)') <= Cardinality(Open(ch))
  BY CountsFinite, NoMore, OneMore
<1>2. CASE \E w \in Sending(ch) : w \notin Sending(ch)'
  <2>1. Cardinality(Sending(ch)') + 1 <= Cardinality(Sending(ch))
    BY <1>2, CountsFinite, OneLess
  <2> QED
    BY <1>1, <2>1, Counts DEF Balanced, MayShow
<1>3. CASE confirmed'[ch] = confirmed[ch] + 1 \/ slips'[ch] = slips[ch] + 1
  BY <1>1, <1>3, Counts DEF Balanced, MayShow
<1> QED
  BY <1>2, <1>3

\* One post appears, which an attempt, a row or a slip pays for.
LEMMA OneMorePost ==
  ASSUME TypeOK, TypeOK', NEW ch \in Channels, Balanced(ch),
         Sending(ch)' \subseteq Sending(ch), Unsent(ch)' \subseteq Unsent(ch),
         Open(ch)' \subseteq Open(ch), live'[ch] = live[ch] + 1,
         confirmed'[ch] = confirmed[ch], slips'[ch] >= slips[ch],
         \/ \E w \in Sending(ch) : w \notin Sending(ch)'
         \/ \E t \in Unsent(ch) : t \notin Unsent(ch)'
         \/ slips'[ch] = slips[ch] + 1
  PROVE  Balanced(ch)'
<1>1. /\ Cardinality(Sending(ch)') <= Cardinality(Sending(ch))
      /\ Cardinality(Unsent(ch)') <= Cardinality(Unsent(ch))
      /\ Cardinality(Open(ch)') <= Cardinality(Open(ch))
  BY CountsFinite, NoMore
<1>2. CASE \E w \in Sending(ch) : w \notin Sending(ch)'
  <2>1. Cardinality(Sending(ch)') + 1 <= Cardinality(Sending(ch))
    BY <1>2, CountsFinite, OneLess
  <2> QED
    BY <1>1, <2>1, Counts DEF Balanced, MayShow
<1>3. CASE \E t \in Unsent(ch) : t \notin Unsent(ch)'
  <2>1. Cardinality(Unsent(ch)') + 1 <= Cardinality(Unsent(ch))
    BY <1>3, CountsFinite, OneLess
  <2> QED
    BY <1>1, <2>1, Counts DEF Balanced, MayShow
<1>4. CASE slips'[ch] = slips[ch] + 1
  BY <1>1, <1>4, Counts DEF Balanced, MayShow
<1> QED
  BY <1>2, <1>3, <1>4

-----------------------------------------------------------------------------
(* The workers.                                                            *)

\* What a publish job can be about to write or enqueue, and what a check can.
Outgoing ==
  \A w \in Workers :
    /\ Publishes(w) => /\ pc[w] # "repoll"
                       /\ pc[w] = "poll" => local[w].next = 0
                       /\ pc[w] = "write" => local[w].out \notin {"timeout", "pending"}
    /\ ~ Publishes(w) /\ pc[w] = "write" => local[w].out \notin {"processing", "retry"}

\* The other workers stay where they are.
OthersKeep(w) ==
  \A u \in Workers \ {w} : pc'[u] = pc[u] /\ task'[u] = task[u] /\ local'[u] = local[u]

\* Worker w makes nothing more appear.
Quiet(w) == OthersKeep(w) /\ (Attempting(w)' => Attempting(w) /\ task'[w] = task[w])

LEMMA GotoAccount ==
  ASSUME TypeOK, NEW w \in Workers, NEW p, Goto(w, p), NEW l, local' = [local EXCEPT ![w] = l]
  PROVE  OthersKeep(w) /\ pc'[w] = p /\ task'[w] = task[w] /\ local'[w] = l
BY DEF Goto, OthersKeep, TypeOK, WorkerType

LEMMA WriteAccount ==
  ASSUME TypeOK, NEW w \in Workers, NEW o, Write(w, o)
  PROVE  /\ OthersKeep(w) /\ pc'[w] = "write" /\ task'[w] = task[w] /\ local'[w].out = o
         /\ Attempting(w)' => Publishes(w) /\ o \in {"processing", "retry", "failed"}
<1>1. /\ OthersKeep(w) /\ pc'[w] = "write" /\ task'[w] = task[w]
      /\ local'[w] = [NoLocal EXCEPT !.out = o]
  BY GotoAccount DEF Write
<1>2. local'[w].out = o
  BY <1>1 DEF NoLocal
<1> QED
  BY <1>1, <1>2 DEF Attempting, Owns, Publishes

LEMMA EnqueueAccount ==
  ASSUME TypeOK, NEW w \in Workers, NEW p \in {"poll", "enqueue", "repoll"}, NEW n, Enqueue(w, p, n)
  PROVE  /\ OthersKeep(w) /\ pc'[w] = p /\ task'[w] = task[w] /\ local'[w].next = n
         /\ ~ Attempting(w)'
<1>1. /\ OthersKeep(w) /\ pc'[w] = p /\ task'[w] = task[w]
      /\ local'[w] = [NoLocal EXCEPT !.next = n]
  BY GotoAccount DEF Enqueue
<1>2. local'[w].next = n
  BY <1>1 DEF NoLocal
<1> QED
  BY <1>1, <1>2 DEF Attempting, Owns

LEMMA FinishAccount ==
  ASSUME TypeOK, NEW w \in Workers, NEW q, Finish(w, q)
  PROVE  OthersKeep(w) /\ pc'[w] = "idle" /\ ~ Attempting(w)' /\ Quiet(w)
<1>1. OthersKeep(w) /\ pc'[w] = "idle"
  BY DEF Finish, OthersKeep, TypeOK, WorkerType
<1> QED
  BY <1>1 DEF Attempting, Owns, Quiet

\* What the catch leads to.
LEMMA ApplyAccount ==
  ASSUME TypeOK, NEW w \in Workers, NEW d \in Decisions, Apply(w, d)
  PROVE  \/ d = "retry" /\ Write(w, "retry")
         \/ d = "fail" /\ Write(w, "failed")
         \/ d = "revoked" /\ Goto(w, "revoked") /\ UNCHANGED local
         \/ Write(w, "unconfirmed")
         \/ /\ d = "refresh_token" /\ Publishes(w) /\ Goto(w, "token")
            /\ local' = [local EXCEPT ![w].fresh = TRUE]
<1>1. CASE d = "retry"
  BY <1>1 DEF Apply
<1>2. CASE d = "fail"
  BY <1>2 DEF Apply
<1>3. CASE d = "revoked"
  BY <1>3 DEF Apply
<1>4. CASE d = "unconfirmed"
  BY <1>4 DEF Apply
<1>5. CASE d = "refresh_token"
  BY <1>5 DEF Apply
<1> QED
  BY <1>1, <1>2, <1>3, <1>4, <1>5 DEF Decisions

LEMMA CatchPublish ==
  ASSUME TypeOK, NEW w \in Workers, NEW kind \in ErrorKinds, Catch(w, kind), Publishes(w)
  PROVE  \/ Write(w, "retry") \/ Write(w, "failed") \/ Write(w, "unconfirmed")
         \/ Goto(w, "revoked") /\ UNCHANGED local
         \/ Goto(w, "token") /\ local' = [local EXCEPT ![w].fresh = TRUE]
<1>1. local[w].attempt \in Nat /\ local[w].fresh \in BOOLEAN
  BY DEF TypeOK, WorkerType, Locals
<1>2. PICK sent \in BOOLEAN : Apply(w, Decide(kind, local[w].attempt, sent, local[w].fresh))
  BY DEF Catch
<1>3. PICK d \in Decisions : Apply(w, d)
  BY <1>1, <1>2, DecideRange
<1> QED
  BY <1>3, ApplyAccount

LEMMA CatchCheck ==
  ASSUME TypeOK, NEW w \in Workers, NEW kind \in ErrorKinds, Catch(w, kind), ~ Publishes(w)
  PROVE  \/ Write(w, "failed") \/ Write(w, "unconfirmed")
         \/ Goto(w, "revoked") /\ UNCHANGED local
         \/ Enqueue(w, "repoll", task[w].num + 1)
<1>1. CASE kind \in {"transient", "rate_limited"}
  BY <1>1 DEF Catch
<1>2. CASE kind \notin {"transient", "rate_limited"}
  <2>1. PICK d : d = Decide(kind, MaxAttempts, TRUE, TRUE)
    OBVIOUS
  <2>2. Apply(w, d)
    BY <1>2, <2>1 DEF Catch
  <2>3. d \in {"fail", "revoked", "unconfirmed"}
    BY <1>2, <2>1 DEF Decide, ErrorKinds, ProviderErrors
  <2> QED
    BY <2>2, <2>3, ApplyAccount DEF Decisions
<1> QED
  BY <1>1, <1>2

\* After the platform was called, an outcome nobody knows is unconfirmed.
LEMMA CatchUnknown ==
  ASSUME TypeOK, NEW w \in Workers, NEW kind \in Unknowns, Catch(w, kind), Publishes(w),
         pc[w] \notin {"token", "reauth"}
  PROVE  Write(w, "unconfirmed")
<1>1. PICK a, r : a = local[w].attempt /\ r = local[w].fresh
  OBVIOUS
<1>2. Apply(w, Decide(kind, a, TRUE, r))
  BY <1>1 DEF Catch
<1>3. Decide(kind, a, TRUE, r) = "unconfirmed"
  BY DEF Unknowns, Refusals, ErrorKinds, ProviderErrors, Decide
<1>4. Apply(w, "unconfirmed")
  BY <1>2, <1>3
<1> QED
  BY <1>4 DEF Apply

LEMMA CatchQuiet ==
  ASSUME TypeOK, NEW w \in Workers, NEW kind \in ErrorKinds, Catch(w, kind),
         Publishes(w) => \/ Attempting(w)
                         \/ kind \in Unknowns /\ pc[w] \notin {"token", "reauth"}
  PROVE  Quiet(w)
<1>1. ASSUME Goto(w, "revoked") \/ Goto(w, "token"),
             UNCHANGED local \/ local' = [local EXCEPT ![w].fresh = TRUE]
      PROVE  OthersKeep(w) /\ task'[w] = task[w]
  BY <1>1 DEF Goto, OthersKeep, TypeOK, WorkerType
<1>2. CASE Publishes(w) /\ Attempting(w)
  BY <1>1, <1>2, CatchPublish, WriteAccount DEF Quiet
<1>3. CASE Publishes(w) /\ kind \in Unknowns /\ pc[w] \notin {"token", "reauth"}
  BY <1>3, CatchUnknown, WriteAccount DEF Quiet
<1>4. CASE ~ Publishes(w)
  <2>1. OthersKeep(w) /\ task'[w] = task[w]
    BY <1>1, <1>4, CatchCheck, WriteAccount, EnqueueAccount
  <2> QED
    BY <1>4, <2>1 DEF Quiet, Attempting, Owns, Publishes
<1> QED
  BY <1>2, <1>3, <1>4

LEMMA OutgoingKept ==
  ASSUME TypeOK, Outgoing, NEW w \in Workers, OthersKeep(w),
         LET publishes == task'[w].kind = "publish" IN
         /\ publishes => /\ pc'[w] # "repoll"
                         /\ pc'[w] = "poll" => local'[w].next = 0
                         /\ pc'[w] = "write" => local'[w].out \notin {"timeout", "pending"}
         /\ ~ publishes /\ pc'[w] = "write" => local'[w].out \notin {"processing", "retry"}
  PROVE  Outgoing'
BY DEF Outgoing, OthersKeep, Publishes

\* A worker that moves elsewhere than to a write, or to poll again, may leave its variables.
LEMMA OutgoingElsewhere ==
  ASSUME TypeOK, Outgoing, NEW w \in Workers, OthersKeep(w), pc'[w] \notin {"write", "poll", "repoll"}
  PROVE  Outgoing'
BY OutgoingKept

LEMMA OutgoingCatch ==
  ASSUME TypeOK, Outgoing, NEW w \in Workers, NEW kind \in ErrorKinds, Catch(w, kind)
  PROVE  Outgoing'
<1>1. ASSUME Goto(w, "revoked") \/ Goto(w, "token"),
             UNCHANGED local \/ local' = [local EXCEPT ![w].fresh = TRUE]
      PROVE  OthersKeep(w) /\ pc'[w] \in {"revoked", "token"}
  BY <1>1 DEF Goto, OthersKeep, TypeOK, WorkerType
<1>2. CASE Publishes(w)
  <2>1. CASE \E o \in {"retry", "failed", "unconfirmed"} : Write(w, o)
    BY <1>2, <2>1, WriteAccount, OutgoingKept DEF Publishes
  <2> QED
    BY <1>1, <1>2, <2>1, CatchPublish, OutgoingElsewhere
<1>3. CASE ~ Publishes(w)
  <2>1. CASE Write(w, "failed") \/ Write(w, "unconfirmed")
    BY <1>3, <2>1, WriteAccount, OutgoingKept DEF Publishes
  <2>2. CASE Enqueue(w, "repoll", task[w].num + 1)
    BY <1>3, <2>2, EnqueueAccount, OutgoingKept DEF Publishes
  <2> QED
    BY <1>1, <1>3, <2>1, <2>2, CatchCheck, OutgoingElsewhere
<1> QED
  BY <1>2, <1>3

LEMMA OutgoingWorker ==
  ASSUME TypeOK, Outgoing, NEW w \in Workers, WorkerStep(w) \/ WorkerFault(w)
  PROVE  Outgoing'
<1>f. ASSUME NEW q, Finish(w, q) PROVE Outgoing'
  BY <1>f, FinishAccount, OutgoingElsewhere
<1>w. ASSUME NEW o \in {"failed", "published", "unconfirmed"}, Write(w, o) PROVE Outgoing'
  BY <1>w, WriteAccount, OutgoingKept DEF Publishes
<1>g. ASSUME NEW p \in {"token", "send", "reauth"}, Goto(w, p), UNCHANGED local PROVE Outgoing'
  <2>1. OthersKeep(w) /\ pc'[w] = p
    BY <1>g DEF Goto, OthersKeep, TypeOK, WorkerType
  <2> QED
    BY <2>1, OutgoingElsewhere
<1>k. \A kind \in {"transient", "rate_limited", "invalid_request", "internal"} \cup Refusals
                  \cup Unknowns : kind \in ErrorKinds
  BY DEF Refusals, Unknowns, ErrorKinds, ProviderErrors
<1>1. CASE StartJob(w)
  <2>1. OthersKeep(w) /\ pc'[w] = "claim"
    BY <1>1 DEF StartJob, OthersKeep, TypeOK, WorkerType
  <2> QED
    BY <2>1, OutgoingElsewhere
<1>2. CASE Claim(w)
  <2>1. OthersKeep(w) /\ pc'[w] = "load"
    BY <1>2 DEF Claim, Goto, OthersKeep, TypeOK, WorkerType
  <2> QED
    BY <2>1, OutgoingElsewhere
<1>3. CASE SkipStale(w) \/ WriteFinal(w) \/ WriteLost(w) \/ EnqueueRetry(w) \/ CallFails(w) \/ Crash(w)
  BY <1>3, <1>f DEF SkipStale, WriteFinal, WriteLost, EnqueueRetry, CallFails, Crash, Return, Throw
<1>4. CASE LoadContext(w) \/ MarkNeedsReauth(w) \/ ReadProcessing(w)
  BY <1>4, <1>w, <1>g, <1>f DEF LoadContext, MarkNeedsReauth, ReadProcessing, Return
<1>5. CASE GetToken(w)
  BY <1>5, <1>g, <1>k, OutgoingCatch DEF GetToken
<1>6. CASE Send(w)
  <2>1. CASE Write(w, "processing")
    BY <1>6, <2>1, WriteAccount, OutgoingKept DEF Send, Publishes
  <2> QED
    BY <1>6, <2>1, <1>w, <1>k, OutgoingCatch DEF Send
<1>7. CASE SendCheck(w)
  <2>1. CASE Write(w, "pending")
    BY <1>7, <2>1, WriteAccount, OutgoingKept DEF SendCheck, Publishes
  <2> QED
    BY <1>7, <2>1, <1>w, <1>k, OutgoingCatch DEF SendCheck
<1>8. CASE WriteProcessing(w)
  BY <1>8, EnqueueAccount, OutgoingKept DEF WriteProcessing
<1>9. CASE WritePending(w)
  <2>1. ~ Publishes(w)
    BY <1>9 DEF WritePending, Outgoing
  <2>2. Enqueue(w, "poll", task[w].num + 1)
    BY <1>9 DEF WritePending
  <2> QED
    BY <2>1, <2>2, EnqueueAccount, OutgoingKept DEF Publishes
<1>10. CASE WriteRetry(w)
  <2>1. PICK n : Enqueue(w, "enqueue", n)
    BY <1>10 DEF WriteRetry
  <2> QED
    BY <2>1, EnqueueAccount, OutgoingElsewhere
<1>11. CASE PollAgain(w)
  <2>1. CASE local[w].next >= MaxChecks
    <3>1. ~ Publishes(w)
      BY <1>11, <2>1, BoundsAssumption DEF PollAgain, Outgoing
    <3>2. PICK o \in {"timeout", "failed"} : Write(w, o)
      BY <1>11, <2>1 DEF PollAgain
    <3> QED
      BY <3>1, <3>2, WriteAccount, OutgoingKept DEF Publishes
  <2> QED
    BY <1>11, <2>1, <1>f DEF PollAgain
<1>12. CASE TryFails(w)
  BY <1>12, <1>k, OutgoingCatch DEF TryFails
<1>13. CASE LoseLock(w)
  BY <1>13 DEF LoseLock, Outgoing, Publishes
<1> QED
  BY <1>1, <1>2, <1>3, <1>4, <1>5, <1>6, <1>7, <1>8, <1>9, <1>10, <1>11, <1>12, <1>13
     DEF WorkerStep, WorkerFault

-----------------------------------------------------------------------------
(* The steps of the workers.                                               *)

LEMMA WorkerRows ==
  ASSUME TypeOK, NEW w \in Workers
  PROVE  Target(w) \in Targets /\ ChannelRow(w) = ChannelOf[Target(w)] /\ ChannelRow(w) \in Channels
BY TargetsAssumption DEF TypeOK, WorkerType, JobIds, Target, ChannelRow

\* The attempts in progress when only worker w moves.
LEMMA SendingStep ==
  ASSUME NEW w \in Workers, NEW ch, OthersKeep(w)
  PROVE  /\ Sending(ch)' \subseteq Sending(ch) \cup {w}
         /\ ~ Attempting(w)' => Sending(ch)' \subseteq Sending(ch) \ {w}
         /\ Quiet(w) => Sending(ch)' \subseteq Sending(ch)
<1>1. ASSUME NEW u \in Workers \ {w}
      PROVE  u \in Sending(ch)' <=> u \in Sending(ch)
  BY <1>1 DEF Sending, OthersKeep, Attempting, Owns, Publishes, ChannelRow, Target
<1>2. Sending(ch)' \subseteq Workers
  BY DEF Sending
<1>3. w \in Sending(ch)' <=> Attempting(w)' /\ ChannelRow(w)' = ch
  BY DEF Sending
<1>4. task'[w] = task[w] => ChannelRow(w)' = ChannelRow(w)
  BY DEF ChannelRow, Target
<1>5. w \in Sending(ch) <=> Attempting(w) /\ ChannelRow(w) = ch
  BY DEF Sending
<1> QED
  BY <1>1, <1>2, <1>3, <1>4, <1>5 DEF Quiet

\* The rows when nothing writes their statuses.
LEMMA SameRows ==
  ASSUME NEW ch, UNCHANGED <<status, asked>>
  PROVE  Unsent(ch)' = Unsent(ch) /\ Open(ch)' = Open(ch)
BY DEF Unsent, Open, Rows

\* The rows when one of them, t, is written.
LEMMA OneRow ==
  ASSUME TypeOK, NEW t \in Rows, NEW st \in TargetStatus, NEW ch, status' = [status EXCEPT ![t] = st],
         \A u \in Targets \ {t} : asked'[u] = asked[u]
  PROVE  /\ Open(ch)' = Open(ch)
         /\ Unsent(ch)' \subseteq Unsent(ch) \cup {t}
         /\ ChannelOf[t] # ch => Unsent(ch)' \subseteq Unsent(ch)
         /\ st \notin {"draft", "scheduled", "queued", "failed", "canceled", "processing"}
              => Unsent(ch)' \subseteq Unsent(ch) \ {t}
<1>1. t \in Targets /\ status' \in [Targets -> RowStatus] /\ status'[t] = st
  BY DEF Rows, TypeOK, RowType, RowStatus
<1>2. \A u \in Targets \ {t} : status'[u] = status[u]
  BY DEF TypeOK, RowType
<1>3. Rows' = Rows
  BY <1>1, <1>2 DEF Rows, TargetStatus
<1>4. Open(ch)' = Open(ch)
  BY <1>3 DEF Open
<1>5. \A u \in Unsent(ch)' : u # t => u \in Unsent(ch)
  BY <1>2, <1>3 DEF Unsent, Rows
<1>6. t \in Unsent(ch)' => /\ ChannelOf[t] = ch
                           /\ st \in {"draft", "scheduled", "queued", "failed", "canceled", "processing"}
  BY <1>1 DEF Unsent
<1> QED
  BY <1>4, <1>5, <1>6

LEMMA QuietAccount ==
  ASSUME TypeOK, TypeOK', Accounting, NEW w \in Workers, Quiet(w),
         UNCHANGED <<status, asked, live, confirmed, slips>>
  PROVE  Accounting'
<1> SUFFICES ASSUME NEW ch \in Channels PROVE Balanced(ch)'
  BY DEF Accounting, Balanced
<1>1. Balanced(ch)
  BY DEF Accounting, Balanced
<1>2. Sending(ch)' \subseteq Sending(ch)
  BY SendingStep DEF Quiet
<1> QED
  BY <1>1, <1>2, SameRows, Counts, NothingNew

\* A claim turns a row that waits into an attempt.
LEMMA ClaimAccount ==
  ASSUME TypeOK, TypeOK', Accounting, NEW w \in Workers, Claim(w)
  PROVE  Accounting'
<1> SUFFICES ASSUME NEW ch \in Channels PROVE Balanced(ch)'
  BY DEF Accounting, Balanced
<1> DEFINE t == Target(w)
<1>1. /\ t \in Rows /\ status[t] \in Waiting /\ status' = [status EXCEPT ![t] = "publishing"]
      /\ UNCHANGED <<asked, live, confirmed, slips, task>>
  BY WorkerRows DEF Claim, Waiting, Rows, history, Goto
<1>2. Balanced(ch)
  BY DEF Accounting, Balanced
<1>3. OthersKeep(w)
  BY DEF Claim, Goto, OthersKeep, TypeOK, WorkerType
<1>4. /\ Open(ch)' = Open(ch) /\ Unsent(ch)' \subseteq Unsent(ch) \ {t}
  BY <1>1, OneRow DEF TargetStatus
<1>5. CASE ChannelRow(w) = ch
  <2>1. t \in Unsent(ch)
    BY <1>1, <1>5, WorkerRows DEF Unsent, Waiting
  <2>2. /\ Cardinality(Unsent(ch)') + 1 <= Cardinality(Unsent(ch))
        /\ Cardinality(Sending(ch)') <= Cardinality(Sending(ch)) + 1
    BY <1>3, <1>4, <2>1, SendingStep, CountsFinite, OneLess, OneMore
  <2> QED
    BY <1>1, <1>2, <1>4, <2>2, Counts DEF Balanced, MayShow
<1>6. CASE ChannelRow(w) # ch
  <2>1. w \notin Sending(ch)'
    BY <1>1, <1>6 DEF Sending, ChannelRow, Target
  <2>2. Sending(ch)' \subseteq Sending(ch)
    BY <1>3, <2>1, SendingStep
  <2> QED
    BY <1>1, <1>2, <1>4, <2>2, Counts, NothingNew
<1> QED
  BY <1>5, <1>6

\* Worker w writes the status st, and what the row may cost was counted or is a slip.
Outcome(w, st) ==
  /\ OthersKeep(w) /\ ~ Owns(w)'
  /\ Target(w) \in Rows /\ status' = [status EXCEPT ![Target(w)] = st]
  /\ \A u \in Targets \ {Target(w)} : asked'[u] = asked[u]
  /\ UNCHANGED <<live, confirmed>>
  /\ \/ Attempting(w) /\ UNCHANGED slips
     \/ st \in {"published", "unconfirmed"} /\ UNCHANGED slips
     \/ Target(w) \in Unsent(ChannelRow(w)) /\ UNCHANGED slips
     \/ slips' = [slips EXCEPT ![ChannelRow(w)] = @ + 1]

LEMMA OutcomeAccount ==
  ASSUME TypeOK, TypeOK', Accounting, NEW w \in Workers, NEW st \in TargetStatus, Outcome(w, st)
  PROVE  Accounting'
<1> USE DEF Outcome
<1> SUFFICES ASSUME NEW ch \in Channels PROVE Balanced(ch)'
  BY DEF Accounting, Balanced
<1> DEFINE t == Target(w)
<1>1. Balanced(ch)
  BY DEF Accounting, Balanced
<1>2. Sending(ch)' \subseteq Sending(ch) /\ w \notin Sending(ch)'
  BY SendingStep DEF Attempting
<1>3. /\ Open(ch)' = Open(ch) /\ Unsent(ch)' \subseteq Unsent(ch) \cup {t}
      /\ ChannelOf[t] # ch => Unsent(ch)' \subseteq Unsent(ch)
      /\ st \in {"published", "unconfirmed"} => Unsent(ch)' \subseteq Unsent(ch)
  BY OneRow
<1>4. slips'[ch] >= slips[ch] /\ slips[ch] \in Nat
  BY WorkerRows DEF TypeOK, HistoryType
<1>5. CASE Unsent(ch)' \subseteq Unsent(ch)
  BY <1>1, <1>2, <1>3, <1>4, <1>5, Counts, NothingNew
<1>6. CASE ChannelRow(w) = ch /\ Attempting(w)
  <2>1. w \in Sending(ch)
    BY <1>6 DEF Sending
  <2> QED
    BY <1>1, <1>2, <1>3, <1>4, <2>1, Counts, OneMoreRow
<1>7. CASE ChannelRow(w) = ch /\ slips' = [slips EXCEPT ![ChannelRow(w)] = @ + 1]
  <2>1. slips'[ch] = slips[ch] + 1
    BY <1>7 DEF TypeOK, HistoryType
  <2> QED
    BY <1>1, <1>2, <1>3, <1>4, <2>1, Counts, OneMoreRow
<1>8. CASE ChannelRow(w) = ch /\ t \in Unsent(ch)
  BY <1>3, <1>5, <1>8
<1> QED
  BY <1>3, <1>5, <1>6, <1>7, <1>8, WorkerRows

LEMMA SendAccount ==
  ASSUME TypeOK, TypeOK', Accounting, NEW w \in Workers, Send(w)
  PROVE  Accounting'
<1>1. /\ Publishes(w) /\ pc[w] = "send" /\ Attempting(w)
      /\ UNCHANGED <<status, asked, confirmed, slips>>
  BY DEF Send, Attempting, Owns, postVars, rowVars
<1>k. \A kind \in Refusals \cup Unknowns : kind \in ErrorKinds
  BY DEF Refusals, Unknowns, ErrorKinds, ProviderErrors
<1>2. ASSUME Quiet(w), UNCHANGED live PROVE Accounting'
  BY <1>1, <1>2, QuietAccount
<1>3. ASSUME NEW o \in {"published", "unconfirmed"}, Write(w, o), Show(w)
      PROVE  Accounting'
  <2> SUFFICES ASSUME NEW ch \in Channels PROVE Balanced(ch)'
    BY DEF Accounting, Balanced
  <2>1. Balanced(ch)
    BY DEF Accounting, Balanced
  <2>2. OthersKeep(w) /\ ~ Attempting(w)'
    BY <1>3, WriteAccount
  <2>3. Sending(ch)' \subseteq Sending(ch) \ {w}
    BY <2>2, SendingStep
  <2>4. CASE ChannelRow(w) = ch
    <3>1. w \in Sending(ch) /\ live'[ch] = live[ch] + 1
      BY <1>1, <1>3, <2>4 DEF Sending, Show, TypeOK, HistoryType
    <3> QED
      BY <1>1, <2>1, <2>3, <3>1, SameRows, Counts, OneMorePost
  <2>5. CASE ChannelRow(w) # ch
    <3>1. live'[ch] = live[ch]
      BY <1>3, <2>5 DEF Show, TypeOK, HistoryType
    <3> QED
      BY <1>1, <2>1, <2>3, <3>1, SameRows, Counts, NothingNew
  <2> QED
    BY <2>4, <2>5
<1>4. CASE Show(w) /\ Write(w, "published")
  BY <1>3, <1>4
<1>5. CASE Write(w, "processing") /\ UNCHANGED live
  BY <1>1, <1>2, <1>5, WriteAccount DEF Quiet
<1>6. CASE \E kind \in Refusals : Catch(w, kind) /\ UNCHANGED live
  BY <1>1, <1>2, <1>6, <1>k, CatchQuiet
<1>7. CASE \E kind \in Unknowns : Catch(w, kind) /\ (Show(w) \/ UNCHANGED live)
  <2>1. Write(w, "unconfirmed")
    BY <1>1, <1>7, CatchUnknown
  <2>2. Quiet(w)
    BY <2>1, WriteAccount DEF Quiet
  <2> QED
    BY <1>2, <1>3, <1>7, <2>1, <2>2
<1> QED
  BY <1>4, <1>5, <1>6, <1>7 DEF Send

LEMMA SendCheckAccount ==
  ASSUME TypeOK, TypeOK', Accounting, NEW w \in Workers, SendCheck(w)
  PROVE  Accounting'
<1> DEFINE t == Target(w)
<1>1. ~ Publishes(w) /\ UNCHANGED <<status, confirmed>>
  BY DEF SendCheck, postVars, rowVars
<1>k. \A kind \in Refusals \cup Unknowns : kind \in ErrorKinds
  BY DEF Refusals, Unknowns, ErrorKinds, ProviderErrors
<1>2. Quiet(w)
  BY <1>1, <1>k, CatchQuiet, WriteAccount DEF SendCheck, Quiet
<1>3. CASE UNCHANGED <<live, asked, slips>>
  BY <1>1, <1>2, <1>3, QuietAccount
<1>4. CASE /\ asked' = [asked EXCEPT ![t] = TRUE]
           /\ SlipAt(w, asked[t] \/ status[t] # "processing")
           /\ Show(w) \/ UNCHANGED live
  <2> SUFFICES ASSUME NEW ch \in Channels PROVE Balanced(ch)'
    BY DEF Accounting, Balanced
  <2>1. Balanced(ch)
    BY DEF Accounting, Balanced
  <2>2. Sending(ch)' \subseteq Sending(ch)
    BY <1>2, SendingStep DEF Quiet
  <2>3. Open(ch)' = Open(ch) /\ Unsent(ch)' \subseteq Unsent(ch)
    BY <1>1, <1>4 DEF Open, Unsent, Rows, TypeOK, HistoryType
  <2>4. /\ slips'[ch] >= slips[ch]
        /\ \/ live'[ch] = live[ch]
           \/ ChannelRow(w) = ch /\ live'[ch] = live[ch] + 1
    BY <1>4, WorkerRows DEF SlipAt, Show, TypeOK, HistoryType
  <2>5. CASE live'[ch] = live[ch]
    BY <1>1, <2>1, <2>2, <2>3, <2>4, <2>5, Counts, NothingNew
  <2>6. CASE ChannelRow(w) = ch /\ live'[ch] = live[ch] + 1
    <3>1. CASE asked[t] \/ status[t] # "processing"
      <4>1. slips'[ch] = slips[ch] + 1
        BY <1>4, <2>6, <3>1 DEF SlipAt, TypeOK, HistoryType
      <4> QED
        BY <1>1, <2>1, <2>2, <2>3, <2>4, <2>6, <4>1, OneMorePost
    <3>2. CASE ~ asked[t] /\ status[t] = "processing"
      <4>1. t \in Unsent(ch)
        BY <2>6, <3>2, WorkerRows DEF Unsent, Rows
      <4>2. t \notin Unsent(ch)'
        BY <1>1, <1>4, <3>2, WorkerRows DEF Unsent, TypeOK, HistoryType
      <4> QED
        BY <1>1, <2>1, <2>2, <2>3, <2>4, <2>6, <4>1, <4>2, OneMorePost
    <3> QED
      BY <3>1, <3>2
  <2> QED
    BY <2>4, <2>5, <2>6
<1> QED
  BY <1>3, <1>4 DEF SendCheck

LEMMA WriteFinalOutcome ==
  ASSUME TypeOK, Outgoing, NEW w \in Workers, WriteFinal(w)
  PROVE  \E st \in TargetStatus : Outcome(w, st)
<1> DEFINE t == Target(w)
<1>1. PICK out \in {"published", "failed", "unconfirmed"} :
        /\ out = IF local[w].out = "timeout" THEN "failed" ELSE local[w].out
        /\ t \in Rows /\ pc[w] = "write" /\ status' = [status EXCEPT ![t] = out]
        /\ asked' = [asked EXCEPT ![t] = FALSE]
        /\ SlipAt(w, /\ out = "failed" /\ ~ Publishes(w)
                     /\ \/ status[t] \in {"publishing", "published", "unconfirmed"}
                        \/ status[t] = "processing" /\ asked[t])
        /\ UNCHANGED <<live, confirmed>>
  BY DEF WriteFinal
<1>2. OthersKeep(w) /\ ~ Owns(w)'
  BY FinishAccount DEF WriteFinal, Return, Owns
<1>3. \A u \in Targets \ {t} : asked'[u] = asked[u]
  BY <1>1 DEF TypeOK, HistoryType
<1>4. \/ UNCHANGED slips
      \/ slips' = [slips EXCEPT ![ChannelRow(w)] = @ + 1]
  BY <1>1 DEF SlipAt
<1>5. CASE out # "failed"
  BY <1>1, <1>2, <1>3, <1>4, <1>5 DEF Outcome, TargetStatus
<1>6. CASE out = "failed" /\ Publishes(w)
  <2>1. Attempting(w)
    BY <1>1, <1>6 DEF Outgoing, Attempting, Owns
  <2> QED
    BY <1>1, <1>2, <1>3, <1>4, <1>6, <2>1 DEF Outcome, TargetStatus
<1>7. CASE out = "failed" /\ ~ Publishes(w)
  <2>1. CASE \/ status[t] \in {"publishing", "published", "unconfirmed"}
             \/ status[t] = "processing" /\ asked[t]
    <3>1. slips' = [slips EXCEPT ![ChannelRow(w)] = @ + 1]
      BY <1>1, <1>7, <2>1 DEF SlipAt
    <3> QED
      BY <1>1, <1>2, <1>3, <1>7, <3>1 DEF Outcome, TargetStatus
  <2>2. CASE ~ \/ status[t] \in {"publishing", "published", "unconfirmed"}
               \/ status[t] = "processing" /\ asked[t]
    <3>1. status[t] \in TargetStatus
      BY <1>1 DEF Rows, TypeOK, RowType, RowStatus
    <3>2. t \in Unsent(ChannelRow(w))
      BY <1>1, <2>2, <3>1, WorkerRows DEF Unsent, TargetStatus
    <3> QED
      BY <1>1, <1>2, <1>3, <1>4, <1>7, <3>2 DEF Outcome, TargetStatus
  <2> QED
    BY <2>1, <2>2
<1> QED
  BY <1>5, <1>6, <1>7

LEMMA WriteAgainOutcome ==
  ASSUME TypeOK, Outgoing, NEW w \in Workers, WriteProcessing(w) \/ WriteRetry(w)
  PROVE  \E st \in TargetStatus : Outcome(w, st)
<1>1. Attempting(w)
  BY DEF WriteProcessing, WriteRetry, Outgoing, Attempting, Owns
<1>2. PICK p \in {"poll", "enqueue"} : \E n : Enqueue(w, p, n)
  BY DEF WriteProcessing, WriteRetry
<1>3. OthersKeep(w) /\ ~ Owns(w)'
  BY <1>2, EnqueueAccount DEF Owns
<1>4. PICK st \in {"processing", "scheduled"} : status' = [status EXCEPT ![Target(w)] = st]
  BY DEF WriteProcessing, WriteRetry
<1>5. \A u \in Targets \ {Target(w)} : asked'[u] = asked[u]
  BY DEF WriteProcessing, WriteRetry, TypeOK, HistoryType, history
<1>6. Target(w) \in Rows /\ UNCHANGED <<live, confirmed, slips>>
  BY DEF WriteProcessing, WriteRetry, history
<1> QED
  BY <1>1, <1>3, <1>4, <1>5, <1>6 DEF Outcome, TargetStatus

\* The steps of a worker that make nothing more appear and write no row.
LEMMA WorkerQuiet ==
  ASSUME TypeOK, Outgoing, NEW w \in Workers, WorkerStep(w) \/ WorkerFault(w),
         ~ (Claim(w) \/ Send(w) \/ SendCheck(w)),
         ~ (WriteFinal(w) \/ WriteProcessing(w) \/ WriteRetry(w))
  PROVE  Quiet(w) /\ UNCHANGED <<status, asked, live, confirmed, slips>>
<1> USE DEF postVars, rowVars, history
<1>k. \A kind \in {"transient", "rate_limited", "invalid_request", "internal"} :
        kind \in ErrorKinds
  BY DEF ErrorKinds, ProviderErrors
<1>s. UNCHANGED <<status, asked, live, confirmed, slips>>
  BY DEF WorkerStep, WorkerFault, StartJob, SkipStale, LoadContext, ReadProcessing, GetToken,
         MarkNeedsReauth, WritePending, WriteLost, EnqueueRetry, PollAgain, CallFails, TryFails,
         Crash, LoseLock
<1>1. CASE StartJob(w)
  BY <1>s, <1>1 DEF StartJob, OthersKeep, TypeOK, WorkerType, Quiet, Attempting, Owns
<1>2. CASE SkipStale(w) \/ WriteLost(w) \/ EnqueueRetry(w) \/ CallFails(w) \/ Crash(w)
  <2>1. PICK q : Finish(w, q)
    BY <1>2 DEF SkipStale, WriteLost, EnqueueRetry, CallFails, Crash, Return, Throw
  <2> QED
    BY <1>s, <2>1, FinishAccount
<1>3. CASE LoadContext(w) \/ MarkNeedsReauth(w) \/ ReadProcessing(w)
  <2>2. ASSUME Goto(w, "token"), UNCHANGED local, pc[w] \in {"load", "claim"},
               pc[w] = "claim" => ~ Publishes(w)
        PROVE  Quiet(w)
    <3>1. OthersKeep(w) /\ task'[w] = task[w]
      BY <2>2 DEF Goto, OthersKeep, TypeOK, WorkerType
    <3> QED
      BY <2>2, <3>1 DEF Quiet, Attempting, Owns, Publishes
  <2>3. ASSUME Write(w, "failed"), pc[w] \in {"load", "reauth", "revoked"}
        PROVE  Quiet(w)
    BY <2>3, WriteAccount DEF Quiet, Attempting, Owns, Publishes
  <2>5. ASSUME Write(w, "unconfirmed"), ~ Publishes(w)
        PROVE  Quiet(w)
    BY <2>5, WriteAccount DEF Quiet, Attempting, Owns, Publishes
  <2>4. Quiet(w)
    BY <1>3, <2>2, <2>3, <2>5, FinishAccount DEF LoadContext, MarkNeedsReauth, ReadProcessing, Return
  <2> QED
    BY <1>s, <2>4
<1>4. CASE GetToken(w)
  <2>1. Attempting(w) \/ ~ Publishes(w)
    BY <1>4 DEF GetToken, Attempting, Owns
  <2>2. ASSUME Goto(w, "send") \/ Goto(w, "reauth"), UNCHANGED local
        PROVE  Quiet(w)
    <3>1. OthersKeep(w) /\ task'[w] = task[w]
      BY <2>2 DEF Goto, OthersKeep, TypeOK, WorkerType
    <3> QED
      BY <2>1, <3>1 DEF Quiet, Attempting, Owns, Publishes
  <2>3. Quiet(w)
    BY <1>4, <1>k, <2>1, <2>2, CatchQuiet DEF GetToken
  <2> QED
    BY <1>s, <2>3
<1>6. CASE WritePending(w)
  <2>1. Enqueue(w, "poll", task[w].num + 1)
    BY <1>6 DEF WritePending
  <2>2. Quiet(w)
    BY <2>1, EnqueueAccount DEF Quiet
  <2> QED
    BY <1>s, <2>2
<1>7. CASE PollAgain(w)
  <2>1. CASE local[w].next >= MaxChecks
    <3>1. ~ Publishes(w)
      BY <1>7, <2>1, BoundsAssumption DEF PollAgain, Outgoing
    <3>2. PICK o : Write(w, o)
      BY <1>7, <2>1 DEF PollAgain
    <3>3. Quiet(w)
      BY <3>1, <3>2, WriteAccount DEF Quiet
    <3> QED
      BY <1>s, <3>3
  <2>2. CASE ~ (local[w].next >= MaxChecks)
    BY <1>s, <1>7, <2>2, FinishAccount DEF PollAgain
  <2> QED
    BY <2>1, <2>2
<1>8. CASE TryFails(w)
  <2>1. Publishes(w) /\ pc[w] \in {"token", "reauth"} => Attempting(w)
    BY DEF Attempting, Owns
  <2>2. "internal" \in Unknowns
    BY DEF Unknowns, Refusals, ErrorKinds
  <2>3. Quiet(w)
    BY <1>8, <1>k, <2>1, <2>2, CatchQuiet DEF TryFails
  <2> QED
    BY <1>s, <2>3
<1>9. CASE LoseLock(w)
  BY <1>s, <1>9 DEF LoseLock, Quiet, OthersKeep, Attempting, Owns, Publishes
<1> QED
  BY <1>1, <1>2, <1>3, <1>4, <1>6, <1>7, <1>8, <1>9 DEF WorkerStep, WorkerFault

LEMMA WorkerAccount ==
  ASSUME TypeOK, TypeOK', Outgoing, Accounting, NEW w \in Workers, WorkerStep(w) \/ WorkerFault(w)
  PROVE  Accounting'
<1>1. CASE WriteFinal(w) \/ WriteProcessing(w) \/ WriteRetry(w)
  BY <1>1, WriteFinalOutcome, WriteAgainOutcome, OutcomeAccount
<1> QED
  BY <1>1, WorkerQuiet, QuietAccount, ClaimAccount, SendAccount, SendCheckAccount

-----------------------------------------------------------------------------
(* The API and the maintenance.                                            *)

LEMMA SameWorkers ==
  ASSUME NEW ch, UNCHANGED <<pc, task, local>>
  PROVE  Sending(ch)' = Sending(ch)
BY DEF Sending, Attempting, Owns, Publishes, ChannelRow, Target

LEMMA NothingMoves ==
  ASSUME TypeOK, TypeOK', Accounting, UNCHANGED <<pc, task, local, status, asked, live, confirmed, slips>>
  PROVE  Accounting'
<1> SUFFICES ASSUME NEW ch \in Channels PROVE Balanced(ch)'
  BY DEF Accounting, Balanced
<1>1. Balanced(ch)
  BY DEF Accounting, Balanced
<1> QED
  BY <1>1, SameWorkers, SameRows, Counts, NothingNew

\* Rows that count as unsent change to another status that does.
LEMMA RestatusRows ==
  ASSUME UNCHANGED asked, NEW ch,
         NEW rows, rows \subseteq {t \in Rows : status[t] \in SCHEDULABLE \cup Waiting},
         NEW st \in {"draft", "scheduled", "canceled"},
         status' = [t \in Targets |-> IF t \in rows THEN st ELSE status[t]]
  PROVE  Open(ch)' = Open(ch) /\ Unsent(ch)' \subseteq Unsent(ch)
<1>1. Rows' = Rows
  BY DEF Rows
<1>2. Open(ch)' = Open(ch)
  BY <1>1 DEF Open
<1>3. ASSUME NEW t \in Unsent(ch)' PROVE t \in Unsent(ch)
  <2>1. t \in Rows /\ ChannelOf[t] = ch
    BY <1>1, <1>3 DEF Unsent
  <2>2. CASE t \in rows
    BY <2>1, <2>2 DEF Unsent, SCHEDULABLE, Waiting
  <2>3. CASE t \notin rows
    <3>1. status'[t] = status[t]
      BY <2>1, <2>3 DEF Rows
    <3> QED
      BY <1>3, <2>1, <3>1 DEF Unsent
  <2> QED
    BY <2>2, <2>3
<1> QED
  BY <1>2, <1>3

\* Nothing more may be sent, whatever has happened to the rows.
LEMMA FewerRows ==
  ASSUME TypeOK, TypeOK', Accounting, UNCHANGED <<pc, task, local, live, confirmed, slips>>,
         \A ch \in Channels : Open(ch)' = Open(ch) /\ Unsent(ch)' \subseteq Unsent(ch)
  PROVE  Accounting'
<1> SUFFICES ASSUME NEW ch \in Channels PROVE Balanced(ch)'
  BY DEF Accounting, Balanced
<1>1. Balanced(ch)
  BY DEF Accounting, Balanced
<1> QED
  BY <1>1, SameWorkers, Counts, NothingNew

\* New draft rows, at most one for each channel, and no other row.
LEMMA FreshRows ==
  ASSUME TypeOK, NEW st, NEW new \in SUBSET Targets, NEW cs, InsertTargets(st, new, cs),
         \A t \in Targets \ new : st[t] \in {"unused", "deleted"},
         UNCHANGED asked, NEW ch
  PROVE  Cardinality(Unsent(ch)') + Cardinality(Open(ch)') <= 1
<1>1. Rows' = new
  BY DEF InsertTargets, Rows
<1>2. \A t, u \in new : ChannelOf[t] = ChannelOf[u] => t = u
  BY DEF InsertTargets
<1>3. CASE \E t \in new : ChannelOf[t] = ch
  <2>1. PICK t \in new : ChannelOf[t] = ch
    BY <1>3
  <2>2. Unsent(ch)' \subseteq {t} /\ Open(ch)' = {}
    BY <1>1, <1>2, <2>1 DEF Unsent, Open
  <2>3. IsFiniteSet({t}) /\ Cardinality({t}) = 1 /\ Cardinality(Open(ch)') = 0
    BY <2>2, FS_Singleton, FS_EmptySet
  <2>4. Cardinality(Unsent(ch)') <= 1 /\ Cardinality(Unsent(ch)') \in Nat
    BY <2>2, <2>3, CountsFinite, NoMore, FS_CardinalityType
  <2> QED
    BY <2>3, <2>4
<1>4. CASE ~ \E t \in new : ChannelOf[t] = ch
  <2>1. Unsent(ch)' = {} /\ Open(ch)' = {ch}
    BY <1>1, <1>4 DEF Unsent, Open
  <2>2. Cardinality(Unsent(ch)') = 0
    BY <2>1, FS_EmptySet
  <2>3. Cardinality(Open(ch)') = 1
    BY <2>1, FS_Singleton
  <2> QED
    BY <2>2, <2>3
<1> QED
  BY <1>3, <1>4

LEMMA CreateAccount ==
  ASSUME TypeOK, TypeOK', Accounting, NEW c \in Calls, Create(c)
  PROVE  Accounting'
<1> SUFFICES ASSUME NEW ch \in Channels PROVE Balanced(ch)'
  BY DEF Accounting, Balanced
<1>1. Balanced(ch)
  BY DEF Accounting, Balanced
<1>2. /\ \A t \in Targets : status[t] = "unused"
      /\ UNCHANGED <<pc, task, local, asked, live, confirmed, slips>>
  BY DEF Create, workerVars, history
<1>3. PICK new \in SUBSET Targets : InsertTargets(status, new, {ChannelOf[t] : t \in new})
  BY DEF Create
<1>4. Cardinality(Unsent(ch)') + Cardinality(Open(ch)') <= 1
  BY <1>2, <1>3, FreshRows
<1>5. Open(ch) = {ch}
  BY <1>2 DEF Open, Rows
<1>6. Cardinality(Open(ch)) = 1
  BY <1>5, FS_Singleton
<1> QED
  BY <1>1, <1>2, <1>4, <1>6, SameWorkers, Counts DEF Balanced, MayShow

\* An edit deletes every row: a channel whose row it deletes had it counted, or a slip is.
LEMMA EditPays ==
  ASSUME TypeOK, NEW c \in Calls, EditTx(c), NEW ch \in Channels
  PROVE  Open(ch) = {ch} \/ Unsent(ch) # {} \/ slips'[ch] = slips[ch] + 1
<1>1. CASE Open(ch) # {}
  BY <1>1 DEF Open
<1>2. CASE Open(ch) = {}
  <2>1. PICK t \in Rows : ChannelOf[t] = ch
    BY <1>2 DEF Open
  <2>2. status[t] \in TargetStatus
    BY <2>1 DEF Rows, TypeOK, RowType, RowStatus
  <2>3. CASE status[t] \in MayBeSent
    BY <2>1, <2>3 DEF EditTx, Slip
  <2>4. CASE status[t] \notin MayBeSent
    BY <2>1, <2>2, <2>4 DEF Unsent, MayBeSent, TargetStatus
  <2> QED
    BY <2>3, <2>4
<1> QED
  BY <1>1, <1>2

LEMMA EditAccount ==
  ASSUME TypeOK, TypeOK', Accounting, NEW c \in Calls, EditTx(c)
  PROVE  Accounting'
<1> SUFFICES ASSUME NEW ch \in Channels PROVE Balanced(ch)'
  BY DEF Accounting, Balanced
<1>1. Balanced(ch)
  BY DEF Accounting, Balanced
<1>2. /\ Slip({t \in Rows : status[t] \in MayBeSent})
      /\ UNCHANGED <<pc, task, local, asked, live, confirmed>>
  BY DEF EditTx, workerVars
<1> DEFINE st == [t \in Targets |-> IF t \in Rows THEN "deleted" ELSE status[t]]
<1>3. PICK new \in SUBSET Targets : InsertTargets(st, new, api[c].chans)
  BY DEF EditTx
<1>4. \A t \in Targets \ new : st[t] \in {"unused", "deleted"}
  BY DEF Rows
<1>5. Cardinality(Unsent(ch)') + Cardinality(Open(ch)') <= 1
  BY <1>2, <1>3, <1>4, FreshRows
<1>6. slips'[ch] >= slips[ch]
  BY <1>2, Counts DEF Slip
<1>7. CASE slips'[ch] = slips[ch] + 1
  BY <1>1, <1>2, <1>5, <1>7, SameWorkers, Counts DEF Balanced, MayShow
<1>8. CASE Open(ch) = {ch}
  <2>1. Cardinality(Open(ch)) = 1
    BY <1>8, FS_Singleton
  <2> QED
    BY <1>1, <1>2, <1>5, <1>6, <2>1, SameWorkers, Counts DEF Balanced, MayShow
<1>9. CASE Unsent(ch) # {}
  <2>1. Cardinality(Unsent(ch)) # 0
    BY <1>9, CountsFinite, FS_EmptySet
  <2>2. Cardinality(Unsent(ch)) >= 1
    BY <2>1, Counts
  <2> QED
    BY <1>1, <1>2, <1>5, <1>6, <2>2, SameWorkers, Counts DEF Balanced, MayShow
<1> QED
  BY <1>7, <1>8, <1>9, EditPays

\* A retry puts back a row that counts as unsent, or one the user vouched for, or slips.
LEMMA RetryPays ==
  ASSUME TypeOK, NEW c \in Calls, RetryTx(c), NEW ch \in Channels
  PROVE  /\ Open(ch)' = Open(ch)
         /\ confirmed'[ch] >= confirmed[ch] /\ slips'[ch] >= slips[ch]
         /\ \/ Unsent(ch)' \subseteq Unsent(ch)
            \/ \E t : /\ Unsent(ch)' \subseteq Unsent(ch) \cup {t}
                      /\ \/ confirmed'[ch] = confirmed[ch] + 1
                         \/ slips'[ch] = slips[ch] + 1
<1>1. UNCHANGED asked /\ confirmed[ch] \in Nat /\ slips[ch] \in Nat
  BY DEF RetryTx, TypeOK, HistoryType
<1>2. CASE UNCHANGED <<status, confirmed, slips>>
  BY <1>1, <1>2, SameRows
<1>3. CASE ~ UNCHANGED <<status, confirmed, slips>>
  <2>1. PICK t \in Rows :
          /\ status' = [status EXCEPT ![t] = "scheduled"]
          /\ \/ /\ confirmed' = [confirmed EXCEPT ![ChannelOf[t]] = @ + 1]
                /\ UNCHANGED slips
             \/ Slip({t} \cap {u \in Rows : status[u] \in MayBeSent}) /\ UNCHANGED confirmed
    BY <1>3 DEF RetryTx
  <2>2. /\ Open(ch)' = Open(ch) /\ Unsent(ch)' \subseteq Unsent(ch) \cup {t}
        /\ ChannelOf[t] # ch => Unsent(ch)' \subseteq Unsent(ch)
    BY <1>1, <2>1, OneRow DEF TargetStatus
  <2>3. confirmed'[ch] >= confirmed[ch] /\ slips'[ch] >= slips[ch]
    <3>1. confirmed'[ch] = confirmed[ch] \/ confirmed'[ch] = confirmed[ch] + 1
      BY <2>1 DEF TypeOK, HistoryType
    <3>2. slips'[ch] = slips[ch] \/ slips'[ch] = slips[ch] + 1
      BY <2>1 DEF Slip
    <3> QED
      BY <1>1, <3>1, <3>2
  <2>4. ASSUME ~ (Unsent(ch)' \subseteq Unsent(ch))
        PROVE  confirmed'[ch] = confirmed[ch] + 1 \/ slips'[ch] = slips[ch] + 1
    <3>1. ChannelOf[t] = ch /\ t \notin Unsent(ch)
      BY <2>2, <2>4
    <3>2. status[t] \in TargetStatus
      BY DEF Rows, TypeOK, RowType, RowStatus
    <3>3. status[t] \in MayBeSent
      BY <3>1, <3>2 DEF Unsent, MayBeSent, TargetStatus
    <3> QED
      BY <2>1, <3>1, <3>3 DEF Slip, TypeOK, HistoryType
  <2> QED
    BY <2>2, <2>3, <2>4
<1> QED
  BY <1>2, <1>3

LEMMA RetryAccount ==
  ASSUME TypeOK, TypeOK', Accounting, NEW c \in Calls, RetryTx(c)
  PROVE  Accounting'
<1> SUFFICES ASSUME NEW ch \in Channels PROVE Balanced(ch)'
  BY DEF Accounting, Balanced
<1>1. Balanced(ch)
  BY DEF Accounting, Balanced
<1>2. UNCHANGED <<pc, task, local, live>>
  BY DEF RetryTx, workerVars
<1>3. CASE Unsent(ch)' \subseteq Unsent(ch)
  BY <1>1, <1>2, <1>3, RetryPays, SameWorkers, Counts, NothingNew
<1>4. CASE ~ (Unsent(ch)' \subseteq Unsent(ch))
  <2>1. PICK t : /\ Unsent(ch)' \subseteq Unsent(ch) \cup {t}
                 /\ \/ confirmed'[ch] = confirmed[ch] + 1
                    \/ slips'[ch] = slips[ch] + 1
    BY <1>4, RetryPays
  <2> QED
    BY <1>1, <1>2, <2>1, RetryPays, SameWorkers, Counts, OneMoreRow
<1> QED
  BY <1>3, <1>4

\* The recovery makes a row one that nobody sends again unasked.
LEMMA RecoverRows ==
  ASSUME TypeOK, RecoverWrite, NEW ch
  PROVE  Open(ch)' = Open(ch) /\ Unsent(ch)' \subseteq Unsent(ch)
<1>1. UNCHANGED asked
  BY DEF RecoverWrite, history
<1>2. CASE UNCHANGED status
  BY <1>1, <1>2, SameRows
<1>3. CASE ~ UNCHANGED status
  <2>1. PICK t \in Rows : status' = [status EXCEPT ![t] = "unconfirmed"]
    BY <1>3 DEF RecoverWrite
  <2> QED
    BY <1>1, <2>1, OneRow DEF TargetStatus
<1> QED
  BY <1>2, <1>3

LEMMA AccountingStep ==
  TypeOK /\ Outgoing /\ Accounting /\ [Next]_vars => Outgoing' /\ Accounting'
<1> SUFFICES ASSUME TypeOK, Outgoing, Accounting, [Next]_vars PROVE Outgoing' /\ Accounting'
  OBVIOUS
<1> USE DEF postVars, rowVars, workerVars, history
<1>t. TypeOK'
  BY TypeStep
<1>o. ASSUME UNCHANGED <<pc, task, local>> PROVE Outgoing'
  BY <1>o DEF Outgoing, Publishes
<1>1. ASSUME UserStep PROVE UNCHANGED <<pc, task, local>> /\ Accounting'
  <2>1. UNCHANGED <<pc, task, local>>
    BY <1>1 DEF UserStep, Create, ScheduleRead, EditRead, Unschedule, RetryRead, Remove,
                Disconnect, Reconnect
  <2>2. ASSUME NEW c \in Calls, Unschedule(c) PROVE Accounting'
    BY <1>t, <2>2, RestatusRows, FewerRows DEF Unschedule, SCHEDULABLE, Waiting
  <2>3. ASSUME NEW c \in Calls, Remove(c) PROVE Accounting'
    BY <1>t, <2>3, RestatusRows, FewerRows DEF Remove, SCHEDULABLE, Waiting
  <2>4. ASSUME NEW ch \in Channels, Disconnect(ch) PROVE Accounting'
    BY <1>t, <2>4, RestatusRows, FewerRows DEF Disconnect, SCHEDULABLE, Waiting
  <2>5. ASSUME NEW c \in Calls, ScheduleRead(c) \/ EditRead(c) \/ RetryRead(c) PROVE Accounting'
    BY <1>t, <2>5, NothingMoves DEF ScheduleRead, EditRead, RetryRead
  <2>6. ASSUME NEW ch \in Channels, Reconnect(ch) PROVE Accounting'
    BY <1>t, <2>6, NothingMoves DEF Reconnect
  <2> QED
    BY <1>1, <1>t, <2>1, <2>2, <2>3, <2>4, <2>5, <2>6, CreateAccount DEF UserStep
<1>2. ASSUME NEW c \in Calls, ApiStep(c) \/ ApiFault(c)
      PROVE  UNCHANGED <<pc, task, local>> /\ Accounting'
  <2>1. UNCHANGED <<pc, task, local>>
    BY <1>2 DEF ApiStep, ApiFault, ScheduleTx, EditTx, RetryTx, CancelJob, EnqueueJob,
                QueueCallFails, ApiCrash
  <2>2. CASE ScheduleTx(c)
    BY <1>t, <2>2, RestatusRows, FewerRows DEF ScheduleTx, SCHEDULABLE, Waiting
  <2>3. CASE CancelJob(c) \/ EnqueueJob(c) \/ QueueCallFails(c) \/ ApiCrash(c)
    BY <1>t, <2>3, NothingMoves DEF CancelJob, EnqueueJob, QueueCallFails, ApiCrash
  <2> QED
    BY <1>2, <1>t, <2>1, <2>2, <2>3, EditAccount, RetryAccount DEF ApiStep, ApiFault
<1>3. ASSUME NEW w \in Workers, WorkerStep(w) \/ WorkerFault(w) PROVE Outgoing' /\ Accounting'
  BY <1>3, <1>t, OutgoingWorker, WorkerAccount
<1>4. CASE \/ RecoverStalled \/ SweepRead \/ SweepEnsure \/ RecoverRead \/ RecoverEarly
           \/ MaintenanceCrash \/ Expire \/ RedisLoss \/ UNCHANGED vars
  <2>1. UNCHANGED <<pc, task, local, status, asked, live, confirmed, slips>>
    BY <1>4 DEF RecoverStalled, SweepRead, SweepEnsure, RecoverRead, RecoverEarly,
                MaintenanceCrash, Expire, RedisLoss, vars
  <2> QED
    BY <1>o, <1>t, <2>1, NothingMoves
<1>5. CASE RecoverWrite
  <2>1. UNCHANGED <<pc, task, local, live, confirmed, slips>>
    BY <1>5 DEF RecoverWrite
  <2> QED
    BY <1>5, <1>o, <1>t, <2>1, RecoverRows, FewerRows
<1> QED
  BY <1>1, <1>2, <1>3, <1>4, <1>5, <1>o DEF Next, Maintenance

LEMMA AccountingInit == Init => Outgoing /\ Accounting
<1> SUFFICES ASSUME Init PROVE Outgoing /\ Accounting
  OBVIOUS
<1>1. Outgoing
  BY DEF Init, Outgoing
<1> SUFFICES ASSUME NEW ch \in Channels PROVE Balanced(ch)
  BY <1>1 DEF Accounting, Balanced
<1>2. Sending(ch) = {} /\ Unsent(ch) = {} /\ Open(ch) = {ch}
  BY DEF Init, Sending, Attempting, Owns, Unsent, Open, Rows
<1>3. MayShow(ch) = 1
  BY <1>2, FS_EmptySet, FS_Singleton DEF MayShow
<1> QED
  BY <1>3 DEF Init, Balanced

\* Never publish twice, for any number of rows, channels, workers and requests: a channel
\* shows the post once, once more for every retry a user confirmed, once more for every slip.
THEOREM PostsAccounted == Spec => []Accounting
<1>1. Init => TypeOK /\ Outgoing /\ Accounting
  BY InitType, AccountingInit
<1>2. TypeOK /\ Outgoing /\ Accounting /\ [Next]_vars => TypeOK' /\ Outgoing' /\ Accounting'
  BY TypeStep, AccountingStep
<1> QED
  BY <1>1, <1>2, PTL DEF Spec

-----------------------------------------------------------------------------
(* What users are told is unsent.  A row that counts as unsent leaves      *)
(* nothing for a post shown or an attempt in progress.                     *)

\* With nothing confirmed and no slip, what counts as unsent or open is all there is.
LEMMA NothingElse ==
  ASSUME TypeOK, Accounting, NEW ch \in Channels, confirmed[ch] + slips[ch] = 0
  PROVE  /\ Cardinality(Unsent(ch)) + Cardinality(Open(ch)) <= 1
         /\ Unsent(ch) # {} => live[ch] = 0 /\ Sending(ch) = {}
<1>1. /\ IsFiniteSet(Sending(ch)) /\ IsFiniteSet(Unsent(ch)) /\ IsFiniteSet(Open(ch))
      /\ Cardinality(Sending(ch)) \in Nat /\ Cardinality(Unsent(ch)) \in Nat
      /\ Cardinality(Open(ch)) \in Nat
  BY CountsFinite, FS_CardinalityType
<1>2. live[ch] \in Nat /\ confirmed[ch] \in Nat /\ slips[ch] \in Nat
  BY DEF TypeOK, HistoryType
<1>3. live[ch] + Cardinality(Sending(ch)) + Cardinality(Unsent(ch)) + Cardinality(Open(ch)) <= 1
  BY <1>1, <1>2 DEF Accounting, MayShow
<1>4. ASSUME Unsent(ch) # {} PROVE Cardinality(Unsent(ch)) # 0
  BY <1>1, <1>4, FS_EmptySet
<1>5. ASSUME Cardinality(Sending(ch)) = 0 PROVE Sending(ch) = {}
  BY <1>1, <1>5, FS_EmptySet
<1>6. Cardinality(Unsent(ch)) + Cardinality(Open(ch)) <= 1
  BY <1>1, <1>2, <1>3
<1>7. ASSUME Cardinality(Unsent(ch)) # 0 PROVE live[ch] = 0 /\ Cardinality(Sending(ch)) = 0
  BY <1>1, <1>2, <1>3, <1>7
<1> QED
  BY <1>4, <1>5, <1>6, <1>7

\* Whatever the platforms, such a channel shows nothing and nobody is about to show it more.
THEOREM UnsentNotShown ==
  Spec => [](\A t \in Rows : LET ch == ChannelOf[t] IN
               confirmed[ch] + slips[ch] = 0 /\ status[t] \in SCHEDULABLE
                 => live[ch] = 0 /\ Sending(ch) = {})
<1>1. TypeOK /\ Accounting =>
        \A t \in Rows : LET ch == ChannelOf[t] IN
          confirmed[ch] + slips[ch] = 0 /\ status[t] \in SCHEDULABLE
            => live[ch] = 0 /\ Sending(ch) = {}
  <2> SUFFICES ASSUME TypeOK, Accounting, NEW t \in Rows, status[t] \in SCHEDULABLE,
                      confirmed[ChannelOf[t]] + slips[ChannelOf[t]] = 0
               PROVE  live[ChannelOf[t]] = 0 /\ Sending(ChannelOf[t]) = {}
    OBVIOUS
  <2>1. ChannelOf[t] \in Channels
    BY TargetsAssumption DEF Rows
  <2>2. t \in Unsent(ChannelOf[t])
    BY DEF Unsent, SCHEDULABLE
  <2> QED
    BY <2>1, <2>2, NothingElse
<1> QED
  BY <1>1, TypeCorrect, PostsAccounted, PTL

\* Worker w runs an attempt on channel ch, or is about to write its outcome.
OwnsOn(w, ch) == Owns(w) /\ ChannelRow(w) = ch

\* The strengthening: with nothing confirmed and no slip, one attempt at a time, and none
\* beside a row that may be sent again.
OneAttempt ==
  \A ch \in Channels : confirmed[ch] + slips[ch] = 0 =>
    \A w \in Workers : OwnsOn(w, ch) =>
      /\ Unsent(ch) = {} /\ Open(ch) = {}
      /\ \A u \in Workers : OwnsOn(u, ch) => u = w

\* Where no platform publishes in a later check, no publish job polls.
NoPolls ==
  \A w \in Workers : /\ Publishes(w) => pc[w] # "poll"
                     /\ pc[w] = "write" => local[w].out # "processing"

LEMMA NoPollsStep ==
  ASSUME Containers = {}, TypeOK, Outgoing, NoPolls, [Next]_vars
  PROVE  NoPolls'
<1> USE DEF workerVars
<1>1. ASSUME UNCHANGED <<pc, task, local>> PROVE NoPolls'
  BY <1>1 DEF NoPolls, Publishes
<1>2. ASSUME NEW w \in Workers, WorkerStep(w) \/ WorkerFault(w) PROVE NoPolls'
  <2>k. ASSUME OthersKeep(w),
               task'[w].kind = "publish" => pc'[w] # "poll",
               pc'[w] = "write" => local'[w].out # "processing"
        PROVE  NoPolls'
    BY <2>k DEF NoPolls, OthersKeep, Publishes
  <2>f. ASSUME NEW q, Finish(w, q) PROVE NoPolls'
    BY <2>f, <2>k, FinishAccount
  <2>w. ASSUME NEW o \in Outcomes \ {"processing"}, Write(w, o) PROVE NoPolls'
    BY <2>w, <2>k, WriteAccount
  <2>g. ASSUME NEW p, p \notin {"poll", "write"}, Goto(w, p) PROVE OthersKeep(w) => NoPolls'
    <3>1. pc'[w] = p
      BY <2>g DEF Goto, TypeOK, WorkerType
    <3> QED
      BY <2>g, <2>k, <3>1
  <2>l. ASSUME NEW p, Goto(w, p), UNCHANGED local \/ \E l : local' = [local EXCEPT ![w] = l]
        PROVE  OthersKeep(w)
    BY <2>l DEF Goto, OthersKeep, TypeOK, WorkerType
  <2>c. ASSUME NEW kind \in ErrorKinds, Catch(w, kind) PROVE NoPolls'
    <3>1. CASE \E o \in Outcomes \ {"processing"} : Write(w, o)
      BY <2>w, <3>1
    <3>2. CASE Enqueue(w, "repoll", task[w].num + 1)
      BY <2>k, <3>2, EnqueueAccount
    <3>3. CASE (Goto(w, "revoked") /\ UNCHANGED local)
               \/ (Goto(w, "token") /\ local' = [local EXCEPT ![w].fresh = TRUE])
      <4>1. OthersKeep(w)
        BY <3>3 DEF Goto, OthersKeep, TypeOK, WorkerType
      <4> QED
        BY <2>g, <3>3, <4>1
    <3> QED
      BY <2>c, <3>1, <3>2, <3>3, CatchPublish, CatchCheck DEF Outcomes
  <2>e. \A kind \in {"transient", "rate_limited", "invalid_request", "internal"} \cup Refusals
                    \cup Unknowns : kind \in ErrorKinds
    BY DEF Refusals, Unknowns, ErrorKinds, ProviderErrors
  <2>1. CASE StartJob(w)
    <3>1. OthersKeep(w) /\ pc'[w] = "claim"
      BY <2>1 DEF StartJob, OthersKeep, TypeOK, WorkerType
    <3> QED
      BY <2>k, <3>1
  <2>2. CASE Claim(w)
    <3>1. OthersKeep(w) /\ pc'[w] = "load"
      BY <2>2 DEF Claim, Goto, OthersKeep, TypeOK, WorkerType
    <3> QED
      BY <2>k, <3>1
  <2>3. CASE SkipStale(w) \/ WriteFinal(w) \/ WriteLost(w) \/ EnqueueRetry(w) \/ CallFails(w) \/ Crash(w)
    BY <2>3, <2>f DEF SkipStale, WriteFinal, WriteLost, EnqueueRetry, CallFails, Crash, Return, Throw
  <2>4. CASE LoadContext(w) \/ MarkNeedsReauth(w) \/ ReadProcessing(w)
    BY <2>4, <2>w, <2>g, <2>l, <2>f DEF LoadContext, MarkNeedsReauth, ReadProcessing, Return, Outcomes
  <2>5. CASE GetToken(w)
    BY <2>5, <2>g, <2>l, <2>e, <2>c DEF GetToken
  <2>6. CASE Send(w) \/ SendCheck(w)
    BY <2>6, <2>w, <2>e, <2>c DEF Send, SendCheck, Outcomes
  <2>7. CASE WriteProcessing(w)
    BY <2>7 DEF WriteProcessing, NoPolls
  <2>8. CASE WritePending(w)
    <3>1. ~ Publishes(w) /\ Enqueue(w, "poll", task[w].num + 1)
      BY <2>8 DEF WritePending, Outgoing
    <3> QED
      BY <2>k, <3>1, EnqueueAccount DEF Publishes
  <2>9. CASE WriteRetry(w)
    <3>1. PICK n : Enqueue(w, "enqueue", n)
      BY <2>9 DEF WriteRetry
    <3> QED
      BY <2>k, <3>1, EnqueueAccount
  <2>10. CASE PollAgain(w)
    BY <2>10, <2>w, <2>f DEF PollAgain, Outcomes
  <2>11. CASE TryFails(w)
    BY <2>11, <2>e, <2>c DEF TryFails
  <2>12. CASE LoseLock(w)
    BY <1>1, <2>12 DEF LoseLock
  <2> QED
    BY <1>2, <2>1, <2>2, <2>3, <2>4, <2>5, <2>6, <2>7, <2>8, <2>9, <2>10, <2>11, <2>12
       DEF WorkerStep, WorkerFault
<1>3. ASSUME UserStep PROVE UNCHANGED <<pc, task, local>>
  BY <1>3 DEF UserStep, Create, ScheduleRead, EditRead, Unschedule, RetryRead, Remove,
              Disconnect, Reconnect
<1>4. ASSUME NEW c \in Calls, ApiStep(c) \/ ApiFault(c) PROVE UNCHANGED <<pc, task, local>>
  BY <1>4 DEF ApiStep, ApiFault, ScheduleTx, EditTx, RetryTx, CancelJob, EnqueueJob,
              QueueCallFails, ApiCrash
<1>5. CASE \/ RecoverStalled \/ Maintenance \/ RecoverEarly \/ MaintenanceCrash \/ Expire
           \/ RedisLoss \/ UNCHANGED vars
  BY <1>1, <1>5 DEF RecoverStalled, Maintenance, SweepRead, SweepEnsure, RecoverRead,
                RecoverWrite, RecoverEarly, MaintenanceCrash, Expire, RedisLoss, vars
<1> QED
  BY <1>1, <1>2, <1>3, <1>4, <1>5 DEF Next

\* Then the workers that hold an attempt (Holds, in PublishingProofs) are those that own it.
LEMMA OwnersHold ==
  ASSUME TypeOK, Outgoing, NoPolls, NEW w \in Workers
  PROVE  Owns(w) <=> Holds(w)
BY DEF Owns, Holds, Outgoing, NoPolls, TypeOK, WorkerType, WorkerPc

\* No step gives a channel back something to send, but one that is confirmed or a slip, and
\* one by which an attempt ends.
NoRoom(ch) ==
  /\ confirmed'[ch] + slips'[ch] = 0 => confirmed[ch] + slips[ch] = 0
  /\ confirmed'[ch] + slips'[ch] = 0 /\ Unsent(ch) = {} /\ Open(ch) = {} =>
       \/ Unsent(ch)' = {} /\ Open(ch)' = {}
       \/ \E w \in Workers : OwnsOn(w, ch) /\ ~ Owns(w)'

LEMMA SameHistory ==
  ASSUME NEW ch, UNCHANGED <<confirmed, slips>>,
         Open(ch)' = Open(ch) /\ Unsent(ch)' \subseteq Unsent(ch)
  PROVE  NoRoom(ch)
BY DEF NoRoom

LEMMA OutcomeRoom ==
  ASSUME TypeOK, NEW w \in Workers, NEW st \in TargetStatus, Outcome(w, st), NEW ch \in Channels
  PROVE  NoRoom(ch)
<1>1. /\ Open(ch)' = Open(ch) /\ Unsent(ch)' \subseteq Unsent(ch) \cup {Target(w)}
      /\ ChannelOf[Target(w)] # ch => Unsent(ch)' \subseteq Unsent(ch)
      /\ st \in {"published", "unconfirmed"} => Unsent(ch)' \subseteq Unsent(ch)
  BY OneRow DEF Outcome
<1>2. confirmed'[ch] = confirmed[ch] /\ confirmed[ch] \in Nat /\ slips[ch] \in Nat
  BY DEF Outcome, TypeOK, HistoryType
<1>3. slips'[ch] = slips[ch] \/ slips'[ch] = slips[ch] + 1
  BY WorkerRows DEF Outcome, TypeOK, HistoryType
<1>4. CASE Unsent(ch)' \subseteq Unsent(ch)
  BY <1>1, <1>2, <1>3, <1>4 DEF NoRoom
<1>5. CASE ChannelRow(w) = ch
  <2>1. CASE Attempting(w)
    <3>1. OwnsOn(w, ch) /\ ~ Owns(w)'
      BY <1>5, <2>1 DEF OwnsOn, Attempting, Outcome
    <3> QED
      BY <1>2, <1>3, <3>1 DEF NoRoom
  <2>2. CASE Target(w) \in Unsent(ch)
    BY <1>1, <1>4, <2>2
  <2>3. CASE slips' = [slips EXCEPT ![ChannelRow(w)] = @ + 1]
    <3>1. slips'[ch] = slips[ch] + 1
      BY <1>5, <2>3 DEF TypeOK, HistoryType
    <3>2. confirmed'[ch] + slips'[ch] # 0
      BY <1>2, <3>1
    <3> QED
      BY <3>2 DEF NoRoom
  <2> QED
    BY <1>1, <1>4, <1>5, <2>1, <2>2, <2>3 DEF Outcome
<1> QED
  BY <1>1, <1>4, <1>5, WorkerRows

LEMMA WorkerRoom ==
  ASSUME TypeOK, Outgoing, NEW w \in Workers, WorkerStep(w) \/ WorkerFault(w), ~ Claim(w),
         NEW ch \in Channels
  PROVE  NoRoom(ch)
<1> USE DEF postVars, rowVars, history
<1>1. CASE WriteFinal(w) \/ WriteProcessing(w) \/ WriteRetry(w)
  BY <1>1, WriteFinalOutcome, WriteAgainOutcome, OutcomeRoom
<1>2. CASE SendCheck(w)
  <2>1. UNCHANGED <<status, confirmed>>
    BY <1>2 DEF SendCheck
  <2>2. \A t \in Targets : asked[t] => asked'[t]
    BY <1>2 DEF SendCheck, TypeOK, HistoryType
  <2>3. Open(ch)' = Open(ch) /\ Unsent(ch)' \subseteq Unsent(ch)
    BY <2>1, <2>2 DEF Open, Unsent, Rows
  <2>4. slips'[ch] = slips[ch] \/ slips'[ch] = slips[ch] + 1
    BY <1>2, WorkerRows DEF SendCheck, SlipAt, TypeOK, HistoryType
  <2>5. confirmed[ch] \in Nat /\ slips[ch] \in Nat
    BY DEF TypeOK, HistoryType
  <2> QED
    BY <2>1, <2>3, <2>4, <2>5 DEF NoRoom
<1>3. CASE ~ (WriteFinal(w) \/ WriteProcessing(w) \/ WriteRetry(w) \/ SendCheck(w))
  <2>1. UNCHANGED <<status, asked, confirmed, slips>>
    BY <1>3 DEF WorkerStep, WorkerFault, StartJob, SkipStale, LoadContext, ReadProcessing,
                GetToken, MarkNeedsReauth, Send, WritePending, WriteLost, EnqueueRetry,
                PollAgain, CallFails, TryFails, Crash, LoseLock
  <2> QED
    BY <2>1, SameRows, SameHistory
<1> QED
  BY <1>1, <1>2, <1>3

LEMMA ApiRoom ==
  ASSUME TypeOK, UserStep \/ \E c \in Calls : ApiStep(c) \/ ApiFault(c), NEW ch \in Channels
  PROVE  NoRoom(ch)
<1> USE DEF postVars, rowVars, history
<1>n. confirmed[ch] \in Nat /\ slips[ch] \in Nat
  BY DEF TypeOK, HistoryType
<1>1. ASSUME NEW c \in Calls, Create(c) PROVE NoRoom(ch)
  <2>1. Open(ch) = {ch}
    BY <1>1 DEF Create, Open, Rows
  <2> QED
    BY <1>1, <2>1 DEF Create, NoRoom
<1>2. ASSUME NEW c \in Calls, Unschedule(c) PROVE NoRoom(ch)
  BY <1>2, RestatusRows, SameHistory DEF Unschedule, SCHEDULABLE, Waiting
<1>3. ASSUME NEW c \in Calls, Remove(c) PROVE NoRoom(ch)
  BY <1>3, RestatusRows, SameHistory DEF Remove, SCHEDULABLE, Waiting
<1>4. ASSUME NEW k \in Channels, Disconnect(k) PROVE NoRoom(ch)
  BY <1>4, RestatusRows, SameHistory DEF Disconnect, SCHEDULABLE, Waiting
<1>5. ASSUME NEW c \in Calls, ScheduleTx(c) PROVE NoRoom(ch)
  BY <1>5, RestatusRows, SameHistory DEF ScheduleTx, SCHEDULABLE, Waiting
<1>6. ASSUME NEW c \in Calls, EditTx(c) PROVE NoRoom(ch)
  <2>1. confirmed'[ch] = confirmed[ch]
    BY <1>6 DEF EditTx
  <2>2. slips'[ch] = slips[ch] \/ slips'[ch] = slips[ch] + 1
    BY <1>6 DEF EditTx, Slip
  <2>3. confirmed'[ch] + slips'[ch] = 0 => slips'[ch] = slips[ch] /\ confirmed[ch] + slips[ch] = 0
    BY <1>n, <2>1, <2>2
  <2>4. Open(ch) = {ch} \/ Unsent(ch) # {} \/ slips'[ch] = slips[ch] + 1
    BY <1>6, EditPays
  <2>5. slips'[ch] = slips[ch] + 1 => slips'[ch] # slips[ch]
    BY <1>n
  <2> QED
    BY <2>3, <2>4, <2>5 DEF NoRoom
<1>7. ASSUME NEW c \in Calls, RetryTx(c) PROVE NoRoom(ch)
  <2>1. /\ Open(ch)' = Open(ch)
        /\ confirmed'[ch] >= confirmed[ch] /\ slips'[ch] >= slips[ch]
        /\ \/ Unsent(ch)' \subseteq Unsent(ch)
           \/ confirmed'[ch] = confirmed[ch] + 1 \/ slips'[ch] = slips[ch] + 1
    BY <1>7, RetryPays
  <2>2. confirmed'[ch] \in Nat /\ slips'[ch] \in Nat
    <3>1. TypeOK'
      BY <1>7, TypeStep DEF Next, ApiStep
    <3> QED
      BY <3>1 DEF TypeOK, HistoryType
  <2>3. confirmed'[ch] + slips'[ch] = 0 =>
          /\ confirmed[ch] + slips[ch] = 0
          /\ confirmed'[ch] # confirmed[ch] + 1 /\ slips'[ch] # slips[ch] + 1
    BY <1>n, <2>1, <2>2
  <2> QED
    BY <2>1, <2>3 DEF NoRoom
<1>8. ASSUME UNCHANGED <<status, asked, confirmed, slips>> PROVE NoRoom(ch)
  BY <1>8, SameRows, SameHistory
<1> QED
  BY <1>1, <1>2, <1>3, <1>4, <1>5, <1>6, <1>7, <1>8
     DEF UserStep, ApiStep, ApiFault, ScheduleRead, EditRead, RetryRead, Reconnect, CancelJob,
         EnqueueJob, QueueCallFails, ApiCrash

LEMMA StepRoom ==
  ASSUME TypeOK, Outgoing, [Next]_vars, \A w \in Workers : ~ Claim(w), NEW ch \in Channels
  PROVE  NoRoom(ch)
<1> USE DEF postVars, rowVars, history
<1>1. CASE UserStep \/ \E c \in Calls : ApiStep(c) \/ ApiFault(c)
  BY <1>1, ApiRoom
<1>2. CASE \E w \in Workers : WorkerStep(w) \/ WorkerFault(w)
  BY <1>2, WorkerRoom
<1>3. CASE RecoverWrite
  BY <1>3, RecoverRows, SameHistory DEF RecoverWrite
<1>4. CASE \/ RecoverStalled \/ SweepRead \/ SweepEnsure \/ RecoverRead \/ RecoverEarly
           \/ MaintenanceCrash \/ Expire \/ RedisLoss \/ UNCHANGED vars
  <2>1. UNCHANGED <<status, asked, confirmed, slips>>
    BY <1>4 DEF RecoverStalled, SweepRead, SweepEnsure, RecoverRead, RecoverEarly,
                MaintenanceCrash, Expire, RedisLoss, vars
  <2> QED
    BY <2>1, SameRows, SameHistory
<1> QED
  BY <1>1, <1>2, <1>3, <1>4 DEF Next, Maintenance

\* A claim takes the one row that waits, so there was no attempt and there is nothing else.
LEMMA ClaimsAlone ==
  ASSUME TypeOK, Accounting, OneAttempt, NEW w \in Workers, Claim(w)
  PROVE  OneAttempt'
<1> DEFINE t == Target(w)
<1>1. /\ t \in Rows /\ status[t] \in Waiting /\ status' = [status EXCEPT ![t] = "publishing"]
      /\ UNCHANGED <<asked, confirmed, slips, task>>
  BY WorkerRows DEF Claim, Waiting, Rows, history, Goto
<1>2. OthersKeep(w) /\ pc[w] = "claim"
  BY DEF Claim, Goto, OthersKeep, TypeOK, WorkerType
<1>3. \A u \in Workers, ch \in Channels : u # w => (OwnsOn(u, ch)' <=> OwnsOn(u, ch))
  BY <1>1, <1>2 DEF OwnsOn, Owns, Publishes, ChannelRow, Target, OthersKeep
<1>4. ~ Owns(w) /\ ChannelRow(w)' = ChannelRow(w)
  BY <1>1, <1>2 DEF Owns, ChannelRow, Target
<1> SUFFICES ASSUME NEW ch \in Channels, confirmed[ch] + slips[ch] = 0,
                    NEW u \in Workers, OwnsOn(u, ch)'
             PROVE  /\ Unsent(ch)' = {} /\ Open(ch)' = {}
                    /\ \A v \in Workers : OwnsOn(v, ch)' => v = u
  BY <1>1 DEF OneAttempt
<1>5. /\ Open(ch)' = Open(ch) /\ Unsent(ch)' \subseteq Unsent(ch) \ {t}
  BY <1>1, OneRow DEF TargetStatus
<1>6. CASE ChannelRow(w) = ch
  <2>1. t \in Unsent(ch)
    BY <1>1, <1>6, WorkerRows DEF Unsent, Waiting
  <2>2. \A v \in Workers : ~ OwnsOn(v, ch)
    BY <2>1 DEF OneAttempt
  <2>3. \A v \in Workers : OwnsOn(v, ch)' => v = w
    BY <1>3, <2>2
  <2>4. /\ Cardinality(Unsent(ch)) + Cardinality(Open(ch)) <= 1
        /\ Cardinality(Unsent(ch)) \in Nat /\ Cardinality(Open(ch)) \in Nat
        /\ IsFiniteSet(Unsent(ch)) /\ IsFiniteSet(Open(ch)) /\ IsFiniteSet(Unsent(ch)')
    BY NothingElse, CountsFinite, FS_CardinalityType
  <2>5. Cardinality(Unsent(ch)') + 1 <= Cardinality(Unsent(ch)) /\ Cardinality(Unsent(ch)') \in Nat
    BY <1>5, <2>1, <2>4, OneLess, FS_CardinalityType
  <2>6. Cardinality(Unsent(ch)') = 0 /\ Cardinality(Open(ch)) = 0
    BY <2>4, <2>5
  <2>7. Unsent(ch)' = {} /\ Open(ch) = {}
    BY <2>4, <2>6, FS_EmptySet
  <2> QED
    BY <1>5, <2>3, <2>7
<1>7. CASE ChannelRow(w) # ch
  <2>1. \A v \in Workers : OwnsOn(v, ch)' => OwnsOn(v, ch)
    BY <1>3, <1>4, <1>7 DEF OwnsOn
  <2>2. /\ Unsent(ch) = {} /\ Open(ch) = {}
        /\ \A v \in Workers : OwnsOn(v, ch) => v = u
    BY <2>1 DEF OneAttempt
  <2> QED
    BY <1>5, <2>1, <2>2
<1> QED
  BY <1>6, <1>7

LEMMA OneAttemptStep ==
  ASSUME TypeOK, TypeOK', Outgoing, Outgoing', NoPolls, NoPolls', Accounting, OneAttempt, [Next]_vars
  PROVE  OneAttempt'
<1>1. CASE \E w \in Workers : Claim(w)
  BY <1>1, ClaimsAlone
<1>2. CASE \A w \in Workers : ~ Claim(w)
  <2>1. \A w \in Workers : /\ Owns(w) <=> Holds(w)
                           /\ Owns(w)' <=> Holds(w)'
    BY OwnersHold DEF Owns, Holds, Outgoing, NoPolls, TypeOK, WorkerType, WorkerPc
  <2>2. KeepsOwners
    BY <1>2, StepKeepsOwners
  <2>3. \A w \in Workers : Owns(w)' => Owns(w) /\ task'[w] = task[w]
    BY <2>1, <2>2 DEF KeepsOwners
  <2>4. \A w \in Workers, ch \in Channels : OwnsOn(w, ch)' => OwnsOn(w, ch)
    BY <2>3 DEF OwnsOn, ChannelRow, Target
  <2> SUFFICES ASSUME NEW ch \in Channels, confirmed'[ch] + slips'[ch] = 0,
                      NEW w \in Workers, OwnsOn(w, ch)'
               PROVE  /\ Unsent(ch)' = {} /\ Open(ch)' = {}
                      /\ \A u \in Workers : OwnsOn(u, ch)' => u = w
    BY DEF OneAttempt
  <2>5. NoRoom(ch)
    BY <1>2, StepRoom
  <2>6. /\ Unsent(ch) = {} /\ Open(ch) = {}
        /\ \A u \in Workers : OwnsOn(u, ch) => u = w
    BY <2>4, <2>5 DEF NoRoom, OneAttempt
  <2>7. Owns(w)'
    BY DEF OwnsOn
  <2> QED
    BY <2>4, <2>5, <2>6, <2>7 DEF NoRoom
<1> QED
  BY <1>1, <1>2

\* With nothing confirmed and no slip, a row that can be sent again leaves no attempt.
LEMMA OneAttemptImplies ==
  ASSUME TypeOK, Accounting, OneAttempt
  PROVE  UnsentIsUnsent
<1> SUFFICES ASSUME NEW t \in Rows, status[t] \in SCHEDULABLE,
                    confirmed[ChannelOf[t]] + slips[ChannelOf[t]] = 0
             PROVE  /\ live[ChannelOf[t]] = 0
                    /\ \A w \in Workers : ~ (Owns(w) /\ ChannelRow(w) = ChannelOf[t])
  BY DEF UnsentIsUnsent
<1>1. ChannelOf[t] \in Channels
  BY TargetsAssumption DEF Rows
<1>2. t \in Unsent(ChannelOf[t])
  BY DEF Unsent, SCHEDULABLE
<1> QED
  BY <1>1, <1>2, NothingElse DEF OneAttempt, OwnsOn

\* What users are told is unsent is unsent, for any number of rows, workers and requests,
\* where the platforms publish at once.  (Where one publishes in a later check, an attempt
\* whose enqueueing of that check fails is still to be written as unconfirmed, and a check
\* left from an earlier attempt can fail the row meanwhile.)
THEOREM UnsentStaysUnsent == ASSUME Containers = {} PROVE Spec => []UnsentIsUnsent
<1>1. Init => TypeOK /\ Outgoing /\ NoPolls /\ Accounting /\ OneAttempt
  <2>1. Init => NoPolls /\ OneAttempt
    BY DEF Init, NoPolls, OneAttempt, OwnsOn, Owns
  <2> QED
    BY <2>1, InitType, AccountingInit
<1>2. /\ TypeOK /\ Outgoing /\ NoPolls /\ Accounting /\ OneAttempt
      /\ [Next]_vars
      => TypeOK' /\ Outgoing' /\ NoPolls' /\ Accounting' /\ OneAttempt'
  <2> SUFFICES ASSUME TypeOK, Outgoing, NoPolls, Accounting, OneAttempt, [Next]_vars
               PROVE  TypeOK' /\ Outgoing' /\ NoPolls' /\ Accounting' /\ OneAttempt'
    OBVIOUS
  <2>1. TypeOK' /\ Outgoing' /\ Accounting'
    BY TypeStep, AccountingStep
  <2>2. NoPolls'
    BY NoPollsStep
  <2> QED
    BY <2>1, <2>2, OneAttemptStep
<1>3. TypeOK /\ Accounting /\ OneAttempt => UnsentIsUnsent
  BY OneAttemptImplies
<1> QED
  BY <1>1, <1>2, <1>3, PTL DEF Spec

-----------------------------------------------------------------------------
(* Never publish twice, without the allowance for slips.  The slip of a    *)
(* retry costs nothing as long as no other request sends the same failed   *)
(* row again: whatever made that row one that may have been sent was the   *)
(* outcome of an attempt, which has paid for it.                           *)

\* Request c has found a failed target to retry, and has not put it back yet.
Retrying(c) == api[c].pc = "retry" /\ ~ api[c].sure

\* No other request sends the rows again meanwhile; and an edit deletes no row that has
\* been, or may have been, sent.
RequestsAlone ==
  /\ \A c, d \in Calls : Retrying(c) /\ (Retrying(d) \/ api[d].pc = "schedule") => c = d
  /\ (\E c \in Calls : api[c].pc = "edit") => \A t \in Rows : status[t] \notin MayBeSent

\* The targets of those retries, and the rows among them that are not failed any more,
\* each of which will count as unsent once more.
Pending == {t \in Targets : \E c \in Calls : Retrying(c) /\ \E j \in api[c].jobs : j.target = t}
Late(ch) == {t \in Rows : ChannelOf[t] = ch /\ status[t] # "failed" /\ t \in Pending}

\* The accounting without slips, with such a row paid in advance.
Paid(ch) == live[ch] + MayShow(ch) + Cardinality(Late(ch)) <= 1 + confirmed[ch]
AllPaid == \A ch \in Channels : Paid(ch)

\* A retry is of a row that exists, or existed.
PendingUsed == \A t \in Pending : status[t] # "unused"

\* Where no platform publishes in a later check, nothing ever enqueues a check.
IsPublish(ids) == \A id \in ids : id.kind = "publish"
NoChecks ==
  /\ \A w \in Workers : Publishes(w)
  /\ IsPublish({j.id : j \in queue}) /\ IsPublish(due)
  /\ \A c \in Calls : IsPublish(api[c].jobs)

LEMMA LateCounts ==
  ASSUME NEW ch
  PROVE  /\ IsFiniteSet(Late(ch)) /\ IsFiniteSet(Late(ch)')
         /\ Cardinality(Late(ch)) \in Nat /\ Cardinality(Late(ch)') \in Nat
<1>1. Late(ch) \subseteq Targets /\ Late(ch)' \subseteq Targets
  BY DEF Late, Rows
<1> QED
  BY <1>1, FiniteAssumption, FS_Subset, FS_CardinalityType

\* What a row that is retried, once, may cost is paid by an attempt, by a confirmation or
\* by what the row counted for before.
LEMMA RowPaid ==
  ASSUME TypeOK, TypeOK', NEW ch \in Channels, Paid(ch), NEW t,
         Sending(ch)' \subseteq Sending(ch), Open(ch)' \subseteq Open(ch),
         Unsent(ch)' \subseteq Unsent(ch) \cup {t}, Late(ch)' \subseteq Late(ch) \cup {t},
         live'[ch] = live[ch], confirmed'[ch] >= confirmed[ch],
         \/ Unsent(ch)' \subseteq Unsent(ch) /\ Late(ch)' \subseteq Late(ch)
         \/ t \in Unsent(ch) /\ t \notin Unsent(ch)'
         \/ t \in Late(ch) /\ t \notin Late(ch)'
         \/ /\ Unsent(ch)' \subseteq Unsent(ch) \/ Late(ch)' \subseteq Late(ch)
            /\ \/ \E w \in Sending(ch) : w \notin Sending(ch)'
               \/ confirmed'[ch] = confirmed[ch] + 1
  PROVE  Paid(ch)'
<1>1. /\ Cardinality(Sending(ch)') <= Cardinality(Sending(ch))
      /\ Cardinality(Open(ch)') <= Cardinality(Open(ch))
      /\ Cardinality(Unsent(ch)') <= Cardinality(Unsent(ch)) + 1
      /\ Cardinality(Late(ch)') <= Cardinality(Late(ch)) + 1
  BY CountsFinite, LateCounts, NoMore, OneMore
<1>2. ASSUME Unsent(ch)' \subseteq Unsent(ch)
      PROVE  Cardinality(Unsent(ch)') <= Cardinality(Unsent(ch))
  BY <1>2, CountsFinite, NoMore
<1>3. ASSUME Late(ch)' \subseteq Late(ch)
      PROVE  Cardinality(Late(ch)') <= Cardinality(Late(ch))
  BY <1>3, LateCounts, NoMore
<1>4. CASE Unsent(ch)' \subseteq Unsent(ch) /\ Late(ch)' \subseteq Late(ch)
  BY <1>1, <1>2, <1>3, <1>4, Counts, LateCounts DEF Paid, MayShow
<1>5. CASE t \in Unsent(ch) /\ t \notin Unsent(ch)'
  <2>1. Cardinality(Unsent(ch)') + 1 <= Cardinality(Unsent(ch))
    BY <1>5, CountsFinite, OneLess
  <2> QED
    BY <1>1, <2>1, Counts, LateCounts DEF Paid, MayShow
<1>6. CASE t \in Late(ch) /\ t \notin Late(ch)'
  <2>1. Cardinality(Late(ch)') + 1 <= Cardinality(Late(ch))
    BY <1>6, LateCounts, OneLess
  <2> QED
    BY <1>1, <2>1, Counts, LateCounts DEF Paid, MayShow
<1>7. CASE /\ Unsent(ch)' \subseteq Unsent(ch) \/ Late(ch)' \subseteq Late(ch)
           /\ \/ \E w \in Sending(ch) : w \notin Sending(ch)'
              \/ confirmed'[ch] = confirmed[ch] + 1
  <2>1. Cardinality(Unsent(ch)') + Cardinality(Late(ch)')
          <= Cardinality(Unsent(ch)) + Cardinality(Late(ch)) + 1
    BY <1>1, <1>2, <1>3, <1>7, Counts, LateCounts
  <2>2. CASE \E w \in Sending(ch) : w \notin Sending(ch)'
    <3>1. Cardinality(Sending(ch)') + 1 <= Cardinality(Sending(ch))
      BY <2>2, CountsFinite, OneLess
    <3> QED
      BY <1>1, <2>1, <3>1, Counts, LateCounts DEF Paid, MayShow
  <2>3. CASE confirmed'[ch] = confirmed[ch] + 1
    BY <1>1, <2>1, <2>3, Counts, LateCounts DEF Paid, MayShow
  <2> QED
    BY <1>7, <2>2, <2>3
<1> QED
  BY <1>4, <1>5, <1>6, <1>7

\* Nothing more may appear.
LEMMA StillPaid ==
  ASSUME TypeOK, TypeOK', NEW ch \in Channels, Paid(ch),
         Sending(ch)' \subseteq Sending(ch), Open(ch)' \subseteq Open(ch),
         Unsent(ch)' \subseteq Unsent(ch), Late(ch)' \subseteq Late(ch),
         live'[ch] = live[ch], confirmed'[ch] >= confirmed[ch]
  PROVE  Paid(ch)'
BY RowPaid

\* When only statuses are as they were, and no request is one more retry.
LEMMA SameLate ==
  ASSUME UNCHANGED status, Pending' \subseteq Pending, NEW ch
  PROVE  Late(ch)' \subseteq Late(ch)
BY DEF Late, Rows

LEMMA SamePending == ASSUME UNCHANGED api PROVE Pending' = Pending
BY DEF Pending, Retrying

\* When one row is written, a failed one that is pending counts again, and counted as unsent.
LEMMA LateRow ==
  ASSUME TypeOK, NEW t \in Rows, NEW st \in TargetStatus, NEW ch,
         status' = [status EXCEPT ![t] = st], Pending' \subseteq Pending
  PROVE  /\ Late(ch)' \subseteq Late(ch) \cup {t}
         /\ st = "failed" => Late(ch)' \subseteq Late(ch)
         /\ ChannelOf[t] # ch => Late(ch)' \subseteq Late(ch)
         /\ ~ (Late(ch)' \subseteq Late(ch)) => t \in Unsent(ch)
<1>1. t \in Targets /\ status' \in [Targets -> RowStatus] /\ status'[t] = st
  BY DEF Rows, TypeOK, RowType, RowStatus
<1>2. \A u \in Targets \ {t} : status'[u] = status[u]
  BY DEF TypeOK, RowType
<1>3. Rows' = Rows
  BY <1>1, <1>2 DEF Rows, TargetStatus
<1>4. \A u \in Late(ch)' : u # t => u \in Late(ch)
  BY <1>2, <1>3 DEF Late, Rows
<1>5. t \in Late(ch)' => ChannelOf[t] = ch /\ st # "failed" /\ t \in Pending
  BY <1>1 DEF Late
<1>6. t \in Pending /\ ChannelOf[t] = ch /\ t \notin Late(ch) => t \in Unsent(ch)
  BY DEF Late, Unsent
<1> QED
  BY <1>4, <1>5, <1>6

LEMMA QuietPaid ==
  ASSUME TypeOK, TypeOK', AllPaid, NEW w \in Workers, Quiet(w),
         UNCHANGED <<status, asked, live, confirmed, api>>
  PROVE  AllPaid'
<1> SUFFICES ASSUME NEW ch \in Channels PROVE Paid(ch)'
  BY DEF AllPaid
<1>1. Sending(ch)' \subseteq Sending(ch)
  BY SendingStep DEF Quiet
<1>2. Unsent(ch)' = Unsent(ch) /\ Open(ch)' = Open(ch) /\ Late(ch)' \subseteq Late(ch)
  BY SameRows, SameLate, SamePending
<1> QED
  BY <1>1, <1>2, Counts, StillPaid DEF AllPaid

LEMMA ClaimPaid ==
  ASSUME TypeOK, TypeOK', AllPaid, NEW w \in Workers, Claim(w)
  PROVE  AllPaid'
<1> SUFFICES ASSUME NEW ch \in Channels PROVE Paid(ch)'
  BY DEF AllPaid
<1> DEFINE t == Target(w)
<1>1. /\ t \in Rows /\ status[t] \in Waiting /\ status' = [status EXCEPT ![t] = "publishing"]
      /\ UNCHANGED <<asked, live, confirmed, task, api>>
  BY WorkerRows DEF Claim, Waiting, Rows, history, Goto
<1>2. Paid(ch)
  BY DEF AllPaid
<1>3. OthersKeep(w)
  BY DEF Claim, Goto, OthersKeep, TypeOK, WorkerType
<1>4. /\ Open(ch)' = Open(ch) /\ Unsent(ch)' \subseteq Unsent(ch) \ {t}
  BY <1>1, OneRow DEF TargetStatus
<1>5. Late(ch)' \subseteq Late(ch)
  <2>1. Late(ch)' \subseteq Late(ch) \cup {t} /\ Pending' = Pending
    BY <1>1, LateRow, SamePending DEF TargetStatus
  <2>2. t \in Late(ch)' => t \in Late(ch)
    BY <1>1, <2>1 DEF Late, Waiting
  <2> QED
    BY <2>1, <2>2
<1>6. CASE ChannelRow(w) = ch
  <2>1. t \in Unsent(ch)
    BY <1>1, <1>6, WorkerRows DEF Unsent, Waiting
  <2>2. /\ Cardinality(Unsent(ch)') + 1 <= Cardinality(Unsent(ch))
        /\ Cardinality(Sending(ch)') <= Cardinality(Sending(ch)) + 1
        /\ Cardinality(Late(ch)') <= Cardinality(Late(ch))
    BY <1>3, <1>4, <1>5, <2>1, SendingStep, CountsFinite, LateCounts, OneLess, OneMore, NoMore
  <2> QED
    BY <1>1, <1>2, <1>4, <2>2, Counts, LateCounts DEF Paid, MayShow
<1>7. CASE ChannelRow(w) # ch
  <2>1. w \notin Sending(ch)'
    BY <1>1, <1>7 DEF Sending, ChannelRow, Target
  <2>2. Sending(ch)' \subseteq Sending(ch)
    BY <1>3, <2>1, SendingStep
  <2> QED
    BY <1>1, <1>2, <1>4, <1>5, <2>2, Counts, StillPaid
<1> QED
  BY <1>6, <1>7

\* The outcome of an attempt, or of one the platform has shown.
LEMMA OutcomePaid ==
  ASSUME TypeOK, TypeOK', AllPaid, NEW w \in Workers, NEW st \in TargetStatus, Outcome(w, st),
         UNCHANGED api, Attempting(w) \/ st \in {"published", "unconfirmed"}
  PROVE  AllPaid'
<1> SUFFICES ASSUME NEW ch \in Channels PROVE Paid(ch)'
  BY DEF AllPaid
<1> DEFINE t == Target(w)
<1>1. /\ t \in Rows /\ status' = [status EXCEPT ![t] = st] /\ OthersKeep(w) /\ ~ Attempting(w)'
      /\ \A u \in Targets \ {t} : asked'[u] = asked[u]
      /\ UNCHANGED <<live, confirmed>>
  BY DEF Outcome, Attempting
<1>2. Sending(ch)' \subseteq Sending(ch) /\ w \notin Sending(ch)'
  BY <1>1, SendingStep
<1>3. /\ Open(ch)' = Open(ch) /\ Unsent(ch)' \subseteq Unsent(ch) \cup {t}
      /\ ChannelOf[t] # ch => Unsent(ch)' \subseteq Unsent(ch)
      /\ st \in {"published", "unconfirmed"} => Unsent(ch)' \subseteq Unsent(ch) \ {t}
  BY <1>1, OneRow
<1>4. /\ Late(ch)' \subseteq Late(ch) \cup {t}
      /\ ChannelOf[t] # ch => Late(ch)' \subseteq Late(ch)
      /\ ~ (Late(ch)' \subseteq Late(ch)) => t \in Unsent(ch)
  BY <1>1, LateRow, SamePending
<1>5. Paid(ch) /\ confirmed'[ch] >= confirmed[ch] /\ live'[ch] = live[ch]
  BY <1>1, Counts DEF AllPaid
<1>6. CASE ChannelOf[t] # ch
  BY <1>2, <1>3, <1>4, <1>5, <1>6, StillPaid
<1>7. CASE ChannelOf[t] = ch /\ Attempting(w)
  <2>1. w \in Sending(ch)
    BY <1>7, WorkerRows DEF Sending
  <2>2. Unsent(ch)' \subseteq Unsent(ch) \/ Late(ch)' \subseteq Late(ch)
    BY <1>3, <1>4
  <2> QED
    BY <1>2, <1>3, <1>4, <1>5, <2>1, <2>2, RowPaid
<1>8. CASE st \in {"published", "unconfirmed"}
  BY <1>2, <1>3, <1>4, <1>5, <1>8, RowPaid
<1> QED
  BY <1>6, <1>7, <1>8

LEMMA WritePaid ==
  ASSUME TypeOK, TypeOK', Outgoing, NoChecks, AllPaid, NEW w \in Workers,
         WriteFinal(w) \/ WriteProcessing(w) \/ WriteRetry(w)
  PROVE  AllPaid'
<1>1. PICK st \in TargetStatus : Outcome(w, st)
  BY WriteFinalOutcome, WriteAgainOutcome
<1>2. CASE WriteProcessing(w) \/ WriteRetry(w)
  <2>1. Attempting(w) /\ UNCHANGED api
    BY <1>2 DEF WriteProcessing, WriteRetry, Outgoing, Attempting, Owns
  <2> QED
    BY <1>1, <2>1, OutcomePaid
<1>3. CASE WriteFinal(w)
  <2>1. Publishes(w) /\ pc[w] = "write" /\ local[w].out # "timeout" /\ UNCHANGED api
    BY <1>3 DEF WriteFinal, Outgoing, NoChecks
  <2>2. /\ status' = [status EXCEPT ![Target(w)] = local[w].out]
        /\ local[w].out \in {"published", "failed", "unconfirmed"}
    BY <1>3, <2>1 DEF WriteFinal
  <2>3. st = local[w].out
    BY <1>1, <2>2, WorkerRows DEF Outcome, TypeOK, RowType
  <2>4. local[w].out = "failed" => Attempting(w)
    BY <2>1 DEF Attempting, Owns
  <2> QED
    BY <1>1, <2>1, <2>2, <2>3, <2>4, OutcomePaid
<1> QED
  BY <1>2, <1>3

\* The call that shows the post ends what could still show it.
LEMMA SendPaid ==
  ASSUME TypeOK, TypeOK', AllPaid, NEW w \in Workers, Send(w)
  PROVE  AllPaid'
<1>1. /\ Publishes(w) /\ pc[w] = "send" /\ Attempting(w)
      /\ UNCHANGED <<status, asked, confirmed, api>>
  BY DEF Send, Attempting, Owns, postVars, rowVars
<1>k. \A kind \in Refusals \cup Unknowns : kind \in ErrorKinds
  BY DEF Refusals, Unknowns, ErrorKinds, ProviderErrors
<1>2. CASE Quiet(w) /\ UNCHANGED live
  BY <1>1, <1>2, QuietPaid
<1>3. ASSUME NEW o \in {"published", "unconfirmed"}, Write(w, o), Show(w)
      PROVE  AllPaid'
  <2> SUFFICES ASSUME NEW ch \in Channels PROVE Paid(ch)'
    BY DEF AllPaid
  <2>1. Paid(ch)
    BY DEF AllPaid
  <2>2. OthersKeep(w) /\ ~ Attempting(w)'
    BY <1>3, WriteAccount
  <2>3. Sending(ch)' \subseteq Sending(ch) \ {w}
    BY <2>2, SendingStep
  <2>4. Unsent(ch)' = Unsent(ch) /\ Open(ch)' = Open(ch) /\ Late(ch)' \subseteq Late(ch)
    BY <1>1, SameRows, SameLate, SamePending
  <2>5. CASE ChannelRow(w) = ch
    <3>1. w \in Sending(ch) /\ live'[ch] = live[ch] + 1
      BY <1>1, <1>3, <2>5 DEF Sending, Show, TypeOK, HistoryType
    <3>2. /\ Cardinality(Sending(ch)') + 1 <= Cardinality(Sending(ch))
          /\ Cardinality(Late(ch)') <= Cardinality(Late(ch))
      BY <2>3, <2>4, <3>1, CountsFinite, LateCounts, OneLess, NoMore
    <3> QED
      BY <1>1, <2>1, <2>4, <3>1, <3>2, Counts, LateCounts DEF Paid, MayShow
  <2>6. CASE ChannelRow(w) # ch
    <3>1. live'[ch] = live[ch]
      BY <1>3, <2>6 DEF Show, TypeOK, HistoryType
    <3> QED
      BY <1>1, <2>1, <2>3, <2>4, <3>1, Counts, StillPaid
  <2> QED
    BY <2>5, <2>6
<1>4. CASE Show(w) /\ Write(w, "published")
  BY <1>3, <1>4
<1>5. CASE Write(w, "processing") /\ UNCHANGED live
  BY <1>1, <1>2, <1>5, WriteAccount DEF Quiet
<1>6. CASE \E kind \in Refusals : Catch(w, kind) /\ UNCHANGED live
  BY <1>1, <1>2, <1>6, <1>k, CatchQuiet
<1>7. CASE \E kind \in Unknowns : Catch(w, kind) /\ (Show(w) \/ UNCHANGED live)
  <2>1. Write(w, "unconfirmed")
    BY <1>1, <1>7, CatchUnknown
  <2>2. Quiet(w)
    BY <2>1, WriteAccount DEF Quiet
  <2> QED
    BY <1>2, <1>3, <1>7, <2>1, <2>2
<1> QED
  BY <1>4, <1>5, <1>6, <1>7 DEF Send

LEMMA WorkerPaid ==
  ASSUME TypeOK, TypeOK', Outgoing, NoChecks, AllPaid, NEW w \in Workers, WorkerStep(w) \/ WorkerFault(w)
  PROVE  AllPaid'
<1>1. CASE WriteFinal(w) \/ WriteProcessing(w) \/ WriteRetry(w)
  BY <1>1, WritePaid
<1>2. CASE Claim(w) \/ Send(w)
  BY <1>2, ClaimPaid, SendPaid
<1>3. ~ SendCheck(w)
  BY DEF SendCheck, NoChecks
<1>4. UNCHANGED api
  BY DEF WorkerStep, WorkerFault, StartJob, Claim, SkipStale, LoadContext, ReadProcessing,
         GetToken, MarkNeedsReauth, Send, SendCheck, WriteFinal, WriteProcessing, WritePending,
         WriteRetry, WriteLost, EnqueueRetry, PollAgain, CallFails, TryFails, Crash, LoseLock
<1> QED
  BY <1>1, <1>2, <1>3, <1>4, WorkerQuiet, QuietPaid

\* A request that goes on to anything else retries nothing.
LEMMA OtherRequest ==
  ASSUME TypeOK, NEW c \in Calls, NEW r, r.pc # "retry", api' = [api EXCEPT ![c] = r]
  PROVE  Pending' \subseteq Pending
<1>1. api'[c] = r /\ \A d \in Calls : d # c => api'[d] = api[d]
  BY DEF TypeOK
<1>2. \A d \in Calls : Retrying(d)' => d # c /\ Retrying(d)
  BY <1>1 DEF Retrying
<1> QED
  BY <1>1, <1>2 DEF Pending

LEMMA ThenRequest ==
  ASSUME TypeOK, NEW c \in Calls, NEW p, p # "retry", NEW js, Then(c, p, js)
  PROVE  Pending' \subseteq Pending
<1>1. PICK r : /\ api' = [api EXCEPT ![c] = r]
               /\ r = IF js = {} /\ ~ api[c].again THEN NoRequest
                      ELSE [NoRequest EXCEPT !.pc = p, !.jobs = js, !.again = api[c].again]
  BY DEF Then, TypeOK
<1>2. r.pc # "retry"
  BY <1>1 DEF NoRequest
<1> QED
  BY <1>1, <1>2, OtherRequest

\* Every step of the API and of its users but retryTarget's check.
LEMMA RequestPending ==
  ASSUME TypeOK, NEW c \in Calls,
         \/ Create(c) \/ ScheduleRead(c) \/ EditRead(c) \/ Unschedule(c) \/ Remove(c)
         \/ ApiStep(c) \/ ApiFault(c)
  PROVE  Pending' \subseteq Pending
<1>1. CASE Unschedule(c) \/ Remove(c) \/ EditTx(c) \/ EnqueueJob(c) \/ QueueCallFails(c)
  BY <1>1, ThenRequest DEF Unschedule, Remove, EditTx, EnqueueJob, QueueCallFails
<1>2. ASSUME Ends(c) PROVE Pending' \subseteq Pending
  <2>1. NoRequest.pc # "retry"
    BY DEF NoRequest
  <2> QED
    BY <1>2, <2>1, OtherRequest DEF Ends
<1>3. CASE CancelJob(c)
  <2>1. [NoRequest EXCEPT !.pc = "schedule"].pc # "retry"
    BY DEF NoRequest
  <2> QED
    BY <1>2, <1>3, <2>1, ThenRequest, OtherRequest DEF CancelJob
<1>4. CASE RetryTx(c) \/ ApiCrash(c)
  BY <1>2, <1>4, ThenRequest DEF RetryTx, ApiCrash
<1>5. CASE Create(c) \/ ScheduleRead(c)
  <2>1. UNCHANGED api \/ api' = [api EXCEPT ![c].pc = "schedule"]
    BY <1>5 DEF Create, ScheduleRead
  <2>2. CASE api' = [api EXCEPT ![c].pc = "schedule"]
    <3>1. PICK r : r = [api[c] EXCEPT !.pc = "schedule"] /\ api' = [api EXCEPT ![c] = r]
      BY <2>2
    <3>2. r.pc # "retry"
      BY <3>1 DEF TypeOK, Requests
    <3> QED
      BY <3>1, <3>2, OtherRequest
  <2> QED
    BY <2>1, <2>2, SamePending
<1>6. CASE EditRead(c)
  BY <1>6, OtherRequest DEF EditRead
<1>7. CASE ScheduleTx(c)
  <2> DEFINE rows == {t \in Rows : status[t] \in SCHEDULABLE}
             r == [NoRequest EXCEPT !.pc = IF rows = {} THEN "idle" ELSE "enqueue",
                                    !.jobs = {PublishId(t, version[t] + 1) : t \in rows}]
  <2>1. api' = [api EXCEPT ![c] = r]
    BY <1>7 DEF ScheduleTx
  <2>2. r.pc # "retry"
    BY DEF NoRequest
  <2> QED
    BY <2>1, <2>2, OtherRequest
<1> QED
  BY <1>1, <1>3, <1>4, <1>5, <1>6, <1>7 DEF ApiStep, ApiFault

\* retryTarget's check: what it finds failed is pending, and what it finds unconfirmed the
\* user has vouched for.
LEMMA RetryReadPending ==
  ASSUME TypeOK, NEW c \in Calls, RetryRead(c)
  PROVE  \E t \in Rows : Pending' \subseteq Pending \cup {t}
                       /\ (t \in Pending' => t \in Pending \/ status[t] = "failed")
<1>1. PICK t \in Rows :
        /\ status[t] \in {"failed", "unconfirmed"}
        /\ api' = [api EXCEPT ![c] = [NoRequest EXCEPT !.pc = "retry", !.jobs = PublishIds({t}),
                                                       !.sure = status[t] = "unconfirmed"]]
  BY DEF RetryRead
<1>2. /\ api'[c] = [NoRequest EXCEPT !.pc = "retry", !.jobs = PublishIds({t}),
                                     !.sure = status[t] = "unconfirmed"]
      /\ \A d \in Calls : d # c => api'[d] = api[d]
  BY <1>1 DEF TypeOK
<1>3. api'[c].jobs = PublishIds({t}) /\ (api'[c].sure <=> status[t] = "unconfirmed")
  BY <1>2 DEF NoRequest
<1>4. \A j \in api'[c].jobs : j.target = t
  BY <1>3 DEF PublishIds, PublishId
<1>5. ASSUME NEW u \in Pending', u \notin Pending
      PROVE  u = t /\ status[t] = "failed"
  <2>1. PICK d \in Calls : Retrying(d)' /\ \E j \in api'[d].jobs : j.target = u
    BY <1>5 DEF Pending
  <2>2. d = c
    BY <1>2, <1>5, <2>1 DEF Pending, Retrying
  <2> QED
    BY <1>1, <1>3, <1>4, <2>1, <2>2 DEF Retrying
<1> QED
  BY <1>5

\* A row that has been used stays used.
LEMMA UsedStays ==
  ASSUME TypeOK, [Next]_vars, NEW t \in Targets, status[t] # "unused"
  PROVE  status'[t] # "unused"
<1>1. ASSUME NEW w \in Workers, WorkerStep(w) \/ WorkerFault(w) PROVE status'[t] # "unused"
  BY <1>1 DEF WorkerStep, WorkerFault, StartJob, Claim, SkipStale, LoadContext, ReadProcessing,
         GetToken, MarkNeedsReauth, Send, SendCheck, WriteFinal, WriteProcessing, WritePending,
         WriteRetry, WriteLost, EnqueueRetry, PollAgain, CallFails, TryFails, Crash, LoseLock,
         rowVars, TypeOK, RowType
<1>2. ASSUME NEW c \in Calls, ApiStep(c) \/ ApiFault(c) PROVE status'[t] # "unused"
  BY <1>2 DEF ApiStep, ApiFault, ScheduleTx, EditTx, RetryTx, CancelJob, EnqueueJob,
         QueueCallFails, ApiCrash, InsertTargets, rowVars, TypeOK, RowType
<1>3. ASSUME UserStep PROVE status'[t] # "unused"
  BY <1>3 DEF UserStep, Create, ScheduleRead, EditRead, Unschedule, RetryRead, Remove,
         Disconnect, Reconnect, InsertTargets, rowVars, TypeOK, RowType
<1>4. CASE \/ RecoverStalled \/ Maintenance \/ RecoverEarly \/ MaintenanceCrash \/ Expire
           \/ RedisLoss \/ UNCHANGED vars
  BY <1>4 DEF RecoverStalled, Maintenance, SweepRead, SweepEnsure, RecoverRead, RecoverWrite,
         RecoverEarly, MaintenanceCrash, Expire, RedisLoss, vars, rowVars, TypeOK, RowType
<1> QED
  BY <1>1, <1>2, <1>3, <1>4 DEF Next

LEMMA PendingStep ==
  ASSUME TypeOK, PendingUsed, [Next]_vars
  PROVE  PendingUsed'
<1>1. \A t \in Pending' : t \in Pending \/ t \in Rows
  <2>1. CASE \E c \in Calls : RetryRead(c)
    BY <2>1, RetryReadPending
  <2>2. CASE UNCHANGED api
    BY <2>2, SamePending
  <2>3. CASE \E c \in Calls :
               \/ Create(c) \/ ScheduleRead(c) \/ EditRead(c) \/ Unschedule(c) \/ Remove(c)
               \/ ApiStep(c) \/ ApiFault(c)
    BY <2>3, RequestPending
  <2>4. ASSUME NEW w \in Workers, WorkerStep(w) \/ WorkerFault(w) PROVE UNCHANGED api
    BY <2>4 DEF WorkerStep, WorkerFault, StartJob, Claim, SkipStale, LoadContext, ReadProcessing,
         GetToken, MarkNeedsReauth, Send, SendCheck, WriteFinal, WriteProcessing, WritePending,
         WriteRetry, WriteLost, EnqueueRetry, PollAgain, CallFails, TryFails, Crash, LoseLock
  <2>5. ASSUME NEW ch \in Channels, Disconnect(ch) \/ Reconnect(ch) PROVE UNCHANGED api
    BY <2>5 DEF Disconnect, Reconnect
  <2>6. ASSUME \/ RecoverStalled \/ Maintenance \/ RecoverEarly \/ MaintenanceCrash \/ Expire
               \/ RedisLoss \/ UNCHANGED vars
        PROVE  UNCHANGED api
    BY <2>6 DEF RecoverStalled, Maintenance, SweepRead, SweepEnsure, RecoverRead, RecoverWrite,
         RecoverEarly, MaintenanceCrash, Expire, RedisLoss, vars
  <2> QED
    BY <2>1, <2>2, <2>3, <2>4, <2>5, <2>6 DEF Next, UserStep
<1>2. \A t \in Pending' : t \in Targets /\ status[t] # "unused"
  BY <1>1 DEF PendingUsed, Rows, Pending
<1> QED
  BY <1>2, UsedStays DEF PendingUsed

\* The status of no row changes, and no more is pending.
LEMMA IdlePaid ==
  ASSUME TypeOK, TypeOK', AllPaid, UNCHANGED <<pc, task, local, status, asked, live, confirmed>>,
         Pending' \subseteq Pending
  PROVE  AllPaid'
<1> SUFFICES ASSUME NEW ch \in Channels PROVE Paid(ch)'
  BY DEF AllPaid
<1>1. Unsent(ch)' = Unsent(ch) /\ Open(ch)' = Open(ch) /\ Late(ch)' \subseteq Late(ch)
  BY SameRows, SameLate
<1> QED
  BY <1>1, SameWorkers, Counts, StillPaid DEF AllPaid

\* Rows that wait, or are drafts, change to another status that counts as unsent.
LEMMA RestatusPaid ==
  ASSUME TypeOK, TypeOK', AllPaid, UNCHANGED <<pc, task, local, asked, live, confirmed>>,
         Pending' \subseteq Pending,
         NEW rows, rows \subseteq {t \in Rows : status[t] \in {"draft"} \cup Waiting},
         NEW st \in {"draft", "scheduled", "canceled"},
         status' = [t \in Targets |-> IF t \in rows THEN st ELSE status[t]]
  PROVE  AllPaid'
<1> SUFFICES ASSUME NEW ch \in Channels PROVE Paid(ch)'
  BY DEF AllPaid
<1>1. Open(ch)' = Open(ch) /\ Unsent(ch)' \subseteq Unsent(ch)
  BY RestatusRows DEF SCHEDULABLE
<1>2. ASSUME NEW t \in Late(ch)' PROVE t \in Late(ch)
  <2>1. t \in Rows /\ t \in Targets /\ ChannelOf[t] = ch /\ status'[t] # "failed" /\ t \in Pending
    BY <1>2 DEF Late, Rows
  <2>2. status[t] # "failed"
    BY <2>1 DEF Waiting
  <2> QED
    BY <2>1, <2>2 DEF Late
<1> QED
  BY <1>1, <1>2, SameWorkers, Counts, StillPaid DEF AllPaid

\* New rows take the place of an open channel, or of rows that counted as unsent.
LEMMA FreshPaid ==
  ASSUME TypeOK, TypeOK', AllPaid, UNCHANGED <<pc, task, local, asked, live, confirmed>>,
         Pending' \subseteq Pending, PendingUsed,
         NEW st, NEW new \in SUBSET Targets, NEW cs, InsertTargets(st, new, cs),
         \A t \in Targets \ new : st[t] \in {"unused", "deleted"},
         NEW ch \in Channels, Open(ch) = {ch} \/ Unsent(ch) # {}
  PROVE  Paid(ch)'
<1>1. Cardinality(Unsent(ch)') + Cardinality(Open(ch)') <= 1
  BY FreshRows
<1>2. Rows' \subseteq new /\ \A t \in new : status[t] = "unused"
  BY DEF InsertTargets, Rows
<1>3. Late(ch)' = {}
  BY <1>2 DEF Late, PendingUsed
<1>4. Cardinality(Late(ch)') = 0
  BY <1>3, FS_EmptySet
<1>5. Cardinality(Unsent(ch)) + Cardinality(Open(ch)) >= 1
  <2>1. Unsent(ch) # {} => Cardinality(Unsent(ch)) # 0
    BY CountsFinite, FS_EmptySet
  <2>2. Open(ch) = {ch} => Cardinality(Open(ch)) = 1
    BY FS_Singleton
  <2> QED
    BY <2>1, <2>2, Counts
<1> QED
  BY <1>1, <1>4, <1>5, SameWorkers, Counts, LateCounts DEF AllPaid, Paid, MayShow

LEMMA CreatePaid ==
  ASSUME TypeOK, TypeOK', AllPaid, PendingUsed, NEW c \in Calls, Create(c)
  PROVE  AllPaid'
<1> SUFFICES ASSUME NEW ch \in Channels PROVE Paid(ch)'
  BY DEF AllPaid
<1>1. /\ \A t \in Targets : status[t] = "unused"
      /\ UNCHANGED <<pc, task, local, asked, live, confirmed>>
  BY DEF Create, workerVars, history
<1>2. PICK new \in SUBSET Targets : InsertTargets(status, new, {ChannelOf[t] : t \in new})
  BY DEF Create
<1>3. Open(ch) = {ch}
  BY <1>1 DEF Open, Rows
<1> QED
  BY <1>1, <1>2, <1>3, RequestPending, FreshPaid

LEMMA EditPaid ==
  ASSUME TypeOK, TypeOK', AllPaid, PendingUsed, RequestsAlone, NEW c \in Calls, EditTx(c)
  PROVE  AllPaid'
<1> SUFFICES ASSUME NEW ch \in Channels PROVE Paid(ch)'
  BY DEF AllPaid
<1> DEFINE st == [t \in Targets |-> IF t \in Rows THEN "deleted" ELSE status[t]]
<1>1. /\ api[c].pc = "edit" /\ Slip({t \in Rows : status[t] \in MayBeSent})
      /\ UNCHANGED <<pc, task, local, asked, live, confirmed>>
  BY DEF EditTx, workerVars
<1>2. slips'[ch] = slips[ch] /\ slips[ch] \in Nat
  BY <1>1 DEF RequestsAlone, Slip, TypeOK, HistoryType
<1>3. slips'[ch] # slips[ch] + 1
  BY <1>2
<1>4. Open(ch) = {ch} \/ Unsent(ch) # {}
  BY <1>3, EditPays
<1>5. PICK new \in SUBSET Targets : InsertTargets(st, new, api[c].chans)
  BY DEF EditTx
<1>6. \A t \in Targets \ new : st[t] \in {"unused", "deleted"}
  BY DEF Rows
<1>7. Pending' \subseteq Pending
  BY RequestPending DEF ApiStep
<1> QED
  BY <1>1, <1>4, <1>5, <1>6, <1>7, FreshPaid

\* A schedule meets no retry, so nothing is pending.
LEMMA SchedulePaid ==
  ASSUME TypeOK, TypeOK', AllPaid, RequestsAlone, NEW c \in Calls, ScheduleTx(c)
  PROVE  AllPaid'
<1> SUFFICES ASSUME NEW ch \in Channels PROVE Paid(ch)'
  BY DEF AllPaid
<1>1. Open(ch)' = Open(ch) /\ Unsent(ch)' \subseteq Unsent(ch)
  BY RestatusRows DEF ScheduleTx, SCHEDULABLE, Waiting, history
<1>2. \A d \in Calls : ~ Retrying(d)
  BY DEF RequestsAlone, ScheduleTx, Retrying
<1>3. Pending' = {}
  <2>1. Pending = {} /\ Pending' \subseteq Pending
    BY <1>2, RequestPending DEF Pending, ApiStep
  <2> QED
    BY <2>1
<1>4. Late(ch)' \subseteq Late(ch)
  BY <1>3 DEF Late
<1>5. UNCHANGED <<pc, task, local, live, confirmed>>
  BY DEF ScheduleTx, workerVars, history
<1> QED
  BY <1>1, <1>4, <1>5, SameWorkers, Counts, StillPaid DEF AllPaid

\* A retry puts back a row that counts as unsent, one the user vouched for, or one that was
\* paid in advance.
LEMMA RetryPaid ==
  ASSUME TypeOK, TypeOK', AllPaid, RequestsAlone, NEW c \in Calls, RetryTx(c)
  PROVE  AllPaid'
<1>1. /\ api[c].pc = "retry" /\ UNCHANGED <<pc, task, local, live, asked>>
  BY DEF RetryTx, workerVars
<1>2. Pending' \subseteq Pending
  BY RequestPending DEF ApiStep
<1>3. CASE UNCHANGED <<status, confirmed>>
  BY <1>1, <1>2, <1>3, IdlePaid
<1>4. ASSUME NEW t \in Rows, t \in {j.target : j \in api[c].jobs},
             status' = [status EXCEPT ![t] = "scheduled"],
             Then(c, "enqueue", {PublishId(t, version[t] + 1)}),
             IF api[c].sure
             THEN confirmed' = [confirmed EXCEPT ![ChannelOf[t]] = @ + 1]
             ELSE UNCHANGED confirmed
      PROVE  AllPaid'
  <2> SUFFICES ASSUME NEW ch \in Channels PROVE Paid(ch)'
    BY DEF AllPaid
  <2>1. Paid(ch) /\ confirmed'[ch] >= confirmed[ch] /\ live'[ch] = live[ch]
    BY <1>1, <1>4, Counts DEF AllPaid, TypeOK, HistoryType
  <2>2. /\ Open(ch)' = Open(ch) /\ Unsent(ch)' \subseteq Unsent(ch) \cup {t}
        /\ ChannelOf[t] # ch => Unsent(ch)' \subseteq Unsent(ch)
    BY <1>1, <1>4, OneRow DEF TargetStatus
  <2>3. /\ Late(ch)' \subseteq Late(ch) \cup {t}
        /\ ChannelOf[t] # ch => Late(ch)' \subseteq Late(ch)
        /\ ~ (Late(ch)' \subseteq Late(ch)) => t \in Unsent(ch)
    BY <1>2, <1>4, LateRow DEF TargetStatus
  <2>4. Sending(ch)' = Sending(ch)
    BY <1>1, SameWorkers
  <2>5. CASE ChannelOf[t] # ch
    BY <2>1, <2>2, <2>3, <2>4, <2>5, StillPaid
  <2>6. CASE ChannelOf[t] = ch /\ api[c].sure
    <3>1. confirmed'[ch] = confirmed[ch] + 1
      BY <1>4, <2>6 DEF TypeOK, HistoryType
    <3>2. Unsent(ch)' \subseteq Unsent(ch) \/ Late(ch)' \subseteq Late(ch)
      BY <2>2, <2>3
    <3> QED
      BY <2>1, <2>2, <2>3, <2>4, <3>1, <3>2, RowPaid
  <2>7. CASE ChannelOf[t] = ch /\ ~ api[c].sure
    <3>1. Retrying(c) /\ \A d \in Calls : Retrying(d) => d = c
      BY <1>1, <2>7 DEF Retrying, RequestsAlone
    <3>2. t \in Pending
      BY <1>4, <3>1 DEF Pending, Rows
    <3>3. Pending' = {}
      <4>1. \A d \in Calls \ {c} : api'[d] = api[d]
        BY <1>4 DEF Then, TypeOK
      <4>2. api'[c].pc # "retry"
        <5>1. api'[c] = IF {PublishId(t, version[t] + 1)} = {} /\ ~ api[c].again THEN NoRequest
                        ELSE [NoRequest EXCEPT !.pc = "enqueue",
                                               !.jobs = {PublishId(t, version[t] + 1)},
                                               !.again = api[c].again]
          BY <1>4 DEF Then, TypeOK
        <5> QED
          BY <5>1 DEF NoRequest
      <4> QED
        BY <3>1, <4>1, <4>2 DEF Pending, Retrying
    <3>4. Late(ch)' = {}
      BY <3>3 DEF Late
    <3>5. CASE status[t] = "failed"
      <4>1. t \in Unsent(ch)
        BY <2>7, <3>5 DEF Unsent
      <4>2. Unsent(ch)' \subseteq Unsent(ch)
        BY <2>2, <4>1
      <4> QED
        BY <2>1, <2>2, <2>4, <3>4, <4>2, StillPaid
    <3>6. CASE status[t] # "failed"
      <4>1. t \in Late(ch) /\ t \notin Late(ch)'
        BY <2>7, <3>2, <3>4, <3>6 DEF Late
      <4> QED
        BY <2>1, <2>2, <2>3, <2>4, <4>1, RowPaid
    <3> QED
      BY <3>5, <3>6
  <2> QED
    BY <2>5, <2>6, <2>7
<1> QED
  BY <1>3, <1>4 DEF RetryTx

\* The recovery pays for what it makes pending again.
LEMMA RecoverPaid ==
  ASSUME TypeOK, TypeOK', AllPaid, RecoverWrite
  PROVE  AllPaid'
<1>1. UNCHANGED <<pc, task, local, live, confirmed, asked, api>>
  BY DEF RecoverWrite, workerVars, history
<1>2. CASE UNCHANGED status
  BY <1>1, <1>2, SamePending, IdlePaid
<1>3. CASE ~ UNCHANGED status
  <2>1. PICK t \in Rows : status' = [status EXCEPT ![t] = "unconfirmed"]
    BY <1>3 DEF RecoverWrite
  <2> SUFFICES ASSUME NEW ch \in Channels PROVE Paid(ch)'
    BY DEF AllPaid
  <2>2. /\ Open(ch)' = Open(ch) /\ Unsent(ch)' \subseteq Unsent(ch) \ {t}
    BY <1>1, <2>1, OneRow DEF TargetStatus
  <2>3. /\ Late(ch)' \subseteq Late(ch) \cup {t}
        /\ ~ (Late(ch)' \subseteq Late(ch)) => t \in Unsent(ch)
    BY <1>1, <2>1, LateRow, SamePending DEF TargetStatus
  <2> QED
    BY <1>1, <2>2, <2>3, SameWorkers, Counts, RowPaid DEF AllPaid
<1> QED
  BY <1>2, <1>3

LEMMA RetryReadPaid ==
  ASSUME TypeOK, TypeOK', AllPaid, NEW c \in Calls, RetryRead(c)
  PROVE  AllPaid'
<1> SUFFICES ASSUME NEW ch \in Channels PROVE Paid(ch)'
  BY DEF AllPaid
<1>1. UNCHANGED <<pc, task, local, status, asked, live, confirmed>>
  BY DEF RetryRead, workerVars, rowVars, history
<1>2. PICK t \in Rows : /\ Pending' \subseteq Pending \cup {t}
                        /\ t \in Pending' => t \in Pending \/ status[t] = "failed"
  BY RetryReadPending
<1>3. Late(ch)' \subseteq Late(ch)
  BY <1>1, <1>2 DEF Late, Rows
<1> QED
  BY <1>1, <1>3, SameRows, SameWorkers, Counts, StillPaid DEF AllPaid

LEMMA PaidStep ==
  ASSUME TypeOK, TypeOK', Outgoing, NoChecks, PendingUsed, AllPaid, RequestsAlone, [Next]_vars
  PROVE  AllPaid'
<1> USE DEF postVars, rowVars, workerVars, history
<1>1. ASSUME UserStep PROVE AllPaid'
  <2>1. ASSUME NEW c \in Calls, Unschedule(c) PROVE AllPaid'
    BY <2>1, RequestPending, RestatusPaid DEF Unschedule
  <2>2. ASSUME NEW c \in Calls, Remove(c) PROVE AllPaid'
    BY <2>2, RequestPending, RestatusPaid DEF Remove
  <2>3. ASSUME NEW ch \in Channels, Disconnect(ch) PROVE AllPaid'
    BY <2>3, SamePending, RestatusPaid DEF Disconnect
  <2>4. ASSUME NEW c \in Calls, ScheduleRead(c) \/ EditRead(c) PROVE AllPaid'
    BY <2>4, RequestPending, IdlePaid DEF ScheduleRead, EditRead
  <2>5. ASSUME NEW ch \in Channels, Reconnect(ch) PROVE AllPaid'
    BY <2>5, SamePending, IdlePaid DEF Reconnect
  <2> QED
    BY <1>1, <2>1, <2>2, <2>3, <2>4, <2>5, CreatePaid, RetryReadPaid DEF UserStep
<1>2. ASSUME NEW c \in Calls, ApiStep(c) \/ ApiFault(c) PROVE AllPaid'
  <2>1. CASE CancelJob(c) \/ EnqueueJob(c) \/ QueueCallFails(c) \/ ApiCrash(c)
    <3>1. UNCHANGED <<pc, task, local, status, asked, live, confirmed>>
      BY <2>1 DEF CancelJob, EnqueueJob, QueueCallFails, ApiCrash
    <3> QED
      BY <1>2, <3>1, RequestPending, IdlePaid
  <2> QED
    BY <1>2, <2>1, SchedulePaid, EditPaid, RetryPaid DEF ApiStep, ApiFault
<1>3. ASSUME NEW w \in Workers, WorkerStep(w) \/ WorkerFault(w) PROVE AllPaid'
  BY <1>3, WorkerPaid
<1>4. CASE \/ RecoverStalled \/ SweepRead \/ SweepEnsure \/ RecoverRead \/ RecoverEarly
           \/ MaintenanceCrash \/ Expire \/ RedisLoss \/ UNCHANGED vars
  <2>1. UNCHANGED <<pc, task, local, status, asked, live, confirmed, api>>
    BY <1>4 DEF RecoverStalled, SweepRead, SweepEnsure, RecoverRead, RecoverEarly,
                MaintenanceCrash, Expire, RedisLoss, vars
  <2> QED
    BY <2>1, SamePending, IdlePaid
<1> QED
  BY <1>1, <1>2, <1>3, <1>4, RecoverPaid DEF Next, Maintenance

-----------------------------------------------------------------------------
(* Nothing enqueues a check, but a worker that polls.                      *)

QueuePublishes == IsPublish({j.id : j \in queue})

LEMMA AddPublishes ==
  ASSUME QueuePublishes, NEW id, id.kind = "publish", NEW q, \A j \in q : j.id.kind = "publish"
  PROVE  /\ Add(id) => QueuePublishes'
         /\ \A j \in AddedTo(q, id) : j.id.kind = "publish"
<1>1. NewJob(id).id = id
  BY DEF NewJob
<1> QED
  BY <1>1 DEF Add, AddedTo, QueuePublishes, IsPublish

LEMMA DonePublishes ==
  ASSUME TypeOK, QueuePublishes, NEW w \in Workers
  PROVE  \A j \in JobDone(w) \cup JobThrew(w) : j.id.kind = "publish"
<1>1. \A j \in queue : j.id.kind = "publish" /\ Finished(j).id = j.id /\ Again(j).id = j.id
  BY DEF QueuePublishes, IsPublish, Finished, Again, TypeOK, Jobs
<1> QED
  BY <1>1 DEF JobDone, JobThrew

LEMMA FinishPublishes ==
  ASSUME TypeOK, NoChecks, NEW w \in Workers, NEW q, \A j \in q : j.id.kind = "publish",
         Finish(w, q), UNCHANGED <<due, api>>
  PROVE  NoChecks'
<1>1. NoTask.kind = "publish"
  BY DEF NoTask, PublishId
<1> QED
  BY <1>1 DEF Finish, NoChecks, IsPublish, Publishes, TypeOK, WorkerType

LEMMA WorkerPublishes ==
  ASSUME TypeOK, Outgoing, NoPolls, NoChecks, NEW w \in Workers, WorkerStep(w) \/ WorkerFault(w)
  PROVE  NoChecks'
<1> USE DEF postVars, rowVars, workerVars, maintVars
<1>q. QueuePublishes /\ Publishes(w)
  BY DEF NoChecks, QueuePublishes
<1>a. UNCHANGED <<due, api>>
  BY DEF WorkerStep, WorkerFault, StartJob, Claim, SkipStale, LoadContext, ReadProcessing,
         GetToken, MarkNeedsReauth, Send, SendCheck, WriteFinal, WriteProcessing, WritePending,
         WriteRetry, WriteLost, EnqueueRetry, PollAgain, CallFails, TryFails, Crash, LoseLock
<1>g. ASSUME UNCHANGED <<task, queue>> PROVE NoChecks'
  BY <1>a, <1>g DEF NoChecks, Publishes
<1>c. ASSUME NEW kind \in ErrorKinds, Catch(w, kind) PROVE UNCHANGED task
  BY <1>q, <1>c, CatchPublish DEF Write, Goto
<1>e. \A kind \in {"transient", "rate_limited", "invalid_request", "internal"} \cup Refusals
                  \cup Unknowns : kind \in ErrorKinds
  BY DEF Refusals, Unknowns, ErrorKinds, ProviderErrors
<1>1. CASE StartJob(w)
  <2>1. PICK j \in queue : /\ queue' = Without(j.id) \cup {[j EXCEPT !.st = "active"]}
                           /\ task' = [task EXCEPT ![w] = j.id]
    BY <1>1 DEF StartJob
  <2>2. j.id.kind = "publish" /\ [j EXCEPT !.st = "active"].id = j.id
    BY <1>q DEF QueuePublishes, IsPublish, TypeOK, Jobs
  <2> QED
    BY <1>a, <1>q, <2>1, <2>2 DEF NoChecks, QueuePublishes, IsPublish, Publishes, Without, TypeOK, WorkerType
<1>2. CASE SkipStale(w) \/ WriteFinal(w) \/ WriteLost(w) \/ CallFails(w)
  <2>1. Finish(w, JobDone(w)) \/ Finish(w, JobThrew(w))
    BY <1>2 DEF SkipStale, WriteFinal, WriteLost, CallFails, Return, Throw
  <2> QED
    BY <1>a, <1>q, <2>1, DonePublishes, FinishPublishes
<1>3. CASE EnqueueRetry(w)
  <2>1. PICK id : id = PublishId(Target(w), local[w].next) /\ Finish(w, AddedTo(JobDone(w), id))
    BY <1>3 DEF EnqueueRetry
  <2>2. id.kind = "publish"
    BY <2>1 DEF PublishId
  <2>3. \A j \in AddedTo(JobDone(w), id) : j.id.kind = "publish"
    BY <1>q, <2>2, DonePublishes, AddPublishes
  <2> QED
    BY <1>a, <2>1, <2>3, FinishPublishes
<1>4. CASE Crash(w)
  BY <1>a, <1>q, <1>4, FinishPublishes DEF Crash, QueuePublishes, IsPublish
<1>5. CASE Claim(w) \/ LoadContext(w) \/ MarkNeedsReauth(w) \/ WriteProcessing(w) \/ WriteRetry(w)
  BY <1>5, <1>g DEF Claim, LoadContext, MarkNeedsReauth, WriteProcessing, WriteRetry, Goto,
                    Write, Enqueue
<1>6. CASE GetToken(w) \/ TryFails(w)
  BY <1>6, <1>c, <1>e, <1>g DEF GetToken, TryFails, Goto
<1>7. CASE Send(w)
  BY <1>7, <1>c, <1>e, <1>g DEF Send, Write, Goto
<1>8. CASE LoseLock(w)
  BY <1>8, <1>g DEF LoseLock
<1>9. ~ (ReadProcessing(w) \/ SendCheck(w) \/ WritePending(w) \/ PollAgain(w))
  BY <1>q DEF ReadProcessing, SendCheck, WritePending, PollAgain, Outgoing, NoPolls
<1> QED
  BY <1>1, <1>2, <1>3, <1>4, <1>5, <1>6, <1>7, <1>8, <1>9 DEF WorkerStep, WorkerFault

LEMMA RequestPublishes ==
  ASSUME TypeOK, NoChecks, NEW c \in Calls, NEW r, IsPublish(r.jobs), api' = [api EXCEPT ![c] = r],
         UNCHANGED <<task, due>>, QueuePublishes'
  PROVE  NoChecks'
<1>1. api'[c].jobs = r.jobs /\ \A d \in Calls : d # c => api'[d] = api[d]
  BY DEF TypeOK
<1> QED
  BY <1>1 DEF NoChecks, QueuePublishes, IsPublish, Publishes

LEMMA ThenPublishes ==
  ASSUME TypeOK, NoChecks, NEW c \in Calls, NEW p, NEW js, IsPublish(js), Then(c, p, js),
         UNCHANGED <<task, due>>, QueuePublishes'
  PROVE  NoChecks'
<1>1. PICK r : /\ api' = [api EXCEPT ![c] = r]
               /\ r = IF js = {} /\ ~ api[c].again THEN NoRequest
                      ELSE [NoRequest EXCEPT !.pc = p, !.jobs = js, !.again = api[c].again]
  BY DEF Then, TypeOK
<1>2. IsPublish(r.jobs)
  BY <1>1 DEF NoRequest, IsPublish
<1> QED
  BY <1>1, <1>2, RequestPublishes

LEMMA ApiPublishes ==
  ASSUME TypeOK, NoChecks, NEW c \in Calls,
         \/ Create(c) \/ ScheduleRead(c) \/ EditRead(c) \/ Unschedule(c) \/ RetryRead(c) \/ Remove(c)
         \/ ApiStep(c) \/ ApiFault(c)
  PROVE  NoChecks'
<1> USE DEF workerVars, maintVars
<1>1. UNCHANGED <<task, due>>
  BY DEF Create, ScheduleRead, EditRead, Unschedule, RetryRead, Remove, ApiStep, ApiFault,
         ScheduleTx, EditTx, RetryTx, CancelJob, EnqueueJob, QueueCallFails, ApiCrash
<1>2. \A ts : IsPublish(PublishIds(ts))
  BY DEF PublishIds, PublishId, IsPublish
<1>3. QueuePublishes /\ \A id \in api[c].jobs : id.kind = "publish"
  BY DEF NoChecks, QueuePublishes, IsPublish
<1>4. QueuePublishes'
  <2>1. CASE UNCHANGED queue
    BY <1>3, <2>1 DEF QueuePublishes
  <2>2. CASE CancelJob(c)
    BY <1>3, <2>2 DEF CancelJob, QueuePublishes, IsPublish
  <2>3. CASE EnqueueJob(c)
    BY <1>3, <2>3, AddPublishes DEF EnqueueJob, QueuePublishes, IsPublish
  <2> QED
    BY <2>1, <2>2, <2>3 DEF Create, ScheduleRead, EditRead, Unschedule, RetryRead, Remove, ApiStep,
         ApiFault, ScheduleTx, EditTx, RetryTx, QueueCallFails, ApiCrash
<1>5. CASE Unschedule(c) \/ Remove(c)
  BY <1>1, <1>2, <1>4, <1>5, ThenPublishes DEF Unschedule, Remove
<1>6. CASE EditTx(c) \/ EnqueueJob(c) \/ QueueCallFails(c)
  <2>1. PICK p, js : Then(c, p, js) /\ js \subseteq api[c].jobs
    BY <1>6 DEF EditTx, EnqueueJob, QueueCallFails
  <2> QED
    BY <1>1, <1>3, <1>4, <2>1, ThenPublishes DEF IsPublish
<1>7. ASSUME NEW r, r \in {NoRequest, [NoRequest EXCEPT !.pc = "schedule"]},
             api' = [api EXCEPT ![c] = r]
      PROVE  NoChecks'
  <2>1. r.jobs = {}
    BY <1>7 DEF NoRequest
  <2> QED
    BY <1>1, <1>4, <1>7, <2>1, RequestPublishes DEF IsPublish
<1>8. CASE CancelJob(c)
  <2>1. CASE \E js : Then(c, "cancel", js) /\ js \subseteq api[c].jobs
    BY <1>1, <1>3, <1>4, <2>1, ThenPublishes DEF IsPublish
  <2> QED
    BY <1>7, <1>8, <2>1 DEF CancelJob, Ends
<1>9. CASE RetryTx(c) \/ ApiCrash(c)
  <2>1. CASE \E t, n : Then(c, "enqueue", {PublishId(t, n)})
    <3>1. PICK id : id.kind = "publish" /\ Then(c, "enqueue", {id})
      BY <2>1 DEF PublishId
    <3> QED
      BY <1>1, <1>4, <3>1, ThenPublishes DEF IsPublish
  <2>2. CASE Ends(c)
    BY <1>7, <2>2 DEF Ends
  <2> QED
    BY <1>9, <2>1, <2>2 DEF RetryTx, ApiCrash
<1>10. CASE Create(c) \/ ScheduleRead(c)
  <2>1. CASE UNCHANGED api
    BY <1>1, <1>4, <2>1 DEF NoChecks, QueuePublishes, Publishes
  <2>2. CASE api' = [api EXCEPT ![c].pc = "schedule"]
    <3>1. PICK r : r = [api[c] EXCEPT !.pc = "schedule"] /\ api' = [api EXCEPT ![c] = r]
      BY <2>2
    <3>2. r.jobs = api[c].jobs
      BY <3>1 DEF TypeOK, Requests
    <3> QED
      BY <1>1, <1>3, <1>4, <3>1, <3>2, RequestPublishes DEF IsPublish
  <2> QED
    BY <1>10, <2>1, <2>2 DEF Create, ScheduleRead
<1>11. CASE EditRead(c) \/ RetryRead(c)
  <2>1. PICK r, ts : api' = [api EXCEPT ![c] = r] /\ r.jobs = PublishIds(ts)
    <3>1. CASE EditRead(c)
      <4>1. PICK cs, again : api' = [api EXCEPT ![c] = [pc |-> "edit", jobs |-> PublishIds(Rows),
                                       chans |-> cs, again |-> again, sure |-> FALSE]]
        BY <3>1 DEF EditRead
      <4>2. [pc |-> "edit", jobs |-> PublishIds(Rows), chans |-> cs, again |-> again,
             sure |-> FALSE].jobs = PublishIds(Rows)
        OBVIOUS
      <4> QED
        BY <4>1, <4>2
    <3>2. CASE RetryRead(c)
      <4>1. PICK t, s : api' = [api EXCEPT ![c] = [NoRequest EXCEPT !.pc = "retry", !.jobs = PublishIds({t}),
                                                                    !.sure = s]]
        BY <3>2 DEF RetryRead
      <4>2. [NoRequest EXCEPT !.pc = "retry", !.jobs = PublishIds({t}), !.sure = s].jobs = PublishIds({t})
        BY DEF NoRequest
      <4> QED
        BY <4>1, <4>2
    <3> QED
      BY <1>11, <3>1, <3>2
  <2> QED
    BY <1>1, <1>2, <1>4, <2>1, RequestPublishes
<1>12. CASE ScheduleTx(c)
  <2>1. PICK p, ts : api' = [api EXCEPT ![c] = [NoRequest EXCEPT !.pc = p,
                                                 !.jobs = {PublishId(t, version[t] + 1) : t \in ts}]]
    BY <1>12 DEF ScheduleTx
  <2>2. [NoRequest EXCEPT !.pc = p, !.jobs = {PublishId(t, version[t] + 1) : t \in ts}].jobs
          = {PublishId(t, version[t] + 1) : t \in ts}
    BY DEF NoRequest
  <2>3. IsPublish({PublishId(t, version[t] + 1) : t \in ts})
    BY DEF IsPublish, PublishId
  <2> QED
    BY <1>1, <1>4, <2>1, <2>2, <2>3, RequestPublishes
<1> QED
  BY <1>5, <1>6, <1>8, <1>9, <1>10, <1>11, <1>12 DEF ApiStep, ApiFault

LEMMA NoChecksStep ==
  ASSUME TypeOK, Outgoing, NoPolls, NoChecks, [Next]_vars
  PROVE  NoChecks'
<1> USE DEF workerVars, maintVars
<1>q. QueuePublishes
  BY DEF NoChecks, QueuePublishes
<1>1. ASSUME UNCHANGED <<task, api>>, QueuePublishes', IsPublish(due') PROVE NoChecks'
  BY <1>1 DEF NoChecks, QueuePublishes, Publishes
<1>2. ASSUME NEW ch \in Channels, Disconnect(ch) \/ Reconnect(ch) PROVE NoChecks'
  BY <1>2 DEF Disconnect, Reconnect, NoChecks, Publishes
<1>3. CASE RecoverStalled
  <2>1. PICK j \in queue :
          queue' = Without(j.id) \cup
            {IF j.stalls = 0 THEN [j EXCEPT !.st = "waiting", !.stalls = 1] ELSE Finished(j)}
    BY <1>3 DEF RecoverStalled
  <2>2. /\ j.id.kind = "publish" /\ Finished(j).id = j.id
        /\ [j EXCEPT !.st = "waiting", !.stalls = 1].id = j.id
    BY <1>q DEF QueuePublishes, IsPublish, Finished, TypeOK, Jobs
  <2>3. QueuePublishes'
    BY <1>q, <2>1, <2>2 DEF QueuePublishes, IsPublish, Without
  <2> QED
    BY <1>1, <1>3, <2>3 DEF RecoverStalled, NoChecks
<1>4. CASE SweepRead
  <2>1. IsPublish(due')
    BY <1>4 DEF SweepRead, IsPublish, PublishId
  <2> QED
    BY <1>1, <1>4, <1>q, <2>1 DEF SweepRead, QueuePublishes
<1>5. CASE SweepEnsure
  <2>1. PICK id \in due :
          /\ due' = due \ {id}
          /\ queue' = IF \E j \in Job(id) : j.st \in {"waiting", "active"} THEN queue
                      ELSE Without(id) \cup {NewJob(id)}
    BY <1>5 DEF SweepEnsure
  <2>2. id.kind = "publish" /\ NewJob(id).id = id
    BY DEF NoChecks, IsPublish, NewJob
  <2>3. QueuePublishes' /\ IsPublish(due')
    BY <1>q, <2>1, <2>2 DEF NoChecks, QueuePublishes, IsPublish, Without
  <2> QED
    BY <1>1, <1>5, <2>3 DEF SweepEnsure
<1>6. CASE MaintenanceCrash \/ RedisLoss \/ Expire
  BY <1>1, <1>6, <1>q DEF MaintenanceCrash, RedisLoss, Expire, NoChecks, QueuePublishes, IsPublish
<1>7. CASE RecoverRead \/ RecoverWrite \/ RecoverEarly \/ UNCHANGED vars
  BY <1>7 DEF RecoverRead, RecoverWrite, RecoverEarly, vars, NoChecks, Publishes
<1> QED
  BY <1>2, <1>3, <1>4, <1>5, <1>6, <1>7, WorkerPublishes, ApiPublishes DEF Next, UserStep, Maintenance

LEMMA PaidInit == Init => NoChecks /\ PendingUsed /\ AllPaid
<1> SUFFICES ASSUME Init PROVE NoChecks /\ PendingUsed /\ AllPaid
  OBVIOUS
<1>1. NoTask.kind = "publish" /\ NoRequest.jobs = {} /\ NoRequest.pc = "idle"
  BY DEF NoTask, PublishId, NoRequest
<1>2. NoChecks
  BY <1>1 DEF Init, NoChecks, Publishes, IsPublish
<1>3. Pending = {}
  BY <1>1 DEF Init, Pending, Retrying
<1>4. ASSUME NEW ch \in Channels PROVE Paid(ch)
  <2>1. Sending(ch) = {} /\ Unsent(ch) = {} /\ Open(ch) = {ch} /\ Late(ch) = {}
    BY <1>3 DEF Init, Sending, Attempting, Owns, Unsent, Open, Late, Rows
  <2>2. MayShow(ch) = 1 /\ Cardinality(Late(ch)) = 0
    BY <2>1, FS_EmptySet, FS_Singleton DEF MayShow
  <2> QED
    BY <2>2 DEF Init, Paid
<1> QED
  BY <1>2, <1>3, <1>4 DEF PendingUsed, AllPaid

LEMMA PaidImplies == TypeOK /\ AllPaid => PublishedOnce
<1> SUFFICES ASSUME TypeOK, AllPaid, NEW ch \in Channels PROVE live[ch] <= 1 + confirmed[ch]
  BY DEF PublishedOnce
<1>1. /\ IsFiniteSet(Sending(ch)) /\ IsFiniteSet(Unsent(ch)) /\ IsFiniteSet(Open(ch))
      /\ Cardinality(Late(ch)) \in Nat /\ live[ch] \in Nat /\ confirmed[ch] \in Nat
  BY CountsFinite, LateCounts DEF TypeOK, HistoryType
<1>2. MayShow(ch) \in Nat
  BY <1>1, FS_CardinalityType DEF MayShow
<1> QED
  BY <1>1, <1>2 DEF AllPaid, Paid

\* Never publish twice, where the platforms publish at once, for any number of rows,
\* channels, workers and requests and whatever fails: as long as no other request sends the
\* rows again between the check and the transaction of a retry, and edits delete nothing
\* that may have been sent, a channel shows the post once, and once more for every retry
\* its user confirmed.  A retry may still write over a row that its recovery, or a worker
\* slower than the recovery, has meanwhile made one that may have been sent.
THEOREM PublishedOnceAlone ==
  ASSUME Containers = {} PROVE Spec /\ []RequestsAlone => []PublishedOnce
<1>1. Init => TypeOK /\ Outgoing /\ Accounting /\ NoPolls /\ NoChecks /\ PendingUsed /\ AllPaid
  <2>1. Init => NoPolls
    BY DEF Init, NoPolls
  <2> QED
    BY <2>1, InitType, AccountingInit, PaidInit
<1>2. /\ TypeOK /\ Outgoing /\ Accounting /\ NoPolls /\ NoChecks /\ PendingUsed /\ AllPaid
      /\ RequestsAlone /\ [Next]_vars
      => TypeOK' /\ Outgoing' /\ Accounting' /\ NoPolls' /\ NoChecks' /\ PendingUsed' /\ AllPaid'
  <2> SUFFICES ASSUME TypeOK, Outgoing, Accounting, NoPolls, NoChecks, PendingUsed, AllPaid,
                      RequestsAlone, [Next]_vars
               PROVE  TypeOK' /\ Outgoing' /\ Accounting' /\ NoPolls' /\ NoChecks' /\ PendingUsed' /\ AllPaid'
    OBVIOUS
  <2>1. TypeOK'
    BY TypeStep
  <2>2. Outgoing' /\ Accounting'
    BY AccountingStep
  <2> QED
    BY <2>1, <2>2, NoPollsStep, NoChecksStep, PendingStep, PaidStep
<1>3. TypeOK /\ AllPaid => PublishedOnce
  BY PaidImplies
<1> QED
  BY <1>1, <1>2, <1>3, PTL DEF Spec
=============================================================================
