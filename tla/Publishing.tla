----------------------------- MODULE Publishing -----------------------------
(***************************************************************************)
(* The publishing pipeline of one post: the API, the queue, the workers    *)
(* and the maintenance that repairs what they lose.                        *)
(*                                                                         *)
(* Time is abstract: a scheduled target is due, and a row is old enough to *)
(* be recovered when no worker is at it (or, spending a fault, when the    *)
(* worker at it is slower than the recovery's patience).                   *)
(***************************************************************************)
EXTENDS PublishingApi, PublishingWorker

\* sweepDueTargets: the rows that are due are read ...
SweepRead ==
  /\ due = {}
  /\ due' = {PublishId(t, version[t]) : t \in {u \in Rows : status[u] \in Waiting}}
  /\ UNCHANGED <<postVars, rowVars, channel, queue, workerVars, api, stuck, bounds, history>>

\* Mutant of SweepEnsure: a job that exists is left alone, a finished one included.
SweepEnsureAbsent ==
  /\ \E id \in due : due' = due \ {id} /\ Add(id)
  /\ UNCHANGED <<postVars, rowVars, channel, workerVars, api, stuck, bounds, history>>

\* ... and ensurePublish replaces each one's job unless it is waiting or active.
SweepEnsure ==
  /\ \E id \in due :
       /\ due' = due \ {id}
       /\ queue' = IF \E j \in Job(id) : j.st \in {"waiting", "active"} THEN queue
                   ELSE Without(id) \cup {NewJob(id)}
  /\ UNCHANGED <<postVars, rowVars, channel, workerVars, api, stuck, bounds, history>>

\* Some worker is running a job of target t.
AtWork(t) == \E w \in Workers : pc[w] # "idle" /\ Target(w) = t

\* recoverStuckTargets: the rows that stopped moving are read ...
Stuck == {t \in Rows : status[t] \in {"publishing", "processing"} /\ ~ AtWork(t)}
RecoverRead ==
  /\ stuck = {}
  /\ stuck' = Stuck
  /\ UNCHANGED <<postVars, rowVars, channel, queue, workerVars, api, due, bounds, history>>

\* ... among them one whose worker is slower than the recovery waits ...
RecoverEarly ==
  /\ stuck = {}
  /\ Fault
  /\ \E t \in Rows : /\ status[t] \in {"publishing", "processing"} /\ AtWork(t)
                     /\ stuck' = Stuck \cup {t}
  /\ UNCHANGED <<postVars, rowVars, channel, queue, workerVars, api, due, history>>

\* Mutant of RecoverWrite: a stuck target becomes failed.
RecoverWriteFailed ==
  /\ \E t \in stuck \cap Rows :
       /\ stuck' = stuck \ {t}
       /\ status' = [status EXCEPT ![t] = "failed"]
       /\ RollUp(status')
  /\ UNCHANGED <<deleted, version, attempts, pending, channel, queue, workerVars, api, due,
                 bounds, history>>

\* ... and become unconfirmed, whatever they are by now.  (The write of a row that
\* update() deleted fails, and the task with it.)
RecoverWrite ==
  /\ \E t \in stuck :
       IF t \in Rows
       THEN /\ stuck' = stuck \ {t}
            /\ status' = [status EXCEPT ![t] = "unconfirmed"]
            /\ RollUp(status')
       ELSE stuck' = {} /\ UNCHANGED <<postStatus, status>>
  /\ UNCHANGED <<deleted, version, attempts, pending, channel, queue, workerVars, api, due,
                 bounds, history>>

\* The maintenance worker dies between reading rows and handling them.
MaintenanceCrash ==
  /\ maintVars # <<{}, {}>>
  /\ Fault
  /\ due' = {} /\ stuck' = {}
  /\ UNCHANGED <<postVars, rowVars, channel, queue, workerVars, api, history>>

\* A finished job reaches its retention age and is removed.  (Bounded like a fault.)
Expire ==
  /\ \E j \in queue : j.st = "finished" /\ queue' = queue \ {j}
  /\ Fault
  /\ UNCHANGED <<postVars, rowVars, channel, workerVars, api, maintVars, history>>

\* Redis comes back empty.  No worker holds a lock any more.
RedisLoss ==
  /\ queue # {}
  /\ Fault
  /\ queue' = {}
  /\ held' = [w \in Workers |-> FALSE]
  /\ UNCHANGED <<postVars, rowVars, channel, pc, task, local, api, maintVars, history>>

Maintenance == SweepRead \/ SweepEnsure \/ RecoverRead \/ RecoverWrite

-----------------------------------------------------------------------------
Init ==
  /\ postStatus = "draft" /\ deleted = FALSE
  /\ status = [t \in Targets |-> "unused"]
  /\ version = [t \in Targets |-> 0]
  /\ attempts = [t \in Targets |-> 0]
  /\ pending = [t \in Targets |-> FALSE]
  /\ channel = [ch \in Channels |-> "active"]
  /\ queue = {}
  /\ pc = [w \in Workers |-> "idle"]
  /\ task = [w \in Workers |-> NoTask]
  /\ local = [w \in Workers |-> NoLocal]
  /\ held = [w \in Workers |-> FALSE]
  /\ api = [c \in Calls |-> NoRequest]
  /\ due = {} /\ stuck = {}
  /\ ops = MaxOps /\ faults = MaxFaults
  /\ live = [ch \in Channels |-> 0]
  /\ confirmed = [ch \in Channels |-> 0]
  /\ slips = [ch \in Channels |-> 0]
  /\ asked = [t \in Targets |-> FALSE]

Next ==
  \/ UserStep
  \/ \E c \in Calls : ApiStep(c) \/ ApiFault(c)
  \/ \E w \in Workers : WorkerStep(w) \/ WorkerFault(w)
  \/ RecoverStalled
  \/ Maintenance
  \/ RecoverEarly \/ MaintenanceCrash
  \/ Expire
  \/ RedisLoss

Spec == Init /\ [][Next]_vars

\* The worker loop, BullMQ's stalled check and the repeatable maintenance jobs keep
\* running; nothing is assumed of users, API requests, faults or retention.
Fairness ==
  /\ \A w \in Workers : WF_vars(WorkerStep(w))
  /\ WF_vars(RecoverStalled)
  /\ WF_vars(SweepRead) /\ WF_vars(SweepEnsure)
  /\ WF_vars(RecoverRead) /\ WF_vars(RecoverWrite)

FairSpec == Spec /\ Fairness

-----------------------------------------------------------------------------
(* Properties *)

RowType     == /\ status \in [Targets -> RowStatus]
               /\ version \in [Targets -> Nat] /\ attempts \in [Targets -> Nat]
               /\ pending \in [Targets -> BOOLEAN]
WorkerType  == /\ pc \in [Workers -> WorkerPc] /\ task \in [Workers -> JobIds]
               /\ local \in [Workers -> Locals] /\ held \in [Workers -> BOOLEAN]
HistoryType == /\ live \in [Channels -> Nat] /\ confirmed \in [Channels -> Nat]
               /\ slips \in [Channels -> Nat] /\ asked \in [Targets -> BOOLEAN]

\* Every variable keeps its type; in particular the roll-up only ever writes a status of
\* the posts.status enum, and only statuses of post_targets.status are written to rows.
TypeOK ==
  /\ postStatus \in PostStatuses /\ deleted \in BOOLEAN
  /\ RowType
  /\ channel \in [Channels -> ChannelStatus]
  /\ queue \subseteq Jobs
  /\ WorkerType
  /\ api \in [Calls -> Requests]
  /\ due \subseteq JobIds /\ stuck \subseteq Targets
  /\ ops \in Nat /\ faults \in Nat
  /\ HistoryType

VersionStep ==
  \A t \in Targets :
    /\ version'[t] >= version[t]
    /\ status[t] \notin Waiting /\ status'[t] \in Waiting => version'[t] > version[t]

\* Every writer that puts a row back to be sent bumps its schedule version, and no
\* version ever goes back: what makes a job left over from an older schedule, or from an
\* attempt in progress, stale (target-state.ts, posts.service.ts).
FreshVersion == [][VersionStep]_vars

\* Worker w runs the attempt it has claimed and has not written its outcome.
Owns(w) == pc[w] \in {"load", "token", "reauth", "send", "revoked", "write"} /\ Publishes(w)

\* The claim takes ownership: whatever jobs are delivered twice, swept again, left over
\* from an older schedule or run by two workers at once, two workers never run the same
\* attempt (row and schedule version), and an attempt somebody runs cannot be claimed
\* again (target-state.ts, claim).
OneOwner ==
  \A w \in Workers : Owns(w) =>
    /\ ~ (status[Target(w)] \in Waiting /\ version[Target(w)] = task[w].num)
    /\ \A u \in Workers : Owns(u) /\ task[u] = task[w] => u = w

\* Worker w runs an attempt that has not shown the post and still may.
Attempting(w) ==
  Owns(w) /\ (pc[w] = "write" => local[w].out \in {"processing", "retry", "failed"})

\* The attempts in progress for channel ch, ...
Sending(ch) == {w \in Workers : Attempting(w) /\ ChannelRow(w) = ch}
\* ... its rows that will be sent or that a user may send again without being asked, ...
Unsent(ch) ==
  {t \in Rows : /\ ChannelOf[t] = ch
                /\ \/ status[t] \in {"draft", "scheduled", "queued", "failed", "canceled"}
                   \/ status[t] = "processing" /\ ~ asked[t]}
\* ... and the channel itself while the post may still be given it.
Open(ch) == {ch} \ {ChannelOf[t] : t \in Rows}

\* What may still make a post of channel ch appear.
MayShow(ch) == Cardinality(Sending(ch)) + Cardinality(Unsent(ch)) + Cardinality(Open(ch))

\* Never publish twice: the posts a channel shows, and those that may still appear on
\* it, are one, plus one for every retry a user confirmed after checking the platform,
\* plus one for every slip (publishing-engine.ts, invariant 1).
Accounting ==
  \A ch \in Channels : live[ch] + MayShow(ch) <= 1 + confirmed[ch] + slips[ch]

\* What users are told is unsent is unsent: with no confirmed retry and no slip, the
\* channel of a row that is a draft, waiting, failed or canceled shows no post of it,
\* and no worker is sending one (unschedule and remove race an active job; a failure is
\* offered for a retry without a question).
UnsentIsUnsent ==
  \A t \in Rows :
    LET ch == ChannelOf[t] IN
    confirmed[ch] + slips[ch] = 0 /\ status[t] \in SCHEDULABLE
      => live[ch] = 0 /\ \A w \in Workers : ~ (Owns(w) /\ ChannelRow(w) = ch)

\* Never publish twice, without the allowance for slips.
PublishedOnce == \A ch \in Channels : live[ch] <= 1 + confirmed[ch]

\* "Only failed posts can be retried" (posts.service.ts:213): a published target is never
\* put back to be sent.
PublishedIsFinal ==
  [][\A t \in Targets : status[t] = "published" => status'[t] # "scheduled"]_vars

\* An edit is "refused once any target has been sent" (posts.service.ts:75): a row that
\* is being, or has been, sent is never deleted.
EditRefusedOnceSent ==
  [][\A t \in Targets : status[t] \in IN_FLIGHT_OR_DONE => status'[t] # "deleted"]_vars

\* "The post row never disagrees with its targets" (queries/posts.ts:11), for a post to one
\* channel: every writer of its target rolls it up, but those that cancel (disconnect and remove),
\* after which the post may keep the status it had.  That a transaction and its roll-up may be
\* taken as one step is what OneTargetAgrees of PostTransactions shows for one target; for two it
\* is not so, and nothing is claimed of them here.
PostAgrees == postStatus = DerivePostStatus({status[t] : t \in Rows}, postStatus)
PostAgreesUnlessCanceled ==
  Cardinality(Channels) = 1 => PostAgrees \/ \E t \in Rows : status[t] = "canceled"

\* Never lose a post: a target that is waiting or in flight reaches a state the user
\* sees, whatever crashes, lost jobs and failed writes happen on the way
\* (publishing-engine.ts, invariant 2).
Settles ==
  \A t \in Targets : status[t] \in {"scheduled", "publishing", "processing"}
    ~> status[t] \notin {"scheduled", "publishing", "processing"}
=============================================================================
