-------------------------- MODULE PublishingState --------------------------
(***************************************************************************)
(* The state the publishing system shares, for one post: its rows in       *)
(* Postgres (posts, post_targets, channels), the BullMQ jobs in Redis, and *)
(* what each worker, API request and maintenance task holds in memory      *)
(* between two awaits.  PublishingWorker, PublishingApi and Publishing add *)
(* the actions.                                                            *)
(*                                                                         *)
(* A row that posts.service.update deletes is never reused: a target id is *)
(* "unused" until it is inserted and "deleted" for ever afterwards.        *)
(***************************************************************************)
EXTENDS Naturals, FiniteSets, RetryPolicy, PostStatus

CONSTANTS
  Targets,      \* ids of post_targets rows
  Channels,     \* connected social accounts
  ChannelOf,    \* the channel of each target row
  Containers,   \* the channels whose platform publishes in a later status check
  Workers,      \* job slots of the worker processes
  Calls,        \* API requests that may be in progress at once
  Operations,   \* the API operations users may call
  MaxChecks,    \* MAX_STATUS_CHECKS
  MaxTries,     \* attempts of a status-check job (3)
  MaxOps,       \* bound: API operations in a behaviour
  MaxFaults     \* bound: faults in a behaviour

ASSUME TargetsAssumption ==
  Targets # {} /\ ChannelOf \in [Targets -> Channels] /\ Containers \subseteq Channels
ASSUME FiniteAssumption == IsFiniteSet(Targets) /\ IsFiniteSet(Workers)
ASSUME BoundsAssumption ==
  /\ MaxChecks \in Nat \ {0}
  /\ MaxTries \in Nat \ {0}
  /\ MaxOps \in Nat
  /\ MaxFaults \in Nat

VARIABLES
  \* Postgres
  postStatus,   \* posts.status
  deleted,      \* posts.deleted_at is set
  status,       \* post_targets.status, or "unused" / "deleted"
  version,      \* post_targets.schedule_version
  attempts,     \* post_targets.attempts
  pending,      \* post_targets.pending_data is set
  channel,      \* channels.status
  \* Redis
  queue,        \* the BullMQ jobs that exist
  \* memory of the processes
  pc, task, local,  \* of each worker: where it is, its job, its variables
  held,         \* the worker still holds the BullMQ lock of its job
  api,          \* of each API request
  due, stuck,   \* rows the sweep and the recovery have read and not yet handled
  \* bounds
  ops, faults,  \* API operations and faults left
  \* history
  live,         \* posts each channel shows
  confirmed,    \* retries a user confirmed after checking the platform
  slips,        \* steps the database could not stop (see Publishing)
  asked         \* a status check may have published the row and has not recorded it

postVars   == <<postStatus, deleted>>
rowVars    == <<status, version, attempts, pending>>
workerVars == <<pc, task, local, held>>
maintVars  == <<due, stuck>>
bounds     == <<ops, faults>>
history    == <<live, confirmed, slips, asked>>
vars == <<postVars, rowVars, channel, queue, workerVars, api, maintVars, bounds, history>>

-----------------------------------------------------------------------------
(* Types *)

RowStatus == TargetStatus \cup {"unused", "deleted"}
ChannelStatus == {"active", "needs_reauth", "disconnected"}

\* A job id: publish.<target>.<schedule version> or status.<target>.<check>.
JobIds == [kind : {"publish", "check"}, target : Targets, num : Nat]
PublishId(t, v) == [kind |-> "publish", target |-> t, num |-> v]
CheckId(t, k)   == [kind |-> "check", target |-> t, num |-> k]

\* A job: tries counts the processor runs that threw, stalls the recoveries from a lost
\* lock.  A "finished" job (completed or failed, which the code treats alike) is kept.
Jobs == [id : JobIds, st : {"waiting", "active", "finished"}, tries : Nat, stalls : Nat]

\* What a worker is about to write when its pc is "write".
Outcomes == {"published", "processing", "pending", "timeout", "retry", "failed", "unconfirmed"}
WorkerPc == {"idle", "claim", "load", "token", "reauth", "send", "revoked", "write",
             "enqueue", "poll", "repoll"}
\* attempt: target.attempts as claimed; fresh: alreadyRefreshed; next: the version or
\* check to enqueue.  (sent follows from the pc.)
Locals == [attempt : Nat, fresh : BOOLEAN, out : Outcomes, next : Nat]

\* An API request: the jobs it has yet to cancel or enqueue (for a retry, the row it
\* read), the channels an edit inserts, whether a schedule follows, and the user's
\* confirmNotPublished.
Requests == [pc : {"idle", "schedule", "edit", "retry", "enqueue", "cancel"},
             jobs : SUBSET JobIds, chans : SUBSET Channels, again : BOOLEAN, sure : BOOLEAN]

-----------------------------------------------------------------------------
(* Rows *)

\* The targets a query by post id returns.
Rows == {t \in Targets : status[t] \notin {"unused", "deleted"}}

\* Mutant of RollUp: it reads the rows as they were before the transaction.
RollUpOutside(st) ==
  postStatus' = DerivePostStatus({status[t] : t \in {u \in DOMAIN st : status[u] \notin {"unused", "deleted"}}},
                                 postStatus)

\* rollUpPostStatus in the transaction that sets the statuses to st.
RollUp(st) ==
  postStatus' = DerivePostStatus({st[t] : t \in {u \in Targets : st[u] \notin {"unused", "deleted"}}},
                                 postStatus)

\* The statuses a claim accepts.  ("queued" is never written.)
Waiting == {"scheduled", "queued"}

-----------------------------------------------------------------------------
(* BullMQ.  Adding a job whose id exists does nothing. *)

Job(id) == {j \in queue : j.id = id}
Without(id) == queue \ Job(id)
NewJob(id) == [id |-> id, st |-> "waiting", tries |-> 0, stalls |-> 0]

Add(id) == queue' = IF Job(id) = {} THEN queue \cup {NewJob(id)} ELSE queue
AddedTo(q, id) == IF \E j \in q : j.id = id THEN q ELSE q \cup {NewJob(id)}

Finished(j) == [j EXCEPT !.st = "finished", !.tries = 0, !.stalls = 0]
Again(j)    == [id |-> j.id, st |-> "waiting", tries |-> j.tries + 1, stalls |-> j.stalls]

\* The queue once worker w's job has returned normally.
JobDone(w) ==
  {IF j.id = task[w] /\ held[w] THEN Finished(j) ELSE j : j \in queue}

\* The queue once w's job has thrown: a publish job has one attempt, a check MaxTries.
JobThrew(w) ==
  LET tries(j) == IF j.id.kind = "publish" THEN 1 ELSE MaxTries
      after(j) == IF j.tries + 1 < tries(j) THEN Again(j) ELSE Finished(j)
  IN  {IF j.id = task[w] /\ held[w] THEN after(j) ELSE j : j \in queue}
=============================================================================
