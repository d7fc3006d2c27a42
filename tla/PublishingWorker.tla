-------------------------- MODULE PublishingWorker -------------------------
(***************************************************************************)
(* The publishing engine: a worker runs publish jobs and status checks.    *)
(* Each action is what a worker does between two awaits: one database      *)
(* transaction, one platform call or one queue call.                       *)
(***************************************************************************)
EXTENDS PublishingState

Target(w)     == task[w].target
ChannelRow(w) == ChannelOf[Target(w)]
Publishes(w)  == task[w].kind = "publish"

NoTask  == PublishId(CHOOSE t \in Targets : TRUE, 0)
NoLocal == [attempt |-> 0, fresh |-> FALSE, out |-> "failed", next |-> 0]

Goto(w, p) == pc' = [pc EXCEPT ![w] = p] /\ UNCHANGED <<task, held>>
\* Next write the outcome o.
Write(w, o) == Goto(w, "write") /\ local' = [local EXCEPT ![w] = [NoLocal EXCEPT !.out = o]]
\* Next enqueue the retry or the check numbered n.
Enqueue(w, p, n) == Goto(w, p) /\ local' = [local EXCEPT ![w] = [NoLocal EXCEPT !.next = n]]

\* The processor returns, or throws.
Finish(w, q) ==
  /\ queue' = q
  /\ pc' = [pc EXCEPT ![w] = "idle"]
  /\ local' = [local EXCEPT ![w] = NoLocal]
  /\ held' = [held EXCEPT ![w] = FALSE]
  /\ task' = [task EXCEPT ![w] = NoTask]
Return(w) == Finish(w, JobDone(w))
Throw(w)  == Finish(w, JobThrew(w))

-----------------------------------------------------------------------------
\* A BullMQ worker takes the lock of a waiting job and runs its processor.
StartJob(w) ==
  /\ pc[w] = "idle"
  /\ \E j \in queue :
       /\ j.st = "waiting"
       /\ queue' = Without(j.id) \cup {[j EXCEPT !.st = "active"]}
       /\ task' = [task EXCEPT ![w] = j.id]
       /\ pc' = [pc EXCEPT ![w] = "claim"]
       /\ held' = [held EXCEPT ![w] = TRUE]
  /\ UNCHANGED <<postVars, rowVars, channel, local, api, maintVars, bounds, history>>

\* Mutant of Claim: the UPDATE compares the version and not the status.
ClaimAnyStatus(w) ==
  LET t == Target(w) IN
  /\ pc[w] = "claim" /\ Publishes(w)
  /\ t \in Rows /\ version[t] = task[w].num
  /\ status' = [status EXCEPT ![t] = "publishing"]
  /\ attempts' = [attempts EXCEPT ![t] = @ + 1]
  /\ RollUp(status')
  /\ local' = [local EXCEPT ![w].attempt = attempts[t] + 1]
  /\ Goto(w, "load")
  /\ UNCHANGED <<deleted, version, pending, channel, queue, api, maintVars, bounds, history>>

\* TargetState.claim: the conditional UPDATE, the timeline event and the roll-up.
Claim(w) ==
  LET t == Target(w) IN
  /\ pc[w] = "claim" /\ Publishes(w)
  /\ status[t] \in Waiting /\ version[t] = task[w].num
  /\ status' = [status EXCEPT ![t] = "publishing"]
  /\ attempts' = [attempts EXCEPT ![t] = @ + 1]
  /\ RollUp(status')
  /\ local' = [local EXCEPT ![w].attempt = attempts[t] + 1]
  /\ Goto(w, "load")
  /\ UNCHANGED <<deleted, version, pending, channel, queue, api, maintVars, bounds, history>>

\* publish: no row came back from the claim.
SkipStale(w) ==
  LET t == Target(w) IN
  /\ pc[w] = "claim" /\ Publishes(w)
  /\ ~ (status[t] \in Waiting /\ version[t] = task[w].num)
  /\ Return(w)
  /\ UNCHANGED <<postVars, rowVars, channel, api, maintVars, bounds, history>>

\* publish: the post is read again; a deleted post or content that no longer passes
\* the platform's rules fails the target.
LoadContext(w) ==
  /\ pc[w] = "load"
  /\ IF deleted THEN Write(w, "failed")
     ELSE \/ Goto(w, "token") /\ UNCHANGED local
          \/ Write(w, "failed")
  /\ UNCHANGED <<postVars, rowVars, channel, queue, api, maintVars, bounds, history>>

\* checkStatus: the row is read, with no claim and no version; a row that is not
\* processing ends the job; a platform that is no longer set up, or has no status check, leaves
\* the target unconfirmed.
ReadProcessing(w) ==
  LET t == Target(w) IN
  /\ pc[w] = "claim" /\ ~ Publishes(w)
  /\ IF status[t] = "processing" /\ pending[t]
     THEN /\ \/ Goto(w, "token") /\ UNCHANGED local
             \/ Write(w, "unconfirmed")
          /\ UNCHANGED queue
     ELSE Return(w)
  /\ UNCHANGED <<postVars, rowVars, channel, api, maintVars, bounds, history>>

\* What a decision of the retry policy makes the worker do.
Apply(w, decision) ==
  CASE decision = "retry"       -> Write(w, "retry")
    [] decision = "fail"        -> Write(w, "failed")
    [] decision = "revoked"     -> Goto(w, "revoked") /\ UNCHANGED local
    [] decision = "unconfirmed" -> Write(w, "unconfirmed")
    [] decision = "refresh_token" ->
         IF Publishes(w)
         THEN Goto(w, "token") /\ local' = [local EXCEPT ![w].fresh = TRUE]
         ELSE Write(w, "unconfirmed")

\* The catch of publish, and of checkStatus, for an error of the given kind, before or
\* after the provider was called.
Catch(w, kind) ==
  LET sent == pc[w] \notin {"token", "reauth"} IN
  IF Publishes(w) THEN Apply(w, Decide(kind, local[w].attempt, sent, local[w].fresh))
  ELSE IF kind \in {"transient", "rate_limited"}
       THEN Enqueue(w, "repoll", task[w].num + 1)
       ELSE Apply(w, Decide(kind, MaxAttempts, TRUE, TRUE))

\* ChannelTokens.getAccessToken: one transaction under the channel's row lock.  An
\* active channel hands out its token (refreshed or not), needs reauthorisation
\* (refresh refused or not supported), or its refresh fails for another reason.
GetToken(w) ==
  /\ pc[w] = "token"
  /\ \/ channel[ChannelRow(w)] = "active" /\ Goto(w, "send") /\ UNCHANGED local
     \/ Goto(w, "reauth") /\ UNCHANGED local
     \/ /\ channel[ChannelRow(w)] = "active"
        /\ \E kind \in {"transient", "rate_limited", "invalid_request"} : Catch(w, kind)
  /\ UNCHANGED <<postVars, rowVars, channel, queue, api, maintVars, bounds, history>>

\* markNeedsReauth: an unconditional write, after the transaction that found the
\* channel unusable ("reauth") or after the platform refused the call ("revoked").
MarkNeedsReauth(w) ==
  /\ pc[w] \in {"reauth", "revoked"}
  /\ channel' = [channel EXCEPT ![ChannelRow(w)] = "needs_reauth"]
  /\ Write(w, "failed")
  /\ UNCHANGED <<postVars, rowVars, queue, api, maintVars, bounds, history>>

Show(w) == live' = [live EXCEPT ![ChannelRow(w)] = @ + 1]

\* The errors that say nothing was published, and those that cannot tell.
Refusals == {"auth", "rate_limited", "invalid_request", "transient"}
Unknowns == ErrorKinds \ Refusals

\* provider.publish.  The post may be live although the answer is lost.
Send(w) ==
  /\ pc[w] = "send" /\ Publishes(w)
  /\ \/ Show(w) /\ Write(w, "published")
     \/ ChannelRow(w) \in Containers /\ Write(w, "processing") /\ UNCHANGED live
     \/ \E kind \in Refusals : Catch(w, kind) /\ UNCHANGED live
     \/ \E kind \in Unknowns : Catch(w, kind) /\ (Show(w) \/ UNCHANGED live)
  /\ UNCHANGED <<postVars, rowVars, channel, queue, api, maintVars, bounds, confirmed, slips, asked>>

\* A slip: one more post than the row's state allows becomes possible.
SlipAt(w, when) ==
  slips' = IF when THEN [slips EXCEPT ![ChannelRow(w)] = @ + 1] ELSE slips

\* provider.checkStatus: Instagram and Threads make the post visible inside this call.
SendCheck(w) ==
  LET t == Target(w)
      Consumes == /\ asked' = [asked EXCEPT ![t] = TRUE]
                  /\ SlipAt(w, asked[t] \/ status[t] # "processing")
  IN
  /\ pc[w] = "send" /\ ~ Publishes(w)
  /\ \/ Consumes /\ Show(w) /\ Write(w, "published")
     \/ \E kind \in Unknowns : Consumes /\ Catch(w, kind) /\ (Show(w) \/ UNCHANGED live)
     \/ /\ Write(w, "pending") \/ \E kind \in Refusals : Catch(w, kind)
        /\ UNCHANGED <<live, asked, slips>>
  /\ UNCHANGED <<postVars, rowVars, channel, queue, api, maintVars, bounds, confirmed>>

-----------------------------------------------------------------------------
(* TargetState: the writes of an outcome.  None of them looks at the row's *)
(* status or version; a row that update() deleted makes the timeline       *)
(* insert, and with it the transaction, fail.                              *)

\* The outcomes written inside the engine's try: a failure of the write is caught.
InTry == {"published", "processing", "pending", "timeout"}

\* published / failed / unconfirmed: a status, its event and the roll-up.  A check that
\* fails a row which another worker has sent meanwhile is a slip.
WriteFinal(w) ==
  LET t   == Target(w)
      out == IF local[w].out = "timeout" THEN "failed" ELSE local[w].out
  IN
  /\ pc[w] = "write" /\ out \in {"published", "failed", "unconfirmed"}
  /\ t \in Rows
  /\ status' = [status EXCEPT ![t] = out]
  /\ pending' = IF out = "published" THEN [pending EXCEPT ![t] = FALSE] ELSE pending
  /\ RollUp(status')
  /\ asked' = [asked EXCEPT ![t] = FALSE]
  /\ SlipAt(w, /\ out = "failed" /\ ~ Publishes(w)
               /\ \/ status[t] \in {"publishing", "published", "unconfirmed"}
                  \/ status[t] = "processing" /\ asked[t])
  /\ Return(w)
  /\ UNCHANGED <<deleted, version, attempts, channel, api, maintVars, bounds, live, confirmed>>

\* processing: then the first status check is enqueued.
WriteProcessing(w) ==
  LET t == Target(w) IN
  /\ pc[w] = "write" /\ local[w].out = "processing"
  /\ t \in Rows
  /\ status' = [status EXCEPT ![t] = "processing"]
  /\ pending' = [pending EXCEPT ![t] = TRUE]
  /\ RollUp(status')
  /\ asked' = [asked EXCEPT ![t] = FALSE]
  /\ Enqueue(w, "poll", 0)
  /\ UNCHANGED <<deleted, version, attempts, channel, queue, api, maintVars, bounds,
                 live, confirmed, slips>>

\* updatePending, which a deleted row does not make fail.
WritePending(w) ==
  LET t == Target(w) IN
  /\ pc[w] = "write" /\ local[w].out = "pending"
  /\ pending' = IF t \in Rows THEN [pending EXCEPT ![t] = TRUE] ELSE pending
  /\ Enqueue(w, "poll", task[w].num + 1)
  /\ UNCHANGED <<postVars, status, version, attempts, channel, queue, api, maintVars, bounds,
                 history>>

\* Mutant of WriteRetry: the row waits again under the version of the failed attempt.
WriteRetrySameVersion(w) ==
  LET t == Target(w) IN
  /\ pc[w] = "write" /\ local[w].out = "retry"
  /\ t \in Rows
  /\ status' = [status EXCEPT ![t] = "scheduled"]
  /\ RollUp(status')
  /\ Enqueue(w, "enqueue", version[t])
  /\ UNCHANGED <<deleted, version, attempts, pending, channel, queue, api, maintVars, bounds,
                 history>>

\* rescheduleForRetry, which bumps the version; then the job is enqueued.
WriteRetry(w) ==
  LET t == Target(w) IN
  /\ pc[w] = "write" /\ local[w].out = "retry"
  /\ t \in Rows
  /\ status' = [status EXCEPT ![t] = "scheduled"]
  /\ version' = [version EXCEPT ![t] = @ + 1]
  /\ RollUp(status')
  /\ Enqueue(w, "enqueue", version[t] + 1)
  /\ UNCHANGED <<deleted, attempts, pending, channel, queue, api, maintVars, bounds, history>>

\* The row is gone: the transaction is rolled back and, tried again or not, the
\* processor throws.
WriteLost(w) ==
  /\ pc[w] = "write" /\ local[w].out # "pending"
  /\ Target(w) \notin Rows
  /\ Throw(w)
  /\ UNCHANGED <<postVars, rowVars, channel, api, maintVars, bounds, history>>

\* jobs.schedulePublish for a retry.
EnqueueRetry(w) ==
  /\ pc[w] = "enqueue"
  /\ Finish(w, AddedTo(JobDone(w), PublishId(Target(w), local[w].next)))
  /\ UNCHANGED <<postVars, rowVars, channel, api, maintVars, bounds, history>>

\* pollAgain: the next check is enqueued, or the target fails after MaxChecks of them.
PollAgain(w) ==
  /\ pc[w] \in {"poll", "repoll"}
  /\ IF local[w].next >= MaxChecks
     THEN Write(w, IF pc[w] = "poll" THEN "timeout" ELSE "failed") /\ UNCHANGED queue
     ELSE Finish(w, AddedTo(JobDone(w), CheckId(Target(w), local[w].next)))
  /\ UNCHANGED <<postVars, rowVars, channel, api, maintVars, bounds, history>>

-----------------------------------------------------------------------------
(* Failures of Postgres or Redis, one at a time, and of the process.       *)

Fault == faults > 0 /\ faults' = faults - 1 /\ UNCHANGED ops

\* A query or queue call outside the engine's try fails: the processor throws.
CallFails(w) ==
  /\ \/ pc[w] \in {"claim", "load", "revoked", "enqueue", "repoll"}
     \/ pc[w] = "write" /\ local[w].out \notin InTry
  /\ Fault
  /\ Throw(w)
  /\ UNCHANGED <<postVars, rowVars, channel, api, maintVars, history>>

\* One inside the try fails: an internal error, before ("token") or after the call.
TryFails(w) ==
  /\ \/ pc[w] \in {"token", "reauth", "poll"}
     \/ pc[w] = "write" /\ local[w].out \in InTry
  /\ Fault
  /\ Catch(w, "internal")
  /\ UNCHANGED <<postVars, rowVars, channel, queue, api, maintVars, history>>

\* The worker process dies; its job stays active with a lock nobody renews.
Crash(w) ==
  /\ pc[w] # "idle"
  /\ Fault
  /\ Finish(w, queue)
  /\ UNCHANGED <<postVars, rowVars, channel, api, maintVars, history>>

\* The worker is blocked for longer than its lock lasts, and then goes on.
LoseLock(w) ==
  /\ held[w]
  /\ Fault
  /\ held' = [held EXCEPT ![w] = FALSE]
  /\ UNCHANGED <<postVars, rowVars, channel, queue, pc, task, local, api, maintVars, history>>

\* BullMQ's stalled check: a job whose lock expired waits again, once, and then fails.
RecoverStalled ==
  /\ \E j \in queue :
       /\ j.st = "active"
       /\ \A w \in Workers : ~ (held[w] /\ task[w] = j.id)
       /\ queue' = Without(j.id) \cup
            {IF j.stalls = 0 THEN [j EXCEPT !.st = "waiting", !.stalls = 1] ELSE Finished(j)}
  /\ UNCHANGED <<postVars, rowVars, channel, workerVars, api, maintVars, bounds, history>>

WorkerStep(w) ==
  \/ StartJob(w) \/ Claim(w) \/ SkipStale(w) \/ LoadContext(w) \/ ReadProcessing(w)
  \/ GetToken(w) \/ MarkNeedsReauth(w) \/ Send(w) \/ SendCheck(w)
  \/ WriteFinal(w) \/ WriteProcessing(w) \/ WritePending(w) \/ WriteRetry(w) \/ WriteLost(w)
  \/ EnqueueRetry(w) \/ PollAgain(w)
WorkerFault(w) == CallFails(w) \/ TryFails(w) \/ Crash(w) \/ LoseLock(w)
=============================================================================
