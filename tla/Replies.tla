------------------------------ MODULE Replies ------------------------------
(***************************************************************************)
(* The replies to one inbox item: the API's inbox service, the jobs, the   *)
(* reply senders and the maintenance that repairs what they lose.          *)
(*                                                                         *)
(* A reply's attempts double as its version: a job carries them, the claim *)
(* compares and bumps them.  Texts and the channel's status are left out:  *)
(* whether an item can be replied to is a free choice wherever the code    *)
(* asks.  Time is abstract, as in Publishing.                              *)
(***************************************************************************)
EXTENDS Naturals, FiniteSets, RetryPolicy

CONSTANTS
  Replies,      \* ids of engagement_replies rows of the item
  Workers,      \* job slots of the reply workers
  Calls,        \* API requests that may be in progress at once
  MaxOps,       \* bound: API operations in a behaviour
  MaxFaults     \* bound: faults in a behaviour

ASSUME RepliesAssumption == Replies # {}
ASSUME ReplyBounds == MaxOps \in Nat /\ MaxFaults \in Nat

VARIABLES
  status,       \* engagement_replies.status, or "unused" / "deleted"
  attempts,     \* engagement_replies.attempts
  thread,       \* replies the item's thread shows as ours (which makes it "replied")
  queue,        \* the BullMQ jobs that exist
  worker,       \* of each worker: where it is and its variables
  call,         \* of each API request
  orphans,      \* jobs of the rows the sweep has read and not yet handled
  ops, faults,  \* bounds left
  live,         \* history: how often each reply is visible on the platform
  confirmed     \* history: retries a user confirmed after checking the platform

rows    == <<status, attempts, thread>>
bounds  == <<ops, faults>>
history == <<live, confirmed>>
vars    == <<rows, queue, worker, call, orphans, bounds, history>>

ReplyStatus == {"draft", "pending_approval", "approved", "rejected", "queued", "sending",
                "sent", "failed", "unconfirmed"}
IN_FLIGHT == {"pending_approval", "approved", "queued", "sending"}
EDITABLE  == {"draft", "pending_approval", "rejected"}

\* A job, whose id is the reply and the attempts it had when it was queued.
Jobs == [reply : Replies, num : Nat, st : {"waiting", "active", "finished"}]

\* A worker: its job's id, alreadyRefreshed, the version requeue returned, and whether it
\* holds its job's lock.  Where it is about to write an outcome, pc is that outcome.
WorkerStates ==
  [pc : {"idle", "claim", "prepare", "send", "sent", "failed", "unconfirmed",
         "requeue", "enqueue"},
   reply : Replies, num : Nat, fresh : BOOLEAN, next : Nat, held : BOOLEAN]

\* A request: the status it read, the one it will write, and the version to enqueue.
Requests == [pc : {"idle", "update", "retry", "enqueue"}, reply : Replies,
             was : ReplyStatus, to : ReplyStatus, num : Nat]

SomeReply == CHOOSE r \in Replies : TRUE
Idle == [pc |-> "idle", reply |-> SomeReply, num |-> 0, fresh |-> FALSE, next |-> 0, held |-> FALSE]
NoCall == [pc |-> "idle", reply |-> SomeReply, was |-> "draft", to |-> "draft", num |-> 0]

InFlight(except) == {r \in Replies \ except : status[r] \in IN_FLIGHT}

-----------------------------------------------------------------------------
(* BullMQ: adding a job whose id exists does nothing. *)

With(q, r, n) == IF \E j \in q : j.reply = r /\ j.num = n THEN q
                 ELSE q \cup {[reply |-> r, num |-> n, st |-> "waiting"]}
Marked(q, r, n, st) == {IF j.reply = r /\ j.num = n THEN [j EXCEPT !.st = st] ELSE j : j \in q}

\* The queue once w's job has ended: it has one attempt, so it is finished either way.
Ended(w) == IF worker[w].held THEN Marked(queue, worker[w].reply, worker[w].num, "finished") ELSE queue

-----------------------------------------------------------------------------
(* inbox.service.ts *)

\* Request c starts an operation, or does all of it in one step.
Begin(c) == call[c].pc = "idle" /\ ops > 0 /\ ops' = ops - 1 /\ UNCHANGED faults

\* The row has been written: a queued reply is handed to the worker, else the request ends.
Then(c, r, to, n) ==
  call' = [call EXCEPT ![c] = IF to = "queued" THEN [NoCall EXCEPT !.pc = "enqueue", !.reply = r, !.num = n]
                              ELSE NoCall]
Refused(c) == call' = [call EXCEPT ![c] = NoCall]

\* submitStatus: what a submission means for the user's role and the organization.
Submitted == {"pending_approval", "queued"}

\* createReply: a draft, or a submission under the item's row lock.
CreateReply(c) ==
  /\ Begin(c)
  /\ \E r \in Replies, to \in {"draft"} \cup Submitted :
       /\ status[r] = "unused"
       /\ to \in Submitted => InFlight({}) = {}
       /\ status' = [status EXCEPT ![r] = to]
       /\ Then(c, r, to, 0)
  /\ UNCHANGED <<attempts, thread, queue, worker, orphans, history>>

\* updateReply: the reply it reads, and the status the edit will give it: submitted,
\* taken back to a draft, or as it is.
UpdateRead(c) ==
  /\ Begin(c)
  /\ \E r \in Replies : \E to \in {status[r], "draft"} \cup Submitted :
       /\ status[r] \in EDITABLE
       /\ call' = [call EXCEPT ![c] = [NoCall EXCEPT !.pc = "update", !.reply = r,
                                                     !.was = status[r], !.to = to]]
  /\ UNCHANGED <<rows, queue, worker, orphans, history>>

\* Mutant of UpdateTx: the UPDATE does not compare the status with the one read.
UpdateTxAnyStatus(c) ==
  LET r == call[c].reply
      to == call[c].to
  IN
  /\ call[c].pc = "update"
  /\ IF to \in Submitted => InFlight({r}) = {}
     THEN status' = [status EXCEPT ![r] = to] /\ Then(c, r, to, attempts[r])
     ELSE Refused(c) /\ UNCHANGED status
  /\ UNCHANGED <<attempts, thread, queue, worker, orphans, bounds, history>>

\* updateReply: the transaction, under the item's row lock when it submits.
UpdateTx(c) ==
  LET r == call[c].reply
      to == call[c].to
  IN
  /\ call[c].pc = "update"
  /\ IF status[r] = call[c].was /\ (to \in Submitted => InFlight({r}) = {})
     THEN status' = [status EXCEPT ![r] = to] /\ Then(c, r, to, attempts[r])
     ELSE Refused(c) /\ UNCHANGED status
  /\ UNCHANGED <<attempts, thread, queue, worker, orphans, bounds, history>>

\* approveReply and rejectReply, each one conditional UPDATE, and deleteReply.
Approve(c) ==
  /\ Begin(c)
  /\ \E r \in Replies :
       /\ status[r] = "pending_approval"
       /\ status' = [status EXCEPT ![r] = "queued"]
       /\ Then(c, r, "queued", attempts[r])
  /\ UNCHANGED <<attempts, thread, queue, worker, orphans, history>>
Reject(c) ==
  /\ Begin(c)
  /\ \E r \in Replies : status[r] = "pending_approval" /\ status' = [status EXCEPT ![r] = "rejected"]
  /\ UNCHANGED <<attempts, thread, queue, worker, call, orphans, history>>
Delete(c) ==
  /\ Begin(c)
  /\ \E r \in Replies : status[r] \in {"draft", "rejected"} /\ status' = [status EXCEPT ![r] = "deleted"]
  /\ UNCHANGED <<attempts, thread, queue, worker, call, orphans, history>>

\* retryReply: the reply it reads (an unconfirmed one with confirmNotSent) and the look
\* for other replies in flight, which takes no lock.
RetryRead(c) ==
  /\ Begin(c)
  /\ \E r \in Replies :
       /\ status[r] \in {"failed", "unconfirmed"}
       /\ InFlight({r}) = {}
       /\ call' = [call EXCEPT ![c] = [NoCall EXCEPT !.pc = "retry", !.reply = r, !.was = status[r]]]
  /\ UNCHANGED <<rows, queue, worker, orphans, history>>

\* Mutant of RetryWrite: the UPDATE does not compare the status with the one read.
RetryWriteAnyStatus(c) ==
  LET r == call[c].reply IN
  /\ call[c].pc = "retry"
  /\ status' = [status EXCEPT ![r] = "queued"]
  /\ Then(c, r, "queued", attempts[r])
  /\ confirmed' = [confirmed EXCEPT ![r] = IF call[c].was = "unconfirmed" THEN @ + 1 ELSE @]
  /\ UNCHANGED <<attempts, thread, queue, worker, orphans, bounds, live>>

\* retryReply: the UPDATE, conditional on the status read.
RetryWrite(c) ==
  LET r == call[c].reply IN
  /\ call[c].pc = "retry"
  /\ IF status[r] = call[c].was
     THEN /\ status' = [status EXCEPT ![r] = "queued"]
          /\ Then(c, r, "queued", attempts[r])
          /\ confirmed' = [confirmed EXCEPT ![r] = IF status[r] = "unconfirmed" THEN @ + 1 ELSE @]
     ELSE Refused(c) /\ UNCHANGED <<status, confirmed>>
  /\ UNCHANGED <<attempts, thread, queue, worker, orphans, bounds, live>>

\* enqueue.
EnqueueReply(c) ==
  /\ call[c].pc = "enqueue"
  /\ queue' = With(queue, call[c].reply, call[c].num)
  /\ Refused(c)
  /\ UNCHANGED <<rows, worker, orphans, bounds, history>>

\* The API dies between its commit and the enqueue, or Redis refuses it (which the code
\* only logs).
EnqueueLost(c) ==
  /\ call[c].pc = "enqueue"
  /\ faults > 0 /\ faults' = faults - 1 /\ UNCHANGED ops
  /\ Refused(c)
  /\ UNCHANGED <<rows, queue, worker, orphans, history>>

-----------------------------------------------------------------------------
(* reply-sender.ts and reply-state.ts *)

Goto(w, p) == worker' = [worker EXCEPT ![w].pc = p]
\* The processor returns or throws.
End(w) == worker' = [worker EXCEPT ![w] = Idle] /\ queue' = Ended(w)

StartJob(w) ==
  /\ worker[w].pc = "idle"
  /\ \E j \in queue :
       /\ j.st = "waiting"
       /\ queue' = Marked(queue, j.reply, j.num, "active")
       /\ worker' = [worker EXCEPT ![w] = [Idle EXCEPT !.pc = "claim", !.reply = j.reply,
                                                      !.num = j.num, !.held = TRUE]]
  /\ UNCHANGED <<rows, call, orphans, bounds, history>>

\* Mutant of Claim: the attempts are not bumped.
ClaimKeepsVersion(w) ==
  LET r == worker[w].reply IN
  /\ worker[w].pc = "claim"
  /\ IF status[r] = "queued" /\ attempts[r] = worker[w].num
     THEN status' = [status EXCEPT ![r] = "sending"] /\ Goto(w, "prepare") /\ UNCHANGED queue
     ELSE End(w) /\ UNCHANGED status
  /\ UNCHANGED <<attempts, thread, call, orphans, bounds, history>>

\* ReplyState.claim; a job that finds nothing to claim is done.
Claim(w) ==
  LET r == worker[w].reply IN
  /\ worker[w].pc = "claim"
  /\ IF status[r] = "queued" /\ attempts[r] = worker[w].num
     THEN /\ status' = [status EXCEPT ![r] = "sending"]
          /\ attempts' = [attempts EXCEPT ![r] = @ + 1]
          /\ Goto(w, "prepare") /\ UNCHANGED queue
     ELSE End(w) /\ UNCHANGED <<status, attempts>>
  /\ UNCHANGED <<thread, call, orphans, bounds, history>>

\* The catch of send: the publishing engine's policy, whose "revoked" only fails the reply.
Catch(w, kind, sent) ==
  LET decision == Decide(kind, worker[w].num + 1, sent, worker[w].fresh) IN
  CASE decision = "retry" -> Goto(w, "requeue")
    [] decision \in {"fail", "revoked"} -> Goto(w, "failed")
    [] decision = "unconfirmed" -> Goto(w, "unconfirmed")
    [] decision = "refresh_token" -> worker' = [worker EXCEPT ![w].pc = "prepare", ![w].fresh = TRUE]

\* send: the item, its channel and the text are checked again, and getAccessToken gives a
\* token, finds that the channel needs reauthorisation, or fails for another reason.
Prepare(w) ==
  /\ worker[w].pc = "prepare"
  /\ \/ Goto(w, "send") \/ Goto(w, "failed")
     \/ \E kind \in {"rate_limited", "transient", "invalid_request"} : Catch(w, kind, FALSE)
  /\ UNCHANGED <<rows, queue, call, orphans, bounds, history>>

Show(w) == live' = [live EXCEPT ![worker[w].reply] = @ + 1]

\* engagement.reply.  An answer that cannot tell, or none, leaves open whether it is live.
Send(w) ==
  /\ worker[w].pc = "send"
  /\ \/ Show(w) /\ Goto(w, "sent")
     \/ /\ \E kind \in {"auth", "rate_limited", "invalid_request", "transient"} : Catch(w, kind, TRUE)
        /\ UNCHANGED live
     \/ /\ \E kind \in {"unknown_outcome", "internal"} : Catch(w, kind, TRUE)
        /\ Show(w) \/ UNCHANGED live
  /\ UNCHANGED <<rows, queue, call, orphans, bounds, confirmed>>

\* Mutant of WriteOutcome: a retry is written as an outcome too.
WriteOutcomeOrRetry(w) ==
  /\ worker[w].pc \in {"sent", "failed", "unconfirmed", "requeue"}
  /\ status' = [status EXCEPT ![worker[w].reply] = worker[w].pc]
  /\ End(w)
  /\ UNCHANGED <<attempts, thread, call, orphans, bounds, history>>

\* ReplyState sent, failed, unconfirmed: by id alone.  A sent reply joins its thread.
WriteOutcome(w) ==
  /\ worker[w].pc \in {"sent", "failed", "unconfirmed"}
  /\ status' = [status EXCEPT ![worker[w].reply] = worker[w].pc]
  /\ thread' = IF worker[w].pc = "sent" THEN thread \cup {worker[w].reply} ELSE thread
  /\ End(w)
  /\ UNCHANGED <<attempts, call, orphans, bounds, history>>

\* ReplyState.requeue: unless the reply moved on.
Requeue(w) ==
  LET r == worker[w].reply IN
  /\ worker[w].pc = "requeue"
  /\ IF status[r] = "sending"
     THEN /\ status' = [status EXCEPT ![r] = "queued"]
          /\ worker' = [worker EXCEPT ![w].pc = "enqueue", ![w].next = attempts[r]]
          /\ UNCHANGED queue
     ELSE End(w) /\ UNCHANGED status
  /\ UNCHANGED <<attempts, thread, call, orphans, bounds, history>>

EnqueueRetry(w) ==
  /\ worker[w].pc = "enqueue"
  /\ worker' = [worker EXCEPT ![w] = Idle]
  /\ queue' = With(Ended(w), worker[w].reply, worker[w].next)
  /\ UNCHANGED <<rows, call, orphans, bounds, history>>

-----------------------------------------------------------------------------
(* Failures *)

Fault == faults > 0 /\ faults' = faults - 1 /\ UNCHANGED ops

\* A query or queue call outside the sender's try fails: the processor throws.
CallFails(w) ==
  /\ \/ worker[w].pc \in {"claim", "failed", "unconfirmed", "requeue", "enqueue"}
     \/ worker[w].pc = "prepare" /\ ~ worker[w].fresh
  /\ Fault
  /\ End(w)
  /\ UNCHANGED <<rows, call, orphans, history>>

\* One inside it fails, and is caught: before the call, or when the reply is recorded.
TryFails(w) ==
  /\ worker[w].pc \in {"prepare", "sent"}
  /\ Fault
  /\ Catch(w, "internal", worker[w].pc = "sent")
  /\ UNCHANGED <<rows, queue, call, orphans, history>>

\* The worker process dies; its job stays active.
Crash(w) ==
  /\ worker[w].pc # "idle"
  /\ Fault
  /\ worker' = [worker EXCEPT ![w] = Idle]
  /\ UNCHANGED <<rows, queue, call, orphans, history>>

\* The worker is blocked for longer than its lock lasts, and then goes on.
LoseLock(w) ==
  /\ worker[w].held
  /\ Fault
  /\ worker' = [worker EXCEPT ![w].held = FALSE]
  /\ UNCHANGED <<rows, queue, call, orphans, history>>

\* BullMQ's stalled check: a job whose lock expired is delivered again or given up.
RecoverStalled ==
  /\ \E j \in queue, st \in {"waiting", "finished"} :
       /\ j.st = "active"
       /\ \A w \in Workers : ~ (worker[w].held /\ worker[w].reply = j.reply /\ worker[w].num = j.num)
       /\ queue' = Marked(queue, j.reply, j.num, st)
  /\ UNCHANGED <<rows, worker, call, orphans, bounds, history>>

\* Redis comes back empty.
RedisLoss ==
  /\ queue # {}
  /\ Fault
  /\ queue' = {}
  /\ worker' = [w \in Workers |-> [worker[w] EXCEPT !.held = FALSE]]
  /\ UNCHANGED <<rows, call, orphans, history>>

-----------------------------------------------------------------------------
(* maintenance.ts *)

\* sweepQueuedReplies reads the queued rows, also when the last sweep ended early;
\* SweepEnsure does ensureReply for one of them, which replaces a job that is finished.
SweepRead ==
  /\ orphans' = {<<r, attempts[r]>> : r \in {u \in Replies : status[u] = "queued"}}
  /\ UNCHANGED <<rows, queue, worker, call, bounds, history>>

\* Mutant of SweepEnsure: a finished job of the same id is not removed, and blocks the new one.
SweepEnsureAbsent ==
  /\ \E o \in orphans : orphans' = orphans \ {o} /\ queue' = With(queue, o[1], o[2])
  /\ UNCHANGED <<rows, worker, call, bounds, history>>

SweepEnsure ==
  /\ \E o \in orphans :
       /\ orphans' = orphans \ {o}
       /\ queue' = Marked(With(queue, o[1], o[2]), o[1], o[2],
                          IF \E j \in queue : j.reply = o[1] /\ j.num = o[2] /\ j.st = "active"
                          THEN "active" ELSE "waiting")
  /\ UNCHANGED <<rows, worker, call, bounds, history>>

\* Some worker is sending reply r.
AtWork(r) == \E w \in Workers : worker[w].pc \notin {"idle", "claim"} /\ worker[w].reply = r
\* Mutant of Recovered: the replies are failed, so users can send them again unasked.
RecoveredFailed(st, early) ==
  [r \in Replies |-> IF st[r] = "sending" /\ (~ AtWork(r) \/ r \in early) THEN "failed" ELSE st[r]]
\* The replies left in sending, those of early included although a worker is at them.
Recovered(st, early) ==
  [r \in Replies |-> IF st[r] = "sending" /\ (~ AtWork(r) \/ r \in early) THEN "unconfirmed" ELSE st[r]]

\* recoverStuck, one UPDATE; spending a fault, it finds the worker slower than it waits.
RecoverStuck ==
  /\ status' = Recovered(status, {})
  /\ UNCHANGED <<attempts, thread, queue, worker, call, orphans, bounds, history>>
RecoverEarly ==
  /\ Fault
  /\ \E r \in Replies : /\ status[r] = "sending" /\ AtWork(r)
                         /\ status' = Recovered(status, {r})
  /\ UNCHANGED <<attempts, thread, queue, worker, call, orphans, history>>

-----------------------------------------------------------------------------
Init ==
  /\ status = [r \in Replies |-> "unused"] /\ attempts = [r \in Replies |-> 0] /\ thread = {}
  /\ queue = {} /\ orphans = {}
  /\ worker = [w \in Workers |-> Idle] /\ call = [c \in Calls |-> NoCall]
  /\ ops = MaxOps /\ faults = MaxFaults
  /\ live = [r \in Replies |-> 0] /\ confirmed = [r \in Replies |-> 0]

CallStep(c) ==
  \/ CreateReply(c) \/ UpdateRead(c) \/ UpdateTx(c) \/ Approve(c) \/ Reject(c) \/ Delete(c)
  \/ RetryRead(c) \/ RetryWrite(c) \/ EnqueueReply(c) \/ EnqueueLost(c)
WorkerStep(w) ==
  \/ StartJob(w) \/ Claim(w) \/ Prepare(w) \/ Send(w) \/ WriteOutcome(w)
  \/ Requeue(w) \/ EnqueueRetry(w)
WorkerFault(w) == CallFails(w) \/ TryFails(w) \/ Crash(w) \/ LoseLock(w)

Next ==
  \/ \E c \in Calls : CallStep(c)
  \/ \E w \in Workers : WorkerStep(w) \/ WorkerFault(w)
  \/ RecoverStalled \/ RedisLoss
  \/ SweepRead \/ SweepEnsure \/ RecoverStuck \/ RecoverEarly

Spec == Init /\ [][Next]_vars

\* The worker loop takes what it can, BullMQ's stalled check runs, and so do the two
\* repeatable maintenance tasks.  Requests may die; nothing is assumed of users or faults.
Fairness ==
  /\ \A w \in Workers : WF_vars(WorkerStep(w))
  /\ WF_vars(RecoverStalled) /\ WF_vars(RecoverStuck)
  /\ WF_vars(SweepRead) /\ WF_vars(SweepEnsure)

FairSpec == Spec /\ Fairness

-----------------------------------------------------------------------------
(* Properties *)

\* Every variable keeps its type.
TypeOK ==
  /\ status \in [Replies -> ReplyStatus \cup {"unused", "deleted"}]
  /\ attempts \in [Replies -> Nat] /\ thread \subseteq Replies
  /\ queue \subseteq Jobs /\ orphans \subseteq Replies \X Nat
  /\ worker \in [Workers -> WorkerStates] /\ call \in [Calls -> Requests]
  /\ ops \in Nat /\ faults \in Nat
  /\ live \in [Replies -> Nat] /\ confirmed \in [Replies -> Nat]

\* Worker w has claimed an attempt and not written its outcome.
Sends(w) == worker[w].pc \in {"prepare", "send", "sent", "failed", "unconfirmed", "requeue"}

\* "Exactly one job per queueing can ever send" (reply-state.ts:24): whatever is delivered
\* twice, swept or requeued, two workers never run the same attempt of a reply, and an
\* attempt somebody runs cannot be claimed again.
OneSender ==
  \A w \in Workers : Sends(w) =>
    /\ ~ (status[worker[w].reply] = "queued" /\ attempts[worker[w].reply] = worker[w].num)
    /\ \A u \in Workers :
         Sends(u) /\ worker[u].reply = worker[w].reply /\ worker[u].num = worker[w].num => u = w

\* "Never send twice" (reply-sender.ts, invariant 1): a reply is visible at most once, plus
\* once for every retry a user confirmed after checking the platform, even when the
\* recovery gives up on a worker that then goes on.
SentOnce == \A r \in Replies : live[r] <= 1 + confirmed[r]

\* What users are told is unsent: the reply goes out, or is edited, deleted or retried,
\* without a question.
UnsentStatus == (ReplyStatus \cup {"unused", "deleted"}) \ {"sending", "sent", "unconfirmed"}

\* What users are told is unsent is unsent: without a confirmed retry it is not visible,
\* and no worker is sending it.
UnsentIsUnsent ==
  \A r \in Replies : confirmed[r] = 0 /\ status[r] \in UnsentStatus
    => /\ live[r] = 0 /\ r \notin thread
       /\ \A w \in Workers : worker[w].reply = r => worker[w].pc \notin {"send", "sent"}

\* The workers whose attempt may still show reply r, or make it sendable again.
MayShow(r) == {w \in Workers : /\ worker[w].reply = r
                               /\ worker[w].pc \in {"prepare", "send", "failed", "requeue"}}

\* Nobody can send on credit: what is visible, the attempts that may still show it or hand
\* it back, and the send its status allows never exceed the one the user asked for and
\* those confirmed since, whichever of recovery, late workers and retries comes first.
SendBudget ==
  \A r \in Replies :
    /\ IsFiniteSet(MayShow(r))
    /\ live[r] + Cardinality(MayShow(r)) + (IF status[r] \in UnsentStatus THEN 1 ELSE 0)
         <= 1 + confirmed[r]

\* A reply is sent as SendOnce promises: a step of a sender, a request or the maintenance
\* shows it only while the promise allows it to, calls it unsent only while it is not
\* visible, and only a confirmed retry allows one more.
Told(s) == IF s \in UnsentStatus THEN "unsent" ELSE IF s = "sent" THEN "sent" ELSE "open"
Promise == INSTANCE SendOnce WITH
  Things <- Replies, shown <- live, allowed <- [r \in Replies |-> 1 + confirmed[r]],
  told <- [r \in Replies |-> Told(status[r])]
KeepsPromise == Promise!Spec

\* "Never lose one" (reply-sender.ts, invariant 2): a reply that is to be sent comes to an
\* end its users see, although jobs, workers and Redis are lost on the way.
UnderWay(r) == status[r] \in {"queued", "sending"}

\* "Replies that are on their way to the platform: one at a time per item"
\* (inbox.service.ts:72): "two people answering the same comment at once must not both
\* go out" (:629).
OneInFlight == Cardinality(InFlight({})) <= 1
=============================================================================
