--------------------------- MODULE RepliesProofs ---------------------------
(***************************************************************************)
(* Proofs about Replies, for every set of replies, workers and requests    *)
(* and every bound.                                                        *)
(***************************************************************************)
EXTENDS Replies, FiniteSetTheorems, TLAPS

-----------------------------------------------------------------------------
(* What the helpers of the actions do to the types.                        *)

LEMMA IdleTypes == Idle \in WorkerStates /\ NoCall \in Requests
<1>1. SomeReply \in Replies
  BY RepliesAssumption DEF SomeReply
<1> QED
  BY <1>1 DEF Idle, NoCall, WorkerStates, Requests, ReplyStatus

LEMMA MarkedType ==
  ASSUME NEW q, q \subseteq Jobs, NEW r, NEW n, NEW st \in {"waiting", "active", "finished"}
  PROVE  Marked(q, r, n, st) \subseteq Jobs
<1>1. ASSUME NEW j \in q
      PROVE  [j EXCEPT !.st = st] \in Jobs
  BY DEF Jobs
<1> QED
  BY <1>1 DEF Marked

LEMMA WithType ==
  ASSUME NEW q, q \subseteq Jobs, NEW r \in Replies, NEW n \in Nat
  PROVE  With(q, r, n) \subseteq Jobs
BY DEF With, Jobs

LEMMA EndedType ==
  ASSUME TypeOK, NEW w \in Workers
  PROVE  Ended(w) \subseteq Jobs
BY MarkedType DEF Ended, TypeOK

LEMMA EndType ==
  ASSUME TypeOK, NEW w \in Workers, End(w)
  PROVE  worker' \in [Workers -> WorkerStates] /\ queue' \subseteq Jobs
BY IdleTypes, EndedType DEF End, TypeOK

LEMMA GotoType ==
  ASSUME TypeOK, NEW w \in Workers,
         NEW p \in {"idle", "claim", "prepare", "send", "sent", "failed", "unconfirmed",
                    "requeue", "enqueue"},
         Goto(w, p)
  PROVE  worker' \in [Workers -> WorkerStates]
BY DEF Goto, TypeOK, WorkerStates

LEMMA DecideRange ==
  ASSUME NEW kind \in ErrorKinds, NEW a \in Nat, NEW sent \in BOOLEAN, NEW r \in BOOLEAN
  PROVE  Decide(kind, a, sent, r) \in Decisions
BY DEF Decide, Decisions, ErrorKinds, ProviderErrors, RetryOrFail

LEMMA CatchType ==
  ASSUME TypeOK, NEW w \in Workers, NEW kind \in ErrorKinds, NEW sent \in BOOLEAN,
         Catch(w, kind, sent)
  PROVE  worker' \in [Workers -> WorkerStates]
<1> DEFINE decision == Decide(kind, worker[w].num + 1, sent, worker[w].fresh)
<1>1. worker[w] \in WorkerStates /\ worker[w].num + 1 \in Nat /\ worker[w].fresh \in BOOLEAN
  BY DEF TypeOK, WorkerStates
<1>2. decision \in Decisions
  BY <1>1, DecideRange
<1>3. CASE decision = "refresh_token"
  <2>1. worker' = [worker EXCEPT ![w].pc = "prepare", ![w].fresh = TRUE]
    BY <1>3 DEF Catch
  <2>2. [worker[w] EXCEPT !.pc = "prepare", !.fresh = TRUE] \in WorkerStates
    BY <1>1 DEF WorkerStates
  <2> QED
    BY <2>1, <2>2 DEF TypeOK
<1>4. CASE decision # "refresh_token"
  <2>1. Goto(w, "requeue") \/ Goto(w, "failed") \/ Goto(w, "unconfirmed")
    BY <1>2, <1>4 DEF Catch, Decisions
  <2> QED
    BY <2>1, GotoType
<1> QED
  BY <1>3, <1>4

\* What a request becomes once it has written its row.
LEMMA ThenType ==
  ASSUME TypeOK, NEW c \in Calls, NEW r \in Replies, NEW to, NEW n \in Nat, Then(c, r, to, n)
  PROVE  call' \in [Calls -> Requests]
<1>1. [NoCall EXCEPT !.pc = "enqueue", !.reply = r, !.num = n] \in Requests
  BY IdleTypes DEF Requests
<1> QED
  BY <1>1, IdleTypes DEF Then, TypeOK

LEMMA RefusedType ==
  ASSUME TypeOK, NEW c \in Calls, Refused(c)
  PROVE  call' \in [Calls -> Requests]
BY IdleTypes DEF Refused, TypeOK

LEMMA BoundsType ==
  ASSUME TypeOK, Fault \/ (\E c \in Calls : Begin(c)) \/ UNCHANGED bounds
  PROVE  ops' \in Nat /\ faults' \in Nat
BY DEF TypeOK, Fault, Begin, bounds

-----------------------------------------------------------------------------
(* Type correctness.                                                       *)

LEMMA InitType == Init => TypeOK
BY IdleTypes, ReplyBounds DEF Init, TypeOK

LEMMA CallStepType ==
  ASSUME TypeOK, NEW c \in Calls, CallStep(c)
  PROVE  TypeOK'
<1> USE DEF rows, bounds, history
<1>1. CASE CreateReply(c)
  <2>1. PICK r \in Replies, to \in {"draft"} \cup Submitted :
          status' = [status EXCEPT ![r] = to] /\ Then(c, r, to, 0)
    BY <1>1 DEF CreateReply
  <2>2. to \in ReplyStatus
    BY DEF Submitted, ReplyStatus
  <2>3. status' \in [Replies -> ReplyStatus \cup {"unused", "deleted"}]
    BY <2>1, <2>2 DEF TypeOK
  <2> QED
    BY <1>1, <2>1, <2>3, ThenType, BoundsType DEF CreateReply, TypeOK
<1>2. CASE UpdateRead(c)
  <2>0. PICK r \in Replies : \E to \in {status[r], "draft"} \cup Submitted :
          /\ status[r] \in EDITABLE
          /\ call' = [call EXCEPT ![c] = [NoCall EXCEPT !.pc = "update", !.reply = r,
                                                        !.was = status[r], !.to = to]]
    BY <1>2 DEF UpdateRead
  <2>1. PICK to \in {status[r], "draft"} \cup Submitted :
          /\ status[r] \in EDITABLE
          /\ call' = [call EXCEPT ![c] = [NoCall EXCEPT !.pc = "update", !.reply = r,
                                                        !.was = status[r], !.to = to]]
    BY <2>0
  <2>2. status[r] \in ReplyStatus /\ to \in ReplyStatus
    BY <2>1 DEF EDITABLE, ReplyStatus, Submitted
  <2>3. [NoCall EXCEPT !.pc = "update", !.reply = r, !.was = status[r], !.to = to] \in Requests
    BY <2>2, IdleTypes DEF Requests
  <2>4. call' \in [Calls -> Requests]
    BY <2>1, <2>3 DEF TypeOK
  <2> QED
    BY <1>2, <2>4, BoundsType DEF UpdateRead, TypeOK
<1>3. CASE UpdateTx(c)
  <2> DEFINE r == call[c].reply
             to == call[c].to
  <2>1. r \in Replies /\ to \in ReplyStatus /\ attempts[r] \in Nat
    BY DEF TypeOK, Requests
  <2>2. \/ status' = [status EXCEPT ![r] = to] /\ Then(c, r, to, attempts[r])
        \/ Refused(c) /\ UNCHANGED status
    BY <1>3 DEF UpdateTx
  <2>3. call' \in [Calls -> Requests]
    BY <2>1, <2>2, ThenType, RefusedType
  <2>4. status' \in [Replies -> ReplyStatus \cup {"unused", "deleted"}]
    BY <2>1, <2>2 DEF TypeOK
  <2> QED
    BY <1>3, <2>3, <2>4 DEF UpdateTx, TypeOK
<1>4. CASE Approve(c)
  <2>1. PICK r \in Replies : status' = [status EXCEPT ![r] = "queued"] /\ Then(c, r, "queued", attempts[r])
    BY <1>4 DEF Approve
  <2>2. attempts[r] \in Nat
    BY DEF TypeOK
  <2> QED
    BY <1>4, <2>1, <2>2, ThenType, BoundsType DEF Approve, TypeOK, ReplyStatus
<1>5. CASE Reject(c)
  BY <1>5, BoundsType DEF Reject, TypeOK, ReplyStatus
<1>6. CASE Delete(c)
  BY <1>6, BoundsType DEF Delete, TypeOK
<1>7. CASE RetryRead(c)
  <2>1. PICK r \in Replies :
          /\ status[r] \in {"failed", "unconfirmed"}
          /\ call' = [call EXCEPT ![c] = [NoCall EXCEPT !.pc = "retry", !.reply = r, !.was = status[r]]]
    BY <1>7 DEF RetryRead
  <2>2. [NoCall EXCEPT !.pc = "retry", !.reply = r, !.was = status[r]] \in Requests
    BY <2>1, IdleTypes DEF Requests, ReplyStatus
  <2>3. call' \in [Calls -> Requests]
    BY <2>1, <2>2 DEF TypeOK
  <2> QED
    BY <1>7, <2>3, BoundsType DEF RetryRead, TypeOK
<1>8. CASE RetryWrite(c)
  <2> DEFINE r == call[c].reply
  <2>1. r \in Replies /\ attempts[r] \in Nat /\ confirmed[r] \in Nat
    BY DEF TypeOK, Requests
  <2>2. \/ /\ status' = [status EXCEPT ![r] = "queued"] /\ Then(c, r, "queued", attempts[r])
           /\ confirmed' = [confirmed EXCEPT ![r] = IF status[r] = "unconfirmed" THEN @ + 1 ELSE @]
        \/ Refused(c) /\ UNCHANGED <<status, confirmed>>
    BY <1>8 DEF RetryWrite
  <2>3. call' \in [Calls -> Requests]
    BY <2>1, <2>2, ThenType, RefusedType
  <2>4. confirmed' \in [Replies -> Nat]
    BY <2>1, <2>2 DEF TypeOK
  <2>5. status' \in [Replies -> ReplyStatus \cup {"unused", "deleted"}]
    BY <2>1, <2>2 DEF TypeOK, ReplyStatus
  <2> QED
    BY <1>8, <2>3, <2>4, <2>5 DEF RetryWrite, TypeOK
<1>9. CASE EnqueueReply(c)
  <2>1. call[c].reply \in Replies /\ call[c].num \in Nat
    BY DEF TypeOK, Requests
  <2> QED
    BY <1>9, <2>1, WithType, RefusedType DEF EnqueueReply, TypeOK
<1>10. CASE EnqueueLost(c)
  BY <1>10, RefusedType DEF EnqueueLost, TypeOK
<1> QED
  BY <1>1, <1>2, <1>3, <1>4, <1>5, <1>6, <1>7, <1>8, <1>9, <1>10 DEF CallStep

LEMMA WorkerStepType ==
  ASSUME TypeOK, NEW w \in Workers, WorkerStep(w)
  PROVE  TypeOK'
<1> USE DEF rows, bounds, history
<1> DEFINE r == worker[w].reply
<1>w. worker[w] \in WorkerStates /\ r \in Replies /\ worker[w].num \in Nat
      /\ worker[w].next \in Nat /\ attempts[r] \in Nat /\ live[r] \in Nat
  BY DEF TypeOK, WorkerStates
<1>1. CASE StartJob(w)
  <2>1. PICK j \in queue :
          /\ queue' = Marked(queue, j.reply, j.num, "active")
          /\ worker' = [worker EXCEPT ![w] = [Idle EXCEPT !.pc = "claim", !.reply = j.reply,
                                                         !.num = j.num, !.held = TRUE]]
    BY <1>1 DEF StartJob
  <2>2. j.reply \in Replies /\ j.num \in Nat
    BY DEF TypeOK, Jobs
  <2>3. [Idle EXCEPT !.pc = "claim", !.reply = j.reply, !.num = j.num, !.held = TRUE] \in WorkerStates
    BY <2>2, IdleTypes DEF WorkerStates
  <2>4. worker' \in [Workers -> WorkerStates]
    BY <2>1, <2>3 DEF TypeOK
  <2>5. queue' \subseteq Jobs
    BY <2>1, MarkedType DEF TypeOK
  <2> QED
    BY <1>1, <2>4, <2>5 DEF StartJob, TypeOK
<1>2. CASE Claim(w)
  <2>1. worker' \in [Workers -> WorkerStates] /\ queue' \subseteq Jobs
    BY <1>2, GotoType, EndType DEF Claim, TypeOK
  <2>2. attempts' \in [Replies -> Nat]
    <3>1. attempts' = attempts \/ attempts' = [attempts EXCEPT ![r] = attempts[r] + 1]
      BY <1>2 DEF Claim
    <3> QED
      BY <3>1, <1>w DEF TypeOK
  <2>3. status' \in [Replies -> ReplyStatus \cup {"unused", "deleted"}]
    BY <1>2 DEF Claim, TypeOK, ReplyStatus
  <2> QED
    BY <1>2, <2>1, <2>2, <2>3 DEF Claim, TypeOK
<1>3. CASE Prepare(w)
  <2>1. worker' \in [Workers -> WorkerStates]
    BY <1>3, GotoType, CatchType DEF Prepare, ErrorKinds, ProviderErrors
  <2> QED
    BY <1>3, <2>1 DEF Prepare, TypeOK
<1>4. CASE Send(w)
  <2>1. worker' \in [Workers -> WorkerStates]
    BY <1>4, GotoType, CatchType DEF Send, ErrorKinds, ProviderErrors
  <2>2. live' \in [Replies -> Nat]
    <3>1. live' = live \/ live' = [live EXCEPT ![r] = live[r] + 1]
      BY <1>4 DEF Send, Show
    <3> QED
      BY <3>1, <1>w DEF TypeOK
  <2> QED
    BY <1>4, <2>1, <2>2 DEF Send, TypeOK
<1>5. CASE WriteOutcome(w)
  <2>1. worker[w].pc \in ReplyStatus
    BY <1>5 DEF WriteOutcome, ReplyStatus
  <2> QED
    BY <1>5, <1>w, <2>1, EndType DEF WriteOutcome, TypeOK
<1>6. CASE Requeue(w)
  <2>1. [worker[w] EXCEPT !.pc = "enqueue", !.next = attempts[r]] \in WorkerStates
    BY <1>w DEF WorkerStates
  <2>2. \/ /\ status' = [status EXCEPT ![r] = "queued"]
           /\ worker' = [worker EXCEPT ![w] = [worker[w] EXCEPT !.pc = "enqueue", !.next = attempts[r]]]
           /\ UNCHANGED queue
        \/ End(w) /\ UNCHANGED status
    BY <1>6 DEF Requeue
  <2>3. worker' \in [Workers -> WorkerStates] /\ queue' \subseteq Jobs
    BY <2>1, <2>2, EndType DEF TypeOK
  <2>4. status' \in [Replies -> ReplyStatus \cup {"unused", "deleted"}]
    BY <2>2 DEF TypeOK, ReplyStatus
  <2> QED
    BY <1>6, <2>3, <2>4 DEF Requeue, TypeOK
<1>7. CASE EnqueueRetry(w)
  <2>1. queue' \subseteq Jobs
    BY <1>7, <1>w, EndedType, WithType DEF EnqueueRetry
  <2>2. worker' \in [Workers -> WorkerStates]
    BY <1>7, IdleTypes DEF EnqueueRetry, TypeOK
  <2> QED
    BY <1>7, <2>1, <2>2 DEF EnqueueRetry, TypeOK
<1> QED
  BY <1>1, <1>2, <1>3, <1>4, <1>5, <1>6, <1>7 DEF WorkerStep

LEMMA WorkerFaultType ==
  ASSUME TypeOK, NEW w \in Workers, WorkerFault(w)
  PROVE  TypeOK'
<1> USE DEF rows, bounds, history
<1>1. CASE CallFails(w)
  BY <1>1, EndType, BoundsType DEF CallFails, TypeOK
<1>2. CASE TryFails(w)
  <2>1. worker' \in [Workers -> WorkerStates]
    BY <1>2, CatchType DEF TryFails, ErrorKinds
  <2> QED
    BY <1>2, <2>1, BoundsType DEF TryFails, TypeOK
<1>3. CASE Crash(w)
  BY <1>3, IdleTypes, BoundsType DEF Crash, TypeOK
<1>4. CASE LoseLock(w)
  <2>1. [worker[w] EXCEPT !.held = FALSE] \in WorkerStates
    BY DEF TypeOK, WorkerStates
  <2>2. worker' \in [Workers -> WorkerStates]
    BY <1>4, <2>1 DEF LoseLock, TypeOK
  <2> QED
    BY <1>4, <2>2, BoundsType DEF LoseLock, TypeOK
<1> QED
  BY <1>1, <1>2, <1>3, <1>4 DEF WorkerFault

LEMMA RecoveredType ==
  ASSUME TypeOK, NEW early
  PROVE  Recovered(status, early) \in [Replies -> ReplyStatus \cup {"unused", "deleted"}]
BY DEF Recovered, TypeOK, ReplyStatus

\* The queue's own steps and maintenance.
Background == RecoverStalled \/ RedisLoss \/ SweepRead \/ SweepEnsure \/ RecoverStuck \/ RecoverEarly

LEMMA BackgroundType ==
  ASSUME TypeOK, Background
  PROVE  TypeOK'
<1> USE DEF rows, bounds, history
<1>1. CASE RecoverStalled
  BY <1>1, MarkedType DEF RecoverStalled, TypeOK
<1>2. CASE RedisLoss
  <2>1. \A w \in Workers : [worker[w] EXCEPT !.held = FALSE] \in WorkerStates
    BY DEF TypeOK, WorkerStates
  <2>2. worker' \in [Workers -> WorkerStates]
    BY <1>2, <2>1 DEF RedisLoss
  <2> QED
    BY <1>2, <2>2, BoundsType DEF RedisLoss, TypeOK
<1>3. CASE SweepRead
  BY <1>3 DEF SweepRead, TypeOK
<1>4. CASE SweepEnsure
  <2>1. PICK o \in orphans :
          /\ orphans' = orphans \ {o}
          /\ queue' = Marked(With(queue, o[1], o[2]), o[1], o[2],
                             IF \E j \in queue : j.reply = o[1] /\ j.num = o[2] /\ j.st = "active"
                             THEN "active" ELSE "waiting")
    BY <1>4 DEF SweepEnsure
  <2>2. o[1] \in Replies /\ o[2] \in Nat
    BY DEF TypeOK
  <2>3. With(queue, o[1], o[2]) \subseteq Jobs
    BY <2>2, WithType DEF TypeOK
  <2>4. queue' \subseteq Jobs
    BY <2>1, <2>3, MarkedType
  <2> QED
    BY <1>4, <2>1, <2>4 DEF SweepEnsure, TypeOK
<1>5. CASE RecoverStuck
  BY <1>5, RecoveredType DEF RecoverStuck, TypeOK
<1>6. CASE RecoverEarly
  BY <1>6, RecoveredType, BoundsType DEF RecoverEarly, TypeOK
<1> QED
  BY <1>1, <1>2, <1>3, <1>4, <1>5, <1>6 DEF Background

LEMMA NextType ==
  ASSUME TypeOK, [Next]_vars
  PROVE  TypeOK'
<1>1. CASE \E c \in Calls : CallStep(c)
  BY <1>1, CallStepType
<1>2. CASE \E w \in Workers : WorkerStep(w) \/ WorkerFault(w)
  BY <1>2, WorkerStepType, WorkerFaultType
<1>3. CASE Background
  BY <1>3, BackgroundType
<1>4. CASE UNCHANGED vars
  BY <1>4 DEF vars, rows, bounds, history, TypeOK
<1> QED
  BY <1>1, <1>2, <1>3, <1>4 DEF Next, Background

\* Every variable of the replies to an item keeps its type, whoever acts and whatever
\* fails (inbox.service.ts, reply-state.ts, reply-sender.ts, maintenance.ts).
THEOREM RepliesTypeCorrect == Spec => []TypeOK
<1>1. TypeOK /\ [Next]_vars => TypeOK'
  BY NextType
<1> QED
  BY <1>1, InitType, PTL DEF Spec

-----------------------------------------------------------------------------
(* One sender per attempt.                                                 *)

\* The strengthening of OneSender: an attempt somebody runs is behind its reply's count,
\* so that no later claim can take it, and two that run are not the same.
Claimed ==
  \A w \in Workers : Sends(w) =>
    /\ worker[w].num < attempts[worker[w].reply]
    /\ \A u \in Workers :
         Sends(u) /\ worker[u].reply = worker[w].reply /\ worker[u].num = worker[w].num => u = w

LEMMA ClaimedIsOneSender ==
  ASSUME TypeOK, Claimed
  PROVE  OneSender
<1>1. \A w \in Workers : worker[w].num \in Nat /\ attempts[worker[w].reply] \in Nat
  BY DEF TypeOK, WorkerStates
<1> QED
  BY <1>1 DEF Claimed, OneSender

\* Only a claim makes a sender; every other step leaves the attempts, and its senders were.
NoNewSender ==
  /\ attempts' = attempts
  /\ \A w \in Workers :
       Sends(w)' => Sends(w) /\ worker'[w].reply = worker[w].reply /\ worker'[w].num = worker[w].num

\* Worker w is left at p, with its job.
LeftAt(w, p, f) == worker' = [worker EXCEPT ![w] = [worker[w] EXCEPT !.pc = p, !.fresh = f]]

LEMMA CatchKeeps ==
  ASSUME TypeOK, NEW w \in Workers, NEW kind \in ErrorKinds, NEW sent \in BOOLEAN,
         Catch(w, kind, sent)
  PROVE  \E p \in {"requeue", "failed", "unconfirmed", "prepare"}, f \in BOOLEAN :
           /\ LeftAt(w, p, f)
           /\ p # "unconfirmed" => ~ sent \/ kind \notin {"internal", "unknown_outcome"}
<1> USE DEF LeftAt
<1> DEFINE decision == Decide(kind, worker[w].num + 1, sent, worker[w].fresh)
<1>1. worker[w] \in WorkerStates /\ worker[w].num + 1 \in Nat /\ worker[w].fresh \in BOOLEAN
  BY DEF TypeOK, WorkerStates
<1>2. decision \in Decisions
  BY <1>1, DecideRange
<1>3. decision # "unconfirmed" => ~ sent \/ kind \notin {"internal", "unknown_outcome"}
  BY DEF Decide
<1>4. \A p \in {"requeue", "failed", "unconfirmed"} :
        Goto(w, p) =>
          worker' = [worker EXCEPT ![w] = [worker[w] EXCEPT !.pc = p, !.fresh = worker[w].fresh]]
  BY <1>1 DEF Goto, TypeOK, WorkerStates
<1>5. CASE decision = "refresh_token"
  <2>1. worker' = [worker EXCEPT ![w] = [worker[w] EXCEPT !.pc = "prepare", !.fresh = TRUE]]
    BY <1>5 DEF Catch
  <2> QED
    BY <1>3, <1>5, <2>1
<1>6. CASE decision = "unconfirmed"
  <2>1. Goto(w, "unconfirmed")
    BY <1>6 DEF Catch
  <2> QED
    BY <1>1, <1>4, <2>1
<1>7. CASE decision = "retry"
  <2>1. Goto(w, "requeue")
    BY <1>7 DEF Catch
  <2> QED
    BY <1>1, <1>3, <1>4, <1>7, <2>1
<1>8. CASE decision \in {"fail", "revoked"}
  <2>1. Goto(w, "failed")
    BY <1>8 DEF Catch
  <2> QED
    BY <1>1, <1>3, <1>4, <1>8, <2>1
<1> QED
  BY <1>2, <1>5, <1>6, <1>7, <1>8 DEF Decisions

LEMMA OthersKeepClaims ==
  ASSUME TypeOK, [Next]_vars
  PROVE  NoNewSender \/ \E w \in Workers : Claim(w)
<1> USE DEF rows, bounds, history
<1>u. UNCHANGED <<attempts, worker>> => NoNewSender
  BY DEF NoNewSender, Sends
<1>e. ASSUME NEW w \in Workers, attempts' = attempts, worker' = [worker EXCEPT ![w] = Idle]
      PROVE  NoNewSender
  BY <1>e DEF NoNewSender, Sends, Idle, TypeOK
<1>g. ASSUME NEW w \in Workers, Sends(w), attempts' = attempts, NEW p, Goto(w, p)
      PROVE  NoNewSender
  BY <1>g DEF NoNewSender, Sends, Goto, TypeOK, WorkerStates
<1>c. ASSUME NEW w \in Workers, Sends(w), attempts' = attempts,
             NEW kind \in ErrorKinds, NEW sent \in BOOLEAN, Catch(w, kind, sent)
      PROVE  NoNewSender
  <2>1. PICK p \in {"requeue", "failed", "unconfirmed", "prepare"}, f \in BOOLEAN : LeftAt(w, p, f)
    BY <1>c, CatchKeeps
  <2> QED
    BY <1>c, <2>1 DEF LeftAt, NoNewSender, Sends, TypeOK, WorkerStates
<1>1. ASSUME NEW c \in Calls, CallStep(c)
      PROVE  NoNewSender
  BY <1>1, <1>u DEF CallStep, CreateReply, UpdateRead, UpdateTx, Approve, Reject, Delete,
                    RetryRead, RetryWrite, EnqueueReply, EnqueueLost
<1>2. ASSUME NEW w \in Workers, WorkerStep(w), ~ Claim(w)
      PROVE  NoNewSender
  <2>1. CASE StartJob(w)
    <3>1. PICK j \in queue :
            worker' = [worker EXCEPT ![w] = [Idle EXCEPT !.pc = "claim", !.reply = j.reply,
                                                           !.num = j.num, !.held = TRUE]]
      BY <2>1 DEF StartJob
    <3> QED
      BY <2>1, <3>1 DEF StartJob, NoNewSender, Sends, Idle, TypeOK
  <2>2. CASE Prepare(w)
    <3>1. Sends(w) /\ attempts' = attempts
      BY <2>2 DEF Prepare, Sends
    <3>2. \/ Goto(w, "send") \/ Goto(w, "failed")
          \/ \E kind \in {"rate_limited", "transient", "invalid_request"} : Catch(w, kind, FALSE)
      BY <2>2 DEF Prepare
    <3> QED
      BY <3>1, <3>2, <1>g, <1>c DEF ErrorKinds, ProviderErrors
  <2>3. CASE Send(w)
    <3>1. Sends(w) /\ attempts' = attempts
      BY <2>3 DEF Send, Sends
    <3>2. Goto(w, "sent") \/ \E kind \in ErrorKinds : Catch(w, kind, TRUE)
      BY <2>3 DEF Send, ErrorKinds, ProviderErrors
    <3> QED
      BY <3>1, <3>2, <1>g, <1>c
  <2>4. CASE WriteOutcome(w)
    BY <2>4, <1>e DEF WriteOutcome, End
  <2>5. CASE Requeue(w)
    <3>1. CASE End(w)
      BY <2>5, <3>1, <1>e DEF Requeue, End
    <3>2. CASE ~ End(w)
      <4>1. worker' = [worker EXCEPT ![w].pc = "enqueue", ![w].next = attempts[worker[w].reply]]
        BY <2>5, <3>2 DEF Requeue
      <4> QED
        BY <2>5, <4>1 DEF Requeue, NoNewSender, Sends, TypeOK, WorkerStates
    <3> QED
      BY <3>1, <3>2
  <2>6. CASE EnqueueRetry(w)
    BY <2>6, <1>e DEF EnqueueRetry
  <2> QED
    BY <1>2, <2>1, <2>2, <2>3, <2>4, <2>5, <2>6 DEF WorkerStep
<1>3. ASSUME NEW w \in Workers, WorkerFault(w)
      PROVE  NoNewSender
  <2>1. CASE CallFails(w)
    BY <2>1, <1>e DEF CallFails, End
  <2>2. CASE TryFails(w)
    <3>1. Sends(w) /\ attempts' = attempts /\ Catch(w, "internal", worker[w].pc = "sent")
      BY <2>2 DEF TryFails, Sends
    <3> QED
      BY <3>1, <1>c DEF ErrorKinds
  <2>3. CASE Crash(w)
    BY <2>3, <1>e DEF Crash
  <2>4. CASE LoseLock(w)
    BY <2>4 DEF LoseLock, NoNewSender, Sends, TypeOK, WorkerStates
  <2> QED
    BY <1>3, <2>1, <2>2, <2>3, <2>4 DEF WorkerFault
<1>4. ASSUME Background
      PROVE  NoNewSender
  <2>1. CASE RedisLoss
    BY <2>1 DEF RedisLoss, NoNewSender, Sends, TypeOK, WorkerStates
  <2>2. CASE ~ RedisLoss
    BY <1>4, <2>2, <1>u DEF Background, RecoverStalled, SweepRead, SweepEnsure, RecoverStuck, RecoverEarly
  <2> QED
    BY <2>1, <2>2
<1>5. CASE UNCHANGED vars
  BY <1>5, <1>u DEF vars
<1> QED
  BY <1>1, <1>2, <1>3, <1>4, <1>5 DEF Next, Background

LEMMA ClaimedStep ==
  ASSUME TypeOK, Claimed, [Next]_vars
  PROVE  Claimed'
<1>0. \A w \in Workers : /\ worker[w].num \in Nat /\ worker[w].reply \in Replies
                         /\ attempts[worker[w].reply] \in Nat
  BY DEF TypeOK, WorkerStates
<1>1. CASE NoNewSender
  BY <1>1 DEF Claimed, NoNewSender
<1>2. ASSUME NEW w \in Workers, Claim(w)
      PROVE  Claimed'
  <2> DEFINE r == worker[w].reply
  <2>1. CASE status[r] = "queued" /\ attempts[r] = worker[w].num
    <3>1. /\ attempts' = [attempts EXCEPT ![r] = attempts[r] + 1]
          /\ worker' = [worker EXCEPT ![w].pc = "prepare"]
      BY <1>2, <2>1 DEF Claim, Goto
    <3>2. \A u \in Workers : worker'[u].reply = worker[u].reply /\ worker'[u].num = worker[u].num
      BY <3>1 DEF TypeOK, WorkerStates
    <3>3. \A u \in Workers \ {w} : Sends(u)' <=> Sends(u)
      BY <3>1 DEF Sends, TypeOK
    <3>4. \A q \in Replies : attempts'[q] \in Nat /\ attempts[q] <= attempts'[q]
      BY <3>1 DEF TypeOK
    <3>5. worker[w].num < attempts'[r]
      BY <1>0, <2>1, <3>1 DEF TypeOK
    <3>6. ASSUME NEW u \in Workers, Sends(u)'
          PROVE  worker'[u].num < attempts'[worker'[u].reply]
      BY <3>2, <3>3, <3>4, <3>5, <3>6, <1>0 DEF Claimed
    <3>7. \A u \in Workers \ {w} : Sends(u) => ~ (worker[u].reply = r /\ worker[u].num = worker[w].num)
      BY <1>0, <2>1 DEF Claimed
    <3> QED
      BY <3>2, <3>3, <3>6, <3>7 DEF Claimed
  <2>2. CASE ~ (status[r] = "queued" /\ attempts[r] = worker[w].num)
    <3>1. attempts' = attempts /\ worker' = [worker EXCEPT ![w] = Idle]
      BY <1>2, <2>2 DEF Claim, End
    <3>2. NoNewSender
      BY <3>1 DEF NoNewSender, Sends, Idle, TypeOK
    <3> QED
      BY <3>2 DEF Claimed, NoNewSender
  <2> QED
    BY <2>1, <2>2
<1> QED
  BY <1>1, <1>2, OthersKeepClaims

\* "Exactly one job per queueing can ever send" (reply-state.ts:24): for every number of
\* workers, jobs and faults, no two workers run the same attempt of a reply, and no
\* attempt somebody runs can be claimed again.
THEOREM OneSenderAlways == Spec => []OneSender
<1>1. Init => Claimed
  BY DEF Init, Claimed, Sends, Idle
<1>2. TypeOK /\ Claimed /\ [Next]_vars => Claimed'
  BY ClaimedStep
<1>3. TypeOK /\ Claimed => OneSender
  BY ClaimedIsOneSender
<1> QED
  BY <1>1, <1>2, <1>3, RepliesTypeCorrect, PTL DEF Spec

-----------------------------------------------------------------------------
(* Nobody sends on credit.                                                 *)

\* What a request that has read a reply goes on to do depends on the status it read.
Requested ==
  \A c \in Calls :
    /\ call[c].pc = "update" => call[c].was \in EDITABLE /\ call[c].to \in EDITABLE \cup Submitted
    /\ call[c].pc = "retry" => call[c].was \in {"failed", "unconfirmed"}

\* What is about to be recorded as sent, or shown as ours, is visible.
Shown ==
  /\ \A w \in Workers : worker[w].pc = "sent" => live[worker[w].reply] >= 1
  /\ \A r \in thread : live[r] >= 1

\* The two properties users see follow from the budget.
LEMMA BudgetSuffices ==
  ASSUME TypeOK, Shown, SendBudget
  PROVE  SentOnce /\ UnsentIsUnsent
<1>1. ASSUME NEW r \in Replies
      PROVE  /\ Cardinality(MayShow(r)) \in Nat /\ live[r] \in Nat /\ confirmed[r] \in Nat
             /\ Cardinality(MayShow(r)) = 0 => MayShow(r) = {}
  BY FS_CardinalityType, FS_EmptySet DEF SendBudget, TypeOK
<1>2. SentOnce
  BY <1>1 DEF SentOnce, SendBudget
<1>3. ASSUME NEW r \in Replies, confirmed[r] = 0, status[r] \in UnsentStatus
      PROVE  /\ live[r] = 0 /\ r \notin thread
             /\ \A w \in Workers : worker[w].reply = r => worker[w].pc \notin {"send", "sent"}
  <2>1. live[r] = 0 /\ Cardinality(MayShow(r)) = 0
    BY <1>1, <1>3 DEF SendBudget
  <2>2. MayShow(r) = {} /\ ~ (live[r] >= 1)
    BY <1>1, <2>1
  <2> QED
    BY <2>1, <2>2 DEF MayShow, Shown
<1> QED
  BY <1>2, <1>3 DEF UnsentIsUnsent

\* The share of worker w in a reply's budget, and that of the reply's status.
Share(w, r) == IF w \in MayShow(r) THEN 1 ELSE 0
Credit(r) == IF status[r] \in UnsentStatus THEN 1 ELSE 0

\* A step of worker w alone that costs no reply more than it pays keeps the budget.
LEMMA Balance ==
  ASSUME TypeOK, TypeOK', SendBudget, NEW w \in Workers,
         \A u \in Workers \ {w} : worker'[u] = worker[u],
         \A r \in Replies : live'[r] + Share(w, r)' + Credit(r)' + confirmed[r]
                              <= live[r] + Share(w, r) + Credit(r) + confirmed'[r]
  PROVE  SendBudget'
<1> SUFFICES ASSUME NEW r \in Replies
             PROVE  /\ IsFiniteSet(MayShow(r)')
                    /\ live'[r] + Cardinality(MayShow(r)') + Credit(r)' <= 1 + confirmed'[r]
  BY DEF SendBudget, Credit
<1> DEFINE S == MayShow(r)
           T == MayShow(r)'
<1>1. /\ IsFiniteSet(S) /\ Cardinality(S) \in Nat
      /\ live[r] + Cardinality(S) + Credit(r) <= 1 + confirmed[r]
  BY FS_CardinalityType DEF SendBudget, Credit
<1>2. T = IF w \in T THEN S \cup {w} ELSE S \ {w}
  BY DEF MayShow
<1>3. IsFiniteSet(T) /\ Cardinality(T) = Cardinality(S) + Share(w, r)' - Share(w, r)
  <2>1. CASE w \in T
    BY <1>1, <1>2, <2>1, FS_AddElement DEF Share
  <2>2. CASE w \notin T
    BY <1>1, <1>2, <2>2, FS_RemoveElement DEF Share
  <2> QED
    BY <2>1, <2>2
<1>4. /\ live[r] \in Nat /\ live'[r] \in Nat /\ confirmed[r] \in Nat /\ confirmed'[r] \in Nat
      /\ Share(w, r) \in Nat /\ Share(w, r)' \in Nat /\ Credit(r) \in Nat /\ Credit(r)' \in Nat
  BY DEF TypeOK, Share, Credit
<1> HIDE DEF S, T
<1>5. live'[r] + Cardinality(T) + Credit(r)' <= 1 + confirmed'[r]
  BY <1>1, <1>3, <1>4
<1> QED
  BY <1>3, <1>5 DEF S, T

\* A step that leaves the workers alone pays for what a status or a retry adds.
LEMMA BalanceRows ==
  ASSUME TypeOK, TypeOK', SendBudget,
         \A w \in Workers : /\ worker'[w].pc = worker[w].pc
                            /\ worker'[w].reply = worker[w].reply,
         live' = live,
         \A r \in Replies : Credit(r)' + confirmed[r] <= Credit(r) + confirmed'[r]
  PROVE  SendBudget'
<1> SUFFICES ASSUME NEW r \in Replies
             PROVE  /\ IsFiniteSet(MayShow(r)')
                    /\ live'[r] + Cardinality(MayShow(r)') + Credit(r)' <= 1 + confirmed'[r]
  BY DEF SendBudget, Credit
<1>1. /\ IsFiniteSet(MayShow(r)) /\ Cardinality(MayShow(r)) \in Nat
      /\ live[r] + Cardinality(MayShow(r)) + Credit(r) <= 1 + confirmed[r]
  BY FS_CardinalityType DEF SendBudget, Credit
<1>2. MayShow(r)' = MayShow(r)
  BY DEF MayShow
<1>3. /\ live[r] \in Nat /\ confirmed[r] \in Nat /\ confirmed'[r] \in Nat
      /\ Credit(r) \in Nat /\ Credit(r)' \in Nat
  BY DEF TypeOK, Credit
<1> QED
  BY <1>1, <1>2, <1>3

Safe == Requested /\ Shown /\ SendBudget

\* The statuses that cost nothing and those that do.
LEMMA Statuses ==
  /\ EDITABLE \cup Submitted \cup {"draft", "queued", "failed", "rejected", "deleted", "unused"}
       \subseteq UnsentStatus
  /\ {"sending", "sent", "unconfirmed"} \cap UnsentStatus = {}
BY DEF EDITABLE, Submitted, UnsentStatus, ReplyStatus

\* Requests: what they write is as sendable as what they read, or is confirmed.
LEMMA CallStepSafe ==
  ASSUME TypeOK, TypeOK', Safe, NEW c \in Calls, CallStep(c)
  PROVE  Safe'
<1> USE DEF rows, bounds, history
<1>w. worker' = worker /\ live' = live /\ thread' = thread
  BY DEF CallStep, CreateReply, UpdateRead, UpdateTx, Approve, Reject, Delete, RetryRead,
         RetryWrite, EnqueueReply, EnqueueLost
<1>1. Shown'
  BY <1>w DEF Safe, Shown
<1>2. Requested'
  <2>t. ASSUME NEW r, NEW to, NEW n, Then(c, r, to, n) PROVE Requested'
    BY <2>t DEF Then, NoCall, Safe, Requested, TypeOK
  <2>r. ASSUME Refused(c) PROVE Requested'
    BY <2>r DEF Refused, NoCall, Safe, Requested, TypeOK
  <2>u. ASSUME call' = call PROVE Requested'
    BY <2>u DEF Safe, Requested
  <2>1. CASE UpdateRead(c)
    <3>1. PICK r \in Replies : \E to \in {status[r], "draft"} \cup Submitted :
            /\ status[r] \in EDITABLE
            /\ call' = [call EXCEPT ![c] = [NoCall EXCEPT !.pc = "update", !.reply = r,
                                                          !.was = status[r], !.to = to]]
      BY <2>1 DEF UpdateRead
    <3>2. PICK to \in {status[r], "draft"} \cup Submitted :
            call' = [call EXCEPT ![c] = [NoCall EXCEPT !.pc = "update", !.reply = r,
                                                          !.was = status[r], !.to = to]]
      BY <3>1
    <3>3. status[r] \in EDITABLE /\ to \in EDITABLE \cup Submitted
      BY <3>1, <3>2 DEF EDITABLE
    <3> QED
      BY <3>2, <3>3 DEF NoCall, Safe, Requested, TypeOK
  <2>2. CASE RetryRead(c)
    <3>1. PICK r \in Replies :
            /\ status[r] \in {"failed", "unconfirmed"}
            /\ call' = [call EXCEPT ![c] = [NoCall EXCEPT !.pc = "retry", !.reply = r, !.was = status[r]]]
      BY <2>2 DEF RetryRead
    <3> QED
      BY <3>1 DEF NoCall, Safe, Requested, TypeOK
  <2>3. CASE ~ UpdateRead(c) /\ ~ RetryRead(c)
    BY <2>3, <2>t, <2>r, <2>u DEF CallStep, CreateReply, UpdateTx, Approve, Reject, Delete,
                                  RetryWrite, EnqueueReply, EnqueueLost
  <2> QED
    BY <2>1, <2>2, <2>3
<1>3. \A r \in Replies : Credit(r)' + confirmed[r] <= Credit(r) + confirmed'[r]
  <2>n. \A r \in Replies : confirmed[r] \in Nat /\ Credit(r) \in Nat
    BY DEF TypeOK, Credit
  <2>u. ASSUME status' = status, confirmed' = confirmed
        PROVE  \A r \in Replies : Credit(r)' + confirmed[r] <= Credit(r) + confirmed'[r]
    BY <2>u, <2>n DEF Credit
  <2>s. ASSUME NEW r \in Replies, NEW to, status[r] \in UnsentStatus, confirmed' = confirmed,
               status' = [status EXCEPT ![r] = to]
        PROVE  \A q \in Replies : Credit(q)' + confirmed[q] <= Credit(q) + confirmed'[q]
    BY <2>s, <2>n DEF Credit, TypeOK
  <2>1. CASE CreateReply(c)
    BY <2>1, <2>s, Statuses DEF CreateReply
  <2>2. CASE UpdateTx(c)
    <3>1. CASE status' = status
      BY <2>2, <3>1, <2>u DEF UpdateTx
    <3>2. CASE status' # status
      <4>1. call[c].reply \in Replies /\ status[call[c].reply] \in EDITABLE
        BY <2>2, <3>2 DEF UpdateTx, Safe, Requested, TypeOK, Requests
      <4> QED
        BY <2>2, <3>2, <4>1, <2>s, Statuses DEF UpdateTx
    <3> QED
      BY <3>1, <3>2
  <2>3. CASE Approve(c)
    BY <2>3, <2>s, Statuses DEF Approve, Submitted
  <2>4. CASE Reject(c)
    BY <2>4, <2>s, Statuses DEF Reject, Submitted
  <2>5. CASE Delete(c)
    BY <2>5, <2>s, Statuses DEF Delete
  <2>6. CASE RetryWrite(c)
    <3> DEFINE r == call[c].reply
    <3>0. r \in Replies
      BY DEF TypeOK, Requests
    <3>1. CASE status[r] # call[c].was
      BY <2>6, <3>1, <2>u DEF RetryWrite
    <3>2. CASE status[r] = call[c].was /\ status[r] = "failed"
      <4>1. status' = [status EXCEPT ![r] = "queued"]
        BY <2>6, <3>2 DEF RetryWrite
      <4>2. confirmed' = [confirmed EXCEPT ![r] = confirmed[r]]
        BY <2>6, <3>2 DEF RetryWrite
      <4>3. confirmed' = confirmed
        BY <4>2 DEF TypeOK
      <4> QED
        BY <3>0, <3>2, <4>1, <4>3, <2>s, Statuses
    <3>3. CASE status[r] = call[c].was /\ status[r] = "unconfirmed"
      <4>1. status' = [status EXCEPT ![r] = "queued"]
        BY <2>6, <3>3 DEF RetryWrite
      <4>2. confirmed' = [confirmed EXCEPT ![r] = confirmed[r] + 1]
        BY <2>6, <3>3 DEF RetryWrite
      <4> QED
        BY <3>0, <4>1, <4>2, <2>n DEF Credit, TypeOK
    <3> QED
      BY <2>6, <3>1, <3>2, <3>3 DEF RetryWrite, Safe, Requested
  <2>7. CASE UpdateRead(c) \/ RetryRead(c) \/ EnqueueReply(c) \/ EnqueueLost(c)
    BY <2>7, <2>u DEF UpdateRead, RetryRead, EnqueueReply, EnqueueLost
  <2> QED
    BY <2>1, <2>2, <2>3, <2>4, <2>5, <2>6, <2>7 DEF CallStep
<1>4. SendBudget'
  BY <1>w, <1>3, BalanceRows DEF Safe
<1> QED
  BY <1>1, <1>2, <1>4 DEF Safe

\* A step of worker w that shows nothing, gives no credit and leaves w at p with its job.
LEMMA MoveSafe ==
  ASSUME TypeOK, TypeOK', Safe, NEW w \in Workers, NEW p, NEW f, LeftAt(w, p, f),
         UNCHANGED <<call, status, thread, live, confirmed>>,
         p = "sent" => worker[w].pc = "sent",
         p \in {"prepare", "send", "failed", "requeue"}
           => worker[w].pc \in {"prepare", "send", "failed", "requeue"}
  PROVE  Safe'
<1>1. /\ \A u \in Workers \ {w} : worker'[u] = worker[u]
      /\ worker'[w].pc = p /\ worker'[w].reply = worker[w].reply
  BY DEF LeftAt, TypeOK, WorkerStates
<1>2. Requested' /\ Shown'
  BY <1>1 DEF Safe, Requested, Shown
<1>3. \A r \in Replies : Share(w, r)' <= Share(w, r) /\ Credit(r)' = Credit(r)
  BY <1>1 DEF Share, MayShow, Credit
<1>4. \A r \in Replies : live[r] \in Nat /\ confirmed[r] \in Nat /\ Share(w, r) \in Nat
                          /\ Share(w, r)' \in Nat /\ Credit(r) \in Nat
  BY DEF TypeOK, Share, Credit
<1>5. \A r \in Replies : live'[r] + Share(w, r)' + Credit(r)' + confirmed[r]
                          <= live[r] + Share(w, r) + Credit(r) + confirmed'[r]
  BY <1>3, <1>4
<1> QED
  BY <1>1, <1>2, <1>5, Balance DEF Safe

\* A step that ends w's job and shows nothing; a credit it gives is the share w held.
LEMMA EndSafe ==
  ASSUME TypeOK, TypeOK', Safe, NEW w \in Workers,
         \A u \in Workers \ {w} : worker'[u] = worker[u], worker'[w].pc \in {"idle", "claim", "enqueue"},
         UNCHANGED <<call, live, confirmed>>,
         \A r \in thread' \ thread : live[r] >= 1,
         \A r \in Replies : Credit(r)' <= Credit(r) + Share(w, r)
  PROVE  Safe'
<1>2. Requested' /\ Shown'
  BY DEF Safe, Requested, Shown
<1>3. \A r \in Replies : Share(w, r)' = 0
  BY DEF Share, MayShow
<1>4. \A r \in Replies : live[r] \in Nat /\ confirmed[r] \in Nat /\ Share(w, r) \in Nat
                          /\ Credit(r) \in Nat /\ Credit(r)' \in Nat
  BY DEF TypeOK, Share, Credit
<1>5. \A r \in Replies : live'[r] + Share(w, r)' + Credit(r)' + confirmed[r]
                          <= live[r] + Share(w, r) + Credit(r) + confirmed'[r]
  BY <1>3, <1>4
<1> QED
  BY <1>2, <1>5, Balance DEF Safe

\* A call that failed before it showed the reply is caught.
LEMMA CatchSafe ==
  ASSUME TypeOK, TypeOK', Safe, NEW w \in Workers, NEW kind \in ErrorKinds, NEW sent \in BOOLEAN,
         Catch(w, kind, sent), UNCHANGED <<call, status, thread, live, confirmed>>,
         worker[w].pc \in {"prepare", "send"}
  PROVE  Safe'
<1>1. PICK p \in {"requeue", "failed", "unconfirmed", "prepare"}, f \in BOOLEAN :
        /\ LeftAt(w, p, f)
        /\ p # "unconfirmed" => ~ sent \/ kind \notin {"internal", "unknown_outcome"}
  BY CatchKeeps
<1> QED
  BY <1>1, MoveSafe

\* The call that shows the reply, whatever worker w does after it but try it again.
LEMMA ShowSafe ==
  ASSUME TypeOK, TypeOK', Safe, NEW w \in Workers, NEW p \in {"sent", "unconfirmed"}, NEW f,
         worker[w].pc = "send", LeftAt(w, p, f), Show(w),
         UNCHANGED <<call, status, thread, confirmed>>
  PROVE  Safe'
<1> DEFINE r == worker[w].reply
<1>0. r \in Replies /\ live[r] \in Nat
  BY DEF TypeOK, WorkerStates
<1>1. /\ \A u \in Workers \ {w} : worker'[u] = worker[u]
      /\ worker'[w].pc = p /\ worker'[w].reply = r
  BY DEF LeftAt, TypeOK, WorkerStates
<1>2. live' = [live EXCEPT ![r] = live[r] + 1]
  BY DEF Show
<1>3. live'[r] = live[r] + 1 /\ \A q \in Replies : live'[q] >= live[q]
  BY <1>0, <1>2 DEF TypeOK
<1>4. Requested' /\ Shown'
  <2>1. \A u \in Workers : worker[u].reply \in Replies
    BY DEF TypeOK, WorkerStates
  <2>2. \A q \in Replies : live[q] >= 1 => live'[q] >= 1
    BY <1>3 DEF TypeOK
  <2>3. live'[r] >= 1
    BY <1>0, <1>3
  <2>4. Requested'
    BY DEF Safe, Requested
  <2>5. \A u \in Workers : worker'[u].pc = "sent" => live'[worker'[u].reply] >= 1
    BY <1>1, <2>1, <2>2, <2>3 DEF Safe, Shown
  <2>6. \A q \in thread' : live'[q] >= 1
    BY <2>2 DEF Safe, Shown, TypeOK
  <2> QED
    BY <2>4, <2>5, <2>6 DEF Shown
<1>5. Share(w, r) = 1 /\ \A q \in Replies : Share(w, q)' = 0 /\ Credit(q)' = Credit(q)
  BY <1>1 DEF Share, MayShow, Credit
<1>6. \A q \in Replies : live[q] \in Nat /\ confirmed[q] \in Nat /\ Share(w, q) \in Nat
                          /\ Credit(q) \in Nat
  BY DEF TypeOK, Share, Credit
<1>7. ASSUME NEW q \in Replies
      PROVE  live'[q] + Share(w, q)' + Credit(q)' + confirmed[q]
               <= live[q] + Share(w, q) + Credit(q) + confirmed'[q]
  <2>1. CASE q = r
    BY <1>3, <1>5, <1>6, <2>1
  <2>2. CASE q # r
    <3>1. live'[q] = live[q]
      BY <1>2, <2>2 DEF TypeOK
    <3> QED
      BY <1>5, <1>6, <3>1
  <2> QED
    BY <2>1, <2>2
<1> QED
  BY <1>1, <1>4, <1>7, Balance DEF Safe

LEMMA GotoLeavesAt ==
  ASSUME TypeOK, NEW w \in Workers, NEW p, Goto(w, p)
  PROVE  LeftAt(w, p, worker[w].fresh)
BY DEF Goto, LeftAt, TypeOK, WorkerStates

LEMMA WorkerStepSafe ==
  ASSUME TypeOK, TypeOK', Safe, NEW w \in Workers, WorkerStep(w)
  PROVE  Safe'
<1> USE DEF rows, bounds, history
<1>r. PICK r \in Replies : r = worker[w].reply
  BY DEF TypeOK, WorkerStates
<1>0. \A q \in Replies : Credit(q) \in Nat /\ Share(w, q) \in Nat
  BY DEF TypeOK, WorkerStates, Credit, Share
<1>i. ASSUME worker' = [worker EXCEPT ![w] = Idle]
      PROVE  (\A u \in Workers \ {w} : worker'[u] = worker[u]) /\ worker'[w].pc = "idle"
  BY <1>i DEF Idle, TypeOK
<1>c. ASSUME status' = status PROVE \A q \in Replies : Credit(q)' <= Credit(q) + Share(w, q)
  BY <1>0, <1>c DEF Credit
<1>1. CASE StartJob(w)
  <2>1. PICK j \in queue :
          worker' = [worker EXCEPT ![w] = [Idle EXCEPT !.pc = "claim", !.reply = j.reply,
                                                         !.num = j.num, !.held = TRUE]]
    BY <1>1 DEF StartJob
  <2>2. (\A u \in Workers \ {w} : worker'[u] = worker[u]) /\ worker'[w].pc = "claim"
    BY <2>1 DEF Idle, TypeOK
  <2> QED
    BY <1>1, <1>c, <2>2, EndSafe DEF StartJob
<1>2. CASE Claim(w)
  <2>1. CASE status[r] = "queued" /\ attempts[r] = worker[w].num
    <3>1. status' = [status EXCEPT ![r] = "sending"] /\ LeftAt(w, "prepare", worker[w].fresh)
      BY <1>2, <1>r, <2>1, GotoLeavesAt DEF Claim
    <3>2. /\ \A u \in Workers \ {w} : worker'[u] = worker[u]
          /\ worker'[w].pc = "prepare" /\ worker'[w].reply = r
      BY <1>r, <3>1 DEF LeftAt, TypeOK, WorkerStates
    <3>3. Requested' /\ Shown'
      BY <1>2, <3>2 DEF Claim, Safe, Requested, Shown
    <3>4. Credit(r) = 1 /\ Credit(r)' = 0 /\ Share(w, r) = 0 /\ Share(w, r)' = 1
      BY <1>0, <1>2, <1>r, <2>1, <3>1, <3>2, Statuses DEF Claim, Credit, Share, MayShow, TypeOK
    <3>5. \A q \in Replies \ {r} : Credit(q)' = Credit(q) /\ Share(w, q)' = Share(w, q)
      BY <1>r, <3>1, <3>2 DEF Credit, Share, MayShow, TypeOK
    <3>6. ASSUME NEW q \in Replies
          PROVE  Share(w, q)' + Credit(q)' = Share(w, q) + Credit(q)
      <4>1. CASE q = r
        BY <3>4, <4>1
      <4>2. CASE q # r
        BY <3>5, <4>2
      <4> QED
        BY <4>1, <4>2
    <3>7. \A q \in Replies : live[q] \in Nat /\ confirmed[q] \in Nat /\ Share(w, q)' \in Nat
                              /\ Credit(q)' \in Nat
      BY DEF TypeOK, Credit, Share
    <3>8. \A q \in Replies : live'[q] + Share(w, q)' + Credit(q)' + confirmed[q]
                              <= live[q] + Share(w, q) + Credit(q) + confirmed'[q]
      BY <1>0, <1>2, <3>6, <3>7 DEF Claim
    <3> QED
      BY <3>2, <3>3, <3>8, Balance DEF Safe
  <2>2. CASE ~ (status[r] = "queued" /\ attempts[r] = worker[w].num)
    BY <1>2, <1>r, <2>2, <1>i, <1>c, EndSafe DEF Claim, End
  <2> QED
    BY <2>1, <2>2
<1>3. CASE Prepare(w)
  <2>1. worker[w].pc = "prepare" /\ UNCHANGED <<call, status, thread, live, confirmed>>
    BY <1>3 DEF Prepare
  <2>2. CASE Goto(w, "send") \/ Goto(w, "failed")
    BY <2>1, <2>2, GotoLeavesAt, MoveSafe
  <2>3. CASE \E kind \in {"rate_limited", "transient", "invalid_request"} : Catch(w, kind, FALSE)
    <3>1. PICK kind \in ErrorKinds : Catch(w, kind, FALSE)
      BY <2>3 DEF ErrorKinds, ProviderErrors
    <3>2. \E sent \in BOOLEAN : Catch(w, kind, sent)
      BY <3>1
    <3>3. worker[w].pc \in {"prepare", "send"} /\ UNCHANGED <<call, status, thread, live, confirmed>>
      BY <2>1, <3>1
    <3> QED
      BY <3>2, <3>3, CatchSafe
  <2> QED
    BY <1>3, <2>2, <2>3 DEF Prepare
<1>4. CASE Send(w)
  <2>1. worker[w].pc = "send" /\ UNCHANGED <<call, status, thread, confirmed>>
    BY <1>4 DEF Send
  <2>2. CASE Show(w) /\ Goto(w, "sent")
    BY <2>1, <2>2, GotoLeavesAt, ShowSafe
  <2>3. CASE \E kind \in ErrorKinds : Catch(w, kind, TRUE) /\ UNCHANGED live
    <3>1. PICK kind \in ErrorKinds : Catch(w, kind, TRUE) /\ UNCHANGED live
      BY <2>3
    <3>2. \E sent \in BOOLEAN : Catch(w, kind, sent)
      BY <3>1
    <3>3. worker[w].pc \in {"prepare", "send"} /\ UNCHANGED <<call, status, thread, live, confirmed>>
      BY <2>1, <3>1
    <3> QED
      BY <3>2, <3>3, CatchSafe
  <2>4. CASE \E kind \in {"unknown_outcome", "internal"} : Catch(w, kind, TRUE) /\ Show(w)
    <3>1. PICK kind \in {"unknown_outcome", "internal"} : Catch(w, kind, TRUE) /\ Show(w)
      BY <2>4
    <3>2. PICK p \in {"requeue", "failed", "unconfirmed", "prepare"}, f \in BOOLEAN :
            LeftAt(w, p, f) /\ p = "unconfirmed"
      BY <3>1, CatchKeeps DEF ErrorKinds, ProviderErrors
    <3> QED
      BY <2>1, <3>1, <3>2, ShowSafe
  <2> QED
    BY <1>4, <2>2, <2>3, <2>4 DEF Send, ErrorKinds, ProviderErrors
<1>5. CASE WriteOutcome(w)
  <2>1. /\ worker[w].pc \in {"sent", "failed", "unconfirmed"}
        /\ status' = [status EXCEPT ![r] = worker[w].pc]
        /\ worker' = [worker EXCEPT ![w] = Idle]
        /\ UNCHANGED <<call, live, confirmed>>
    BY <1>5, <1>r DEF WriteOutcome, End
  <2>2. \A q \in thread' \ thread : live[q] >= 1
    BY <1>5, <1>r DEF WriteOutcome, Safe, Shown
  <2>3. \A q \in Replies : Credit(q)' <= Credit(q) + Share(w, q)
    <3>1. \A q \in Replies \ {r} : Credit(q)' = Credit(q)
      BY <2>1 DEF Credit, TypeOK
    <3>2. Credit(r)' <= Share(w, r)
      <4>1. status'[r] = worker[w].pc
        BY <1>0, <2>1 DEF TypeOK
      <4>2. CASE worker[w].pc = "failed"
        <5>1. w \in MayShow(r)
          BY <1>r, <4>2 DEF MayShow
        <5> QED
          BY <5>1 DEF Credit, Share
      <4>3. CASE worker[w].pc # "failed"
        <5>1. Credit(r)' = 0
          BY <2>1, <4>1, <4>3, Statuses DEF Credit
        <5> QED
          BY <5>1 DEF Share
      <4> QED
        BY <4>2, <4>3
    <3>3. \A q \in Replies : Credit(q)' \in Nat
      BY DEF Credit
    <3> SUFFICES ASSUME NEW q \in Replies
                 PROVE  Credit(q)' <= Credit(q) + Share(w, q)
      OBVIOUS
    <3>4. CASE q = r
      BY <1>0, <3>2, <3>3, <3>4
    <3>5. CASE q # r
      BY <1>0, <3>1, <3>5
    <3> QED
      BY <3>4, <3>5
  <2> QED
    BY <1>i, <2>1, <2>2, <2>3, EndSafe
<1>6. CASE Requeue(w)
  <2>1. CASE status[r] = "sending"
    <3>1. /\ status' = [status EXCEPT ![r] = "queued"] /\ worker[w].pc = "requeue"
          /\ worker' = [worker EXCEPT ![w].pc = "enqueue", ![w].next = attempts[r]]
          /\ UNCHANGED <<call, thread, live, confirmed>>
      BY <1>6, <1>r, <2>1 DEF Requeue
    <3>2. (\A u \in Workers \ {w} : worker'[u] = worker[u]) /\ worker'[w].pc = "enqueue"
      BY <3>1 DEF TypeOK, WorkerStates
    <3>3. \A q \in Replies \ {r} : Credit(q)' = Credit(q)
      BY <3>1 DEF Credit, TypeOK
    <3>4. Share(w, r) = 1
      BY <1>r, <3>1 DEF Share, MayShow
    <3>5. \A q \in Replies : Credit(q)' <= Credit(q) + Share(w, q)
      BY <1>0, <3>3, <3>4 DEF Credit
    <3> QED
      BY <3>1, <3>2, <3>5, EndSafe
  <2>2. CASE status[r] # "sending"
    BY <1>6, <1>r, <2>2, <1>i, <1>c, EndSafe DEF Requeue, End
  <2> QED
    BY <2>1, <2>2
<1>7. CASE EnqueueRetry(w)
  BY <1>7, <1>i, <1>c, EndSafe DEF EnqueueRetry
<1> QED
  BY <1>1, <1>2, <1>3, <1>4, <1>5, <1>6, <1>7 DEF WorkerStep

LEMMA WorkerFaultSafe ==
  ASSUME TypeOK, TypeOK', Safe, NEW w \in Workers, WorkerFault(w)
  PROVE  Safe'
<1> USE DEF rows, bounds, history
<1>0. \A q \in Replies : Credit(q) \in Nat /\ Share(w, q) \in Nat
  BY DEF Credit, Share
<1>e. ASSUME worker' = [worker EXCEPT ![w] = Idle],
             UNCHANGED <<call, status, thread, live, confirmed>>
      PROVE  Safe'
  <2>1. (\A u \in Workers \ {w} : worker'[u] = worker[u]) /\ worker'[w].pc = "idle"
    BY <1>e DEF Idle, TypeOK
  <2>2. \A q \in Replies : Credit(q)' <= Credit(q) + Share(w, q)
    BY <1>0, <1>e DEF Credit
  <2> QED
    BY <1>e, <2>1, <2>2, EndSafe
<1>1. CASE CallFails(w)
  BY <1>1, <1>e DEF CallFails, End
<1>2. CASE TryFails(w)
  <2>1. CASE worker[w].pc = "prepare"
    BY <1>2, <2>1, CatchSafe DEF TryFails, ErrorKinds
  <2>2. CASE worker[w].pc = "sent"
    <3>1. \E sent \in BOOLEAN : sent /\ Catch(w, "internal", sent)
      BY <1>2, <2>2 DEF TryFails
    <3>2. PICK p \in {"requeue", "failed", "unconfirmed", "prepare"}, f \in BOOLEAN :
            LeftAt(w, p, f) /\ p = "unconfirmed"
      BY <3>1, CatchKeeps DEF ErrorKinds
    <3> QED
      BY <1>2, <3>2, MoveSafe DEF TryFails
  <2> QED
    BY <1>2, <2>1, <2>2 DEF TryFails
<1>3. CASE Crash(w)
  BY <1>3, <1>e DEF Crash
<1>4. CASE LoseLock(w)
  <2>1. \A u \in Workers : worker'[u].pc = worker[u].pc /\ worker'[u].reply = worker[u].reply
    BY <1>4 DEF LoseLock, TypeOK, WorkerStates
  <2>2. Requested' /\ Shown'
    BY <1>4, <2>1 DEF LoseLock, Safe, Requested, Shown
  <2>3. \A q \in Replies : Credit(q)' + confirmed[q] <= Credit(q) + confirmed'[q]
    BY <1>0, <1>4 DEF LoseLock, Credit, TypeOK
  <2> QED
    BY <1>4, <2>1, <2>2, <2>3, BalanceRows DEF LoseLock, Safe
<1> QED
  BY <1>1, <1>2, <1>3, <1>4 DEF WorkerFault

LEMMA BackgroundSafe ==
  ASSUME TypeOK, TypeOK', Safe, Background
  PROVE  Safe'
<1> USE DEF rows, bounds, history
<1>1. \A u \in Workers : worker'[u].pc = worker[u].pc /\ worker'[u].reply = worker[u].reply
  BY DEF Background, RecoverStalled, RedisLoss, SweepRead, SweepEnsure, RecoverStuck, RecoverEarly,
         TypeOK, WorkerStates
<1>2. UNCHANGED <<call, thread, live, confirmed>>
  BY DEF Background, RecoverStalled, RedisLoss, SweepRead, SweepEnsure, RecoverStuck, RecoverEarly
<1>3. Requested' /\ Shown'
  BY <1>1, <1>2 DEF Safe, Requested, Shown
<1>4. status' = status \/ \E early : status' = Recovered(status, early)
  BY DEF Background, RecoverStalled, RedisLoss, SweepRead, SweepEnsure, RecoverStuck, RecoverEarly
<1>5. \A q \in Replies : Credit(q)' = Credit(q)
  BY <1>4, Statuses DEF Recovered, Credit
<1>6. \A q \in Replies : Credit(q)' + confirmed[q] <= Credit(q) + confirmed'[q]
  BY <1>2, <1>5 DEF Credit, TypeOK
<1> QED
  BY <1>1, <1>2, <1>3, <1>6, BalanceRows DEF Safe

LEMMA SafeStep ==
  ASSUME TypeOK, Safe, [Next]_vars
  PROVE  Safe'
<1>0. TypeOK'
  BY NextType
<1>1. ASSUME NEW c \in Calls, CallStep(c) PROVE Safe'
  BY <1>0, <1>1, CallStepSafe
<1>2. ASSUME NEW w \in Workers, WorkerStep(w) \/ WorkerFault(w) PROVE Safe'
  BY <1>0, <1>2, WorkerStepSafe, WorkerFaultSafe
<1>3. CASE Background
  BY <1>0, <1>3, BackgroundSafe
<1>4. CASE UNCHANGED vars
  <2>1. \A r \in Replies : MayShow(r)' = MayShow(r)
    BY <1>4 DEF vars, MayShow
  <2>2. SendBudget'
    BY <1>4, <2>1 DEF vars, rows, history, Safe, SendBudget
  <2> QED
    BY <1>4, <2>2 DEF vars, rows, history, Safe, Requested, Shown
<1> QED
  BY <1>1, <1>2, <1>3, <1>4 DEF Next, Background

LEMMA InitSafe == Init => Safe
<1> SUFFICES ASSUME Init PROVE Safe
  OBVIOUS
<1>1. Requested /\ Shown
  BY DEF Init, Requested, Shown, NoCall, Idle
<1>2. ASSUME NEW r \in Replies
      PROVE  MayShow(r) = {} /\ live[r] = 0 /\ confirmed[r] = 0
  BY DEF Init, MayShow, Idle
<1>3. SendBudget
  BY <1>2, FS_EmptySet DEF SendBudget
<1> QED
  BY <1>1, <1>3 DEF Safe

LEMMA AlwaysSafe == Spec => []Safe
<1>1. TypeOK /\ Safe /\ [Next]_vars => Safe'
  BY SafeStep
<1> QED
  BY <1>1, InitSafe, RepliesTypeCorrect, PTL DEF Spec

\* What is visible, what may still be shown and what the status allows to send never
\* exceed what the user asked for and confirmed (reply-sender.ts, reply-state.ts and
\* retryReply of inbox.service.ts together).
THEOREM SendBudgetAlways == Spec => []SendBudget
<1>1. Safe => SendBudget
  BY DEF Safe
<1> QED
  BY <1>1, AlwaysSafe, PTL

\* "Never send twice" (reply-sender.ts:37), for every number of workers, requests and faults.
THEOREM SentOnceAlways == Spec => []SentOnce
<1>1. TypeOK /\ Safe => SentOnce
  BY BudgetSuffices DEF Safe
<1> QED
  BY <1>1, AlwaysSafe, RepliesTypeCorrect, PTL

\* What the API treats as unsent (its EDITABLE, deletable and failed replies) is unsent.
THEOREM UnsentIsUnsentAlways == Spec => []UnsentIsUnsent
<1>1. TypeOK /\ Safe => UnsentIsUnsent
  BY BudgetSuffices DEF Safe
<1> QED
  BY <1>1, AlwaysSafe, RepliesTypeCorrect, PTL

-----------------------------------------------------------------------------
(* Replies implements SendOnce, for every set of replies, workers and      *)
(* requests and every bound: every step of a sender, a request, a fault or *)
(* the maintenance shows a reply, tells its users something or takes their *)
(* confirmation as SendOnce allows, or is none of its business.  The       *)
(* invariants above say why: before and after a step, what is called       *)
(* unsent is not visible, and what is visible is within the budget.        *)


\* What the refinement shows of SendOnce's last variable.
told == [r \in Replies |-> Told(status[r])]

\* What RepliesProofs knows of every state.
Good == TypeOK /\ Safe /\ SentOnce /\ UnsentIsUnsent

\* A step of the promise, or none.
PromiseStep == Promise!Next \/ UNCHANGED Promise!ovars

LEMMA ToldCases ==
  \A s : /\ Told(s) \in {"unsent", "open", "sent"}
         /\ Told(s) = "unsent" <=> s \in UnsentStatus
         /\ Told(s) = "sent" <=> s = "sent"
BY DEF Told, UnsentStatus

\* A step that shows nothing and asks for nothing more, and leaves what users are told.
LEMMA Silent ==
  ASSUME live' = live, confirmed' = confirmed, \A r \in Replies : Told(status'[r]) = Told(status[r])
  PROVE  PromiseStep
BY DEF PromiseStep, Promise!ovars

\* A step that changes one reply's status and nothing else users see.
LEMMA SetStatus ==
  ASSUME TypeOK, TypeOK', UnsentIsUnsent', NEW r \in Replies, NEW s,
         status' = [status EXCEPT ![r] = s], live' = live, confirmed' = confirmed,
         s = "sent" => live[r] >= 1
  PROVE  PromiseStep
<1> DEFINE what == Told(s)
<1>1. what = "unsent" => live[r] = 0 \/ 1 + confirmed[r] > 1
  <2> SUFFICES ASSUME what = "unsent", confirmed[r] = 0 PROVE live[r] = 0
    BY DEF TypeOK
  <2>1. status'[r] \in UnsentStatus
    BY ToldCases DEF TypeOK
  <2> QED
    BY <2>1 DEF UnsentIsUnsent
<1>2. what = "sent" => live[r] > 0
  BY ToldCases DEF TypeOK
<1>3. told' = [told EXCEPT ![r] = what]
  BY DEF told, TypeOK
<1>4. Promise!Tell(r, what)
  BY <1>1, <1>2, <1>3 DEF Promise!Tell, told, TypeOK
<1> QED
  BY <1>4, ToldCases DEF PromiseStep, Promise!Next


\* Requests: a confirmed retry is a confirmation; all the others change a status or nothing.
LEMMA CallStepRefines ==
  ASSUME Good, Good', NEW c \in Calls, CallStep(c)
  PROVE  PromiseStep
<1> USE DEF rows, bounds, history
<1>0. TypeOK /\ TypeOK' /\ Safe /\ UnsentIsUnsent'
  BY DEF Good
<1>w. live' = live
  BY DEF CallStep, CreateReply, UpdateRead, UpdateTx, Approve, Reject, Delete, RetryRead,
         RetryWrite, EnqueueReply, EnqueueLost
<1>1. CASE CreateReply(c)
  <2>1. PICK r \in Replies, to \in {"draft"} \cup Submitted : status' = [status EXCEPT ![r] = to]
    BY <1>1 DEF CreateReply
  <2>2. to # "sent" /\ confirmed' = confirmed
    BY <1>1 DEF Submitted, CreateReply
  <2> QED
    BY <1>0, <1>w, <2>1, <2>2, SetStatus
<1>2. CASE UpdateTx(c)
  <2>1. confirmed' = confirmed /\ call[c].reply \in Replies
    BY <1>0, <1>2 DEF UpdateTx, TypeOK, Requests
  <2>2. CASE status' = status
    BY <1>w, <2>1, <2>2, Silent
  <2>3. CASE status' = [status EXCEPT ![call[c].reply] = call[c].to]
    <3>1. call[c].to # "sent"
      BY <1>0, <1>2 DEF Safe, Requested, UpdateTx, EDITABLE, Submitted
    <3> QED
      BY <1>0, <1>w, <2>1, <2>3, <3>1, SetStatus
  <2> QED
    BY <1>2, <2>2, <2>3 DEF UpdateTx
<1>3. CASE Approve(c)
  <2>1. PICK r \in Replies : status' = [status EXCEPT ![r] = "queued"]
    BY <1>3 DEF Approve
  <2> QED
    BY <1>0, <1>w, <1>3, <2>1, SetStatus DEF Approve
<1>4. CASE Reject(c)
  <2>1. PICK r \in Replies : status' = [status EXCEPT ![r] = "rejected"]
    BY <1>4 DEF Reject
  <2> QED
    BY <1>0, <1>w, <1>4, <2>1, SetStatus DEF Reject
<1>5. CASE Delete(c)
  <2>1. PICK r \in Replies : status' = [status EXCEPT ![r] = "deleted"]
    BY <1>5 DEF Delete
  <2> QED
    BY <1>0, <1>w, <1>5, <2>1, SetStatus DEF Delete
<1>6. CASE RetryWrite(c)
  <2>0. call[c].reply \in Replies
    BY <1>0 DEF TypeOK, Requests
  <2>1. PICK r \in Replies : r = call[c].reply
    BY <2>0
  <2>2. CASE UNCHANGED <<status, confirmed>>
    BY <1>w, <2>2, Silent
  <2>3. CASE /\ status[r] = "unconfirmed"
             /\ status' = [status EXCEPT ![r] = "queued"]
             /\ confirmed' = [confirmed EXCEPT ![r] = confirmed[r] + 1]
    <3>1. told[r] = "open" /\ told' = [told EXCEPT ![r] = "unsent"]
      BY <1>0, <2>3, ToldCases, Statuses DEF told, TypeOK
    <3>2. [u \in Replies |-> 1 + confirmed'[u]]
            = [[u \in Replies |-> 1 + confirmed[u]] EXCEPT ![r] = (1 + confirmed[r]) + 1]
      <4>1. \A u \in Replies : 1 + confirmed'[u] = IF u = r THEN (1 + confirmed[r]) + 1
                                                    ELSE 1 + confirmed[u]
        BY <1>0, <2>3 DEF TypeOK
      <4> QED
        BY <4>1, Zenon
    <3>3. Promise!Confirm(r)
      BY <1>w, <3>1, <3>2 DEF Promise!Confirm, told
    <3> QED
      BY <3>3 DEF PromiseStep, Promise!Next
  <2>4. CASE status' = [status EXCEPT ![r] = "queued"] /\ confirmed' = confirmed
    BY <1>0, <1>w, <2>1, <2>4, SetStatus
  <2>5. \/ UNCHANGED <<status, confirmed>>
        \/ /\ status[r] = "unconfirmed"
           /\ status' = [status EXCEPT ![r] = "queued"]
           /\ confirmed' = [confirmed EXCEPT ![r] = confirmed[r] + 1]
        \/ status' = [status EXCEPT ![r] = "queued"] /\ confirmed' = confirmed
    <3>1. CASE status[r] = "unconfirmed"
      BY <1>6, <2>1, <3>1 DEF RetryWrite
    <3>2. CASE status[r] # "unconfirmed"
      BY <1>0, <1>6, <2>1, <3>2 DEF RetryWrite, TypeOK
    <3> QED
      BY <3>1, <3>2
  <2> QED
    BY <2>2, <2>3, <2>4, <2>5
<1>7. CASE UpdateRead(c) \/ RetryRead(c) \/ EnqueueReply(c) \/ EnqueueLost(c)
  BY <1>w, <1>7, Silent DEF UpdateRead, RetryRead, EnqueueReply, EnqueueLost
<1> QED
  BY <1>1, <1>2, <1>3, <1>4, <1>5, <1>6, <1>7 DEF CallStep

\* Senders: only engagement.reply shows anything, and only outcomes, claims and requeues
\* change what users are told.
LEMMA WorkerStepRefines ==
  ASSUME Good, Good', NEW w \in Workers, WorkerStep(w) \/ WorkerFault(w)
  PROVE  PromiseStep
<1> USE DEF rows, bounds, history
<1>0. TypeOK /\ TypeOK' /\ Safe /\ UnsentIsUnsent /\ UnsentIsUnsent' /\ SentOnce'
  BY DEF Good
<1>r. worker[w].reply \in Replies
  BY <1>0 DEF TypeOK, WorkerStates
<1>w. PICK r \in Replies : r = worker[w].reply
  BY <1>r
<1>n. live[r] \in Nat /\ confirmed[r] \in Nat
  BY <1>0 DEF TypeOK
<1>1. CASE Claim(w)
  <2>1. status' = status \/ status' = [status EXCEPT ![r] = "sending"]
    BY <1>1, <1>w DEF Claim
  <2>2. live' = live /\ confirmed' = confirmed
    BY <1>1 DEF Claim
  <2> QED
    BY <1>0, <1>w, <2>1, <2>2, Silent, SetStatus
<1>2. CASE Requeue(w)
  <2>1. status' = status \/ status' = [status EXCEPT ![r] = "queued"]
    BY <1>2, <1>w DEF Requeue
  <2>2. live' = live /\ confirmed' = confirmed
    BY <1>2 DEF Requeue
  <2> QED
    BY <1>0, <1>w, <2>1, <2>2, Silent, SetStatus
<1>3. CASE WriteOutcome(w)
  <2>1. status' = [status EXCEPT ![r] = worker[w].pc] /\ live' = live /\ confirmed' = confirmed
    BY <1>3, <1>w DEF WriteOutcome
  <2>2. worker[w].pc = "sent" => live[r] >= 1
    BY <1>0, <1>w DEF Safe, Shown
  <2> QED
    BY <1>0, <1>w, <2>1, <2>2, SetStatus
<1>4. CASE Send(w)
  <2>1. status' = status /\ confirmed' = confirmed
    BY <1>4 DEF Send
  <2>2. CASE live' = live
    BY <2>1, <2>2, Silent
  <2>3. CASE live' = [live EXCEPT ![r] = live[r] + 1]
    <3>1. live[r] < 1 + confirmed[r]
      BY <1>0, <1>n, <2>1, <2>3 DEF SentOnce, TypeOK
    <3>2. 1 + confirmed[r] = 1 => told[r] # "unsent"
      BY <1>0, <1>4, <1>w, <1>n, ToldCases DEF UnsentIsUnsent, Send, told
    <3>3. Promise!Show(r)
      BY <1>w, <2>1, <2>3, <3>1, <3>2 DEF Promise!Show, told
    <3> QED
      BY <3>3 DEF PromiseStep, Promise!Next
  <2> QED
    BY <1>4, <1>w, <2>2, <2>3 DEF Send, Show
<1>5. CASE StartJob(w) \/ Prepare(w) \/ EnqueueRetry(w)
  BY <1>5, Silent DEF StartJob, Prepare, EnqueueRetry
<1>6. CASE WorkerFault(w)
  BY <1>6, Silent DEF WorkerFault, CallFails, TryFails, Crash, LoseLock
<1> QED
  BY <1>1, <1>2, <1>3, <1>4, <1>5, <1>6 DEF WorkerStep

\* The queue and the maintenance: a reply given up on was open before.
LEMMA BackgroundRefines ==
  ASSUME TypeOK, Background
  PROVE  PromiseStep
<1> USE DEF rows, bounds, history
<1>1. ASSUME NEW early, status' = Recovered(status, early), UNCHANGED history
      PROVE  PromiseStep
  <2>1. \A r \in Replies : Told(status'[r]) = Told(status[r])
    BY <1>1, ToldCases, Statuses DEF Recovered, Told
  <2> QED
    BY <1>1, <2>1, Silent
<1>2. CASE RecoverStuck
  BY <1>1, <1>2 DEF RecoverStuck
<1>3. CASE RecoverEarly
  BY <1>1, <1>3 DEF RecoverEarly
<1>4. CASE RecoverStalled \/ RedisLoss \/ SweepRead \/ SweepEnsure
  BY <1>4, Silent DEF RecoverStalled, RedisLoss, SweepRead, SweepEnsure
<1> QED
  BY <1>2, <1>3, <1>4 DEF Background

LEMMA StepRefines ==
  ASSUME Good, Good', [Next]_vars
  PROVE  [Promise!Next]_(Promise!ovars)
<1>1. ASSUME NEW c \in Calls, CallStep(c) PROVE PromiseStep
  BY <1>1, CallStepRefines
<1>2. ASSUME NEW w \in Workers, WorkerStep(w) \/ WorkerFault(w) PROVE PromiseStep
  BY <1>2, WorkerStepRefines
<1>3. ASSUME Background PROVE PromiseStep
  BY <1>3, BackgroundRefines DEF Good
<1>4. ASSUME UNCHANGED vars PROVE PromiseStep
  BY <1>4, Silent DEF vars, rows, history
<1>5. PromiseStep
  BY <1>1, <1>2, <1>3, <1>4 DEF Next, Background
<1> QED
  BY <1>5 DEF PromiseStep

LEMMA InitRefines == Init => Promise!Init
<1> SUFFICES ASSUME Init PROVE Promise!Init
  OBVIOUS
<1>1. \A r \in Replies : live[r] = 0 /\ confirmed[r] = 0 /\ Told(status[r]) = "unsent"
  BY ToldCases, Statuses DEF Init
<1> QED
  BY <1>1 DEF Init, Promise!Init

\* The senders, the requests, the queue and the maintenance together implement SendOnce
\* ("never send twice", reply-sender.ts:36; a reply is edited, deleted or retried without
\* a question only while nobody can see it, inbox.service.ts).
THEOREM RepliesKeepPromise == Spec => KeepsPromise
<1>1. TypeOK /\ Safe => Good
  BY BudgetSuffices DEF Good, Safe
<1>2. Good /\ Good' /\ [Next]_vars => [Promise!Next]_(Promise!ovars)
  BY StepRefines
<1> QED
  BY <1>1, <1>2, InitRefines, AlwaysSafe, RepliesTypeCorrect, PTL
  DEF Spec, KeepsPromise, Promise!Spec

-----------------------------------------------------------------------------
(* What the promise comes to, for whatever keeps it.                       *)

CONSTANT Things
VARIABLES shown, allowed, said
Sender == INSTANCE SendOnce WITH told <- said

Types ==
  /\ shown \in [Things -> Nat] /\ allowed \in [Things -> Nat \ {0}]
  /\ said \in [Things -> {"unsent", "open", "sent"}]

LEMMA KeptStep ==
  ASSUME Types, Sender!Kept, [Sender!Next]_(Sender!ovars)
  PROVE  Types' /\ Sender!Kept'
<1>1. ASSUME NEW x \in Things, Sender!Show(x) PROVE Types' /\ Sender!Kept'
  BY <1>1 DEF Sender!Show, Types, Sender!Kept
<1>2. ASSUME NEW x \in Things, Sender!Confirm(x) PROVE Types' /\ Sender!Kept'
  BY <1>2 DEF Sender!Confirm, Types, Sender!Kept
<1>3. ASSUME NEW x \in Things, NEW what \in {"unsent", "open", "sent"}, Sender!Tell(x, what)
      PROVE  Types' /\ Sender!Kept'
  BY <1>3 DEF Sender!Tell, Types, Sender!Kept
<1>4. CASE UNCHANGED Sender!ovars
  BY <1>4 DEF Sender!ovars, Types, Sender!Kept
<1> QED
  BY <1>1, <1>2, <1>3, <1>4 DEF Sender!Next

\* Whatever implements SendOnce shows nothing more often than it was asked to, and never
\* calls a thing unsent that is shown, or sent one that is not (the engine's and the
\* reply sender's invariant 1).
THEOREM PromiseMeansKept == Sender!Spec => []Sender!Kept
<1>1. Sender!Init => Types /\ Sender!Kept
  BY DEF Sender!Init, Types, Sender!Kept
<1> QED
  BY <1>1, KeptStep, PTL DEF Sender!Spec
=============================================================================
