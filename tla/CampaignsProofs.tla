-------------------------- MODULE CampaignsProofs --------------------------
(***************************************************************************)
(* Proofs about Campaigns, for any campaigns, workers and requests: its    *)
(* types and what a worker, a request and the sync hold at each place      *)
(* (CampTyped), and on that ground one inductive invariant for each of the *)
(* promises of ads-writer.ts: Budgeted, AsApproved and AsAsked.            *)
(***************************************************************************)
EXTENDS Campaigns, FiniteSetTheorems, TLAPS

Histories ==
  /\ confirmed \in [Campaigns -> Nat] /\ stale \in [Campaigns -> Nat]
  /\ asked \in [Campaigns -> Nat] /\ starts \in [Campaigns -> Nat]
  /\ approved \in [Campaigns -> Nat]
  /\ DOMAIN content = DOMAIN platform

\* What a worker is at tells its action, and a change is of a campaign that was created.
Placed(w) ==
  LET k == worker[w] IN
  /\ k.pc \notin {"idle", "claim"} => k.mine # 0
  /\ k.pc \in {"created", "failed", "unconfirmed", "requeue"} => k.action = "create"
  /\ k.pc \in {"changed", "error", "flag", "ask", "tell"} => k.action # "create"
  /\ k.pc = "created" => <<k.camp, k.mine>> \in DOMAIN platform
  /\ k.pc \in {"send", "changed", "flag", "ask", "tell"} /\ k.action # "create" =>
       external[k.camp] # 0

\* What a request read decides what it may write.
Requested(k) ==
  /\ call[k].pc = "update" => call[k].was \in EDITABLE /\ call[k].to \in EDITABLE \cup {"approved"}
  /\ call[k].pc \in {"retry", "bury"} => call[k].was \in {"failed", "unconfirmed"}

\* The sync is at a live campaign that was created.
Synced == sync.pc = "tell" => external[sync.camp] # 0 /\ sync.was \in {"paused", "active"}

CampTyped ==
  /\ CampaignsTypeOK /\ Histories /\ (\A w \in Workers : Placed(w))
  /\ (\A k \in Calls : Requested(k)) /\ Synced

\* CreationBudget, of sets that can be counted.
Budgeted ==
  /\ \A c \in Campaigns : IsFiniteSet(Made(c)) /\ IsFiniteSet(MayCreate(c))
  /\ CreationBudget

\* A campaign that has been approved is not edited again.
Past(c) == status[c] \notin EDITABLE \cup {"unused", "deleted"}
AsApproved ==
  /\ \A c \in Campaigns : Past(c) => edition[c] = approved[c]
  /\ \A w \in Workers : worker[w].pc \notin {"idle", "claim"} =>
       /\ Past(worker[w].camp)
       /\ worker[w].action = "create" => worker[w].copy = approved[worker[w].camp]
  /\ \A o \in DOMAIN platform : Past(o[1]) /\ content[o] = approved[o[1]]

\* The activations of campaign c that may still reach the platform, and a carrier of the
\* activation asked for at version n: a job, or who is about to add one or claims it.
MayStart(c) == {w \in Workers : /\ worker[w].camp = c /\ worker[w].action = "activate"
                                /\ worker[w].pc \in {"prepare", "send"}}
Bears(w, c, n) == /\ worker[w].action = "activate" /\ worker[w].camp = c
                  /\ \/ worker[w].pc = "claim" /\ worker[w].num = n
                     \/ worker[w].pc = "enqueue" /\ worker[w].mine = n
Carried(c, n) ==
  \/ \E j \in queue : j.camp = c /\ j.num = n /\ j.action = "activate"
  \/ \E k \in Calls : /\ call[k].pc = "enqueue" /\ call[k].action = "activate"
                      /\ call[k].camp = c /\ call[k].num = n
  \/ \E w \in Workers : Bears(w, c, n)
Due(c) == IF Carried(c, version[c]) THEN 1 ELSE 0

\* Only the activation carried at the campaign's own version can be claimed, and the claim
\* moves the version past every carrier: StartedAsAsked, with what is still to come.
AsAsked ==
  /\ \A c \in Campaigns : status[c] = "unused" => version[c] = 0
  /\ \A c \in Campaigns : \A n \in Nat : Carried(c, n) => n <= version[c]
  /\ \A w \in Workers : worker[w].pc \notin {"idle", "claim"} => worker[w].mine <= version[worker[w].camp]
  /\ \A c \in Campaigns :
       /\ IsFiniteSet(MayStart(c))
       /\ starts[c] + Cardinality(MayStart(c)) + Due(c) <= asked[c]

-----------------------------------------------------------------------------
(* Types.                                                                  *)

LEMMA IdleTypes ==
  ASSUME CampaignsParameters
  PROVE  Idle \in WorkerStates /\ NoCall \in Requests /\ NoSync \in SyncStates
<1>1. SomeCampaign \in Campaigns
  BY DEF CampaignsParameters, SomeCampaign
<1> QED
  BY <1>1 DEF Idle, NoCall, NoSync, WorkerStates, WorkerPc, Requests, SyncStates, Actions,
              CampaignStatus, PlatformStatus

\* Whatever BullMQ does to the jobs, they are the ones there were or the one added.
LEMMA AddedJob ==
  ASSUME NEW q, NEW c, NEW n, NEW a, NEW k
  PROVE  \A j \in With(q, c, n, a, k) : j \in q \/ (j.camp = c /\ j.num = n /\ j.action = a)
BY DEF With

LEMMA MarkedJobs ==
  ASSUME NEW q, q \subseteq Jobs, NEW c, NEW n, NEW st \in {"waiting", "active", "finished"}
  PROVE  \A j \in Marked(q, c, n, st) :
           j \in Jobs /\ \E i \in q : i.camp = j.camp /\ i.num = j.num /\ i.action = j.action
<1> SUFFICES ASSUME NEW j \in Marked(q, c, n, st)
             PROVE  j \in Jobs /\ \E i \in q : i.camp = j.camp /\ i.num = j.num /\ i.action = j.action
  OBVIOUS
<1>1. PICK i \in q : j = IF i.camp = c /\ i.num = n THEN [i EXCEPT !.st = st] ELSE i
  BY DEF Marked
<1>2. i \in Jobs
  OBVIOUS
<1> QED
  BY <1>1, <1>2 DEF Jobs

LEMMA FinishedJobs ==
  ASSUME NEW q, q \subseteq Jobs, NEW c, NEW n
  PROVE  \A j \in Finished(q, c, n) :
           j \in Jobs /\ \E i \in q : i.camp = j.camp /\ i.num = j.num /\ i.action = j.action
BY MarkedJobs DEF Finished

LEMMA WithType ==
  ASSUME NEW q, q \subseteq Jobs, NEW c \in Campaigns, NEW n \in Nat, NEW a \in Actions, NEW k \in Nat
  PROVE  With(q, c, n, a, k) \subseteq Jobs
BY DEF With, Jobs

\* The jobs after w's has ended are the ones there were.
LEMMA EndedJobs ==
  ASSUME queue \subseteq Jobs, NEW w \in Workers
  PROVE  \A j \in Ended(w) :
           j \in Jobs /\ \E i \in queue : i.camp = j.camp /\ i.num = j.num /\ i.action = j.action
<1>1. CASE worker[w].held
  <2>1. PICK c, n : c = worker[w].camp /\ n = worker[w].num
    OBVIOUS
  <2>2. Ended(w) = Finished(queue, c, n)
    BY <1>1, <2>1 DEF Ended
  <2>3. \A j \in Finished(queue, c, n) :
          j \in Jobs /\ \E i \in queue : i.camp = j.camp /\ i.num = j.num /\ i.action = j.action
    BY FinishedJobs
  <2> QED
    BY <2>2, <2>3
<1>2. CASE ~ worker[w].held
  BY <1>2 DEF Ended
<1> QED
  BY <1>1, <1>2

\* An object stays on the platform, and a campaign that has one keeps one.
Grows ==
  /\ DOMAIN platform \subseteq DOMAIN platform'
  /\ \A c \in Campaigns : external[c] # 0 => external'[c] # 0

\* What a worker or the sync holds still stands if nothing is taken off the platform.
LEMMA StillPlaced ==
  ASSUME CampTyped, Grows, NEW w \in Workers, worker'[w] = worker[w]
  PROVE  Placed(w)'
<1>1. worker[w].camp \in Campaigns /\ Placed(w)
  BY DEF CampTyped, CampaignsTypeOK, WorkerStates
<1> QED
  BY <1>1 DEF Placed, Grows

LEMMA StillSynced ==
  ASSUME CampTyped, Grows, sync' = sync
  PROVE  sync' \in SyncStates /\ Synced'
<1>1. sync.camp \in Campaigns /\ sync \in SyncStates /\ Synced
  BY DEF CampTyped, CampaignsTypeOK, SyncStates
<1> QED
  BY <1>1 DEF Synced, Grows

\* A worker that is idle, or whose record is typed and placed, is all that changed.
LEMMA OneWorker ==
  ASSUME CampaignsParameters, CampTyped, Grows, NEW w \in Workers, NEW v,
         worker' = [worker EXCEPT ![w] = v], v = Idle \/ (v \in WorkerStates /\ Placed(w)')
  PROVE  worker' \in [Workers -> WorkerStates] /\ \A u \in Workers : Placed(u)'
<1>0. worker \in [Workers -> WorkerStates]
  BY DEF CampTyped, CampaignsTypeOK
<1>1. worker' \in [Workers -> WorkerStates] /\ worker'[w] = v
  BY <1>0, IdleTypes
<1>2. \A u \in Workers \ {w} : worker'[u] = worker[u]
  BY <1>0
<1>3. Placed(w)'
  <2>1. CASE v = Idle
    BY <1>1, <2>1 DEF Placed, Idle
  <2> QED
    BY <2>1
<1>4. \A u \in Workers \ {w} : Placed(u)'
  BY <1>2, StillPlaced
<1> QED
  BY <1>1, <1>3, <1>4

LEMMA EndTyped ==
  ASSUME CampaignsParameters, CampTyped, Grows, NEW w \in Workers, End(w)
  PROVE  worker' \in [Workers -> WorkerStates] /\ queue' \subseteq Jobs /\ \A u \in Workers : Placed(u)'
<1>1. worker' = [worker EXCEPT ![w] = Idle] /\ queue' = Ended(w)
  BY DEF End
<1>2. queue' \subseteq Jobs
  BY <1>1, EndedJobs DEF CampTyped, CampaignsTypeOK
<1> QED
  BY <1>1, <1>2, OneWorker

\* A worker that only moves on to p.
LEMMA GotoRecord ==
  ASSUME CampTyped, NEW w \in Workers, NEW p \in WorkerPc, Goto(w, p)
  PROVE  /\ worker' = [worker EXCEPT ![w] = [worker[w] EXCEPT !.pc = p]]
         /\ worker'[w] = [worker[w] EXCEPT !.pc = p] /\ worker'[w] \in WorkerStates
         /\ worker[w] \in WorkerStates
<1>1. worker \in [Workers -> WorkerStates] /\ worker[w] \in WorkerStates
  BY DEF CampTyped, CampaignsTypeOK
<1> QED
  BY <1>1 DEF Goto, WorkerStates

\* Where an error of this kind may lead.
CatchTo(w, kind, sent) ==
  \/ Goto(w, IF worker[w].action = "create" THEN "requeue" ELSE "enqueue")
  \/ Goto(w, IF worker[w].action = "create" THEN "failed" ELSE "error")
  \/ /\ kind = "unknown_outcome" \/ (kind = "internal" /\ sent)
     /\ Goto(w, IF worker[w].action = "create" THEN "unconfirmed" ELSE "flag")
  \/ /\ kind = "auth"
     /\ worker' = [worker EXCEPT ![w] = [worker[w] EXCEPT !.pc = "prepare", !.fresh = TRUE]]

LEMMA CatchGoes ==
  ASSUME CampTyped, NEW w \in Workers, NEW kind \in ErrorKinds, NEW sent \in BOOLEAN,
         Catch(w, kind, sent)
  PROVE  CatchTo(w, kind, sent)
<1> USE DEF CatchTo
<1> DEFINE decision == Decide(kind, worker[w].attempt, sent, worker[w].fresh)
<1>1. worker \in [Workers -> WorkerStates] /\ worker[w] \in WorkerStates /\ worker[w].fresh \in BOOLEAN
  BY DEF CampTyped, CampaignsTypeOK, WorkerStates
<1>2. /\ decision \in Decisions
      /\ decision = "unconfirmed" => kind = "unknown_outcome" \/ (kind = "internal" /\ sent)
      /\ decision = "refresh_token" => kind = "auth"
      /\ kind \in {"unknown_outcome"} \/ (kind = "internal" /\ sent) => decision = "unconfirmed"
  BY <1>1 DEF Decide, Decisions, ErrorKinds, ProviderErrors, RetryOrFail
<1>3. CASE decision = "refresh_token"
  <2>1. worker' = [worker EXCEPT ![w].pc = "prepare", ![w].fresh = TRUE]
    BY <1>3 DEF Catch
  <2> QED
    BY <1>1, <1>2, <1>3, <2>1 DEF WorkerStates
<1>4. CASE decision # "refresh_token"
  <2> HIDE DEF decision
  <2>1. CASE decision = "retry"
    BY <2>1 DEF Catch, decision
  <2>2. CASE decision \in {"fail", "revoked"}
    BY <2>2 DEF Catch, decision
  <2>3. CASE decision = "unconfirmed"
    BY <1>2, <2>3 DEF Catch, decision
  <2> QED
    BY <1>2, <1>4, <2>1, <2>2, <2>3 DEF Decisions
<1> QED
  BY <1>3, <1>4

\* An answer that may have come from a call that took effect is recorded as such.
LEMMA DoubtGoes ==
  ASSUME CampTyped, NEW w \in Workers, NEW kind \in {"unknown_outcome", "internal"},
         Catch(w, kind, TRUE)
  PROVE  Goto(w, IF worker[w].action = "create" THEN "unconfirmed" ELSE "flag")
<1>1. Decide(kind, worker[w].attempt, TRUE, worker[w].fresh) = "unconfirmed"
  BY DEF Decide
<1> QED
  BY <1>1 DEF Catch

-----------------------------------------------------------------------------
(* Types: the requests.                                                    *)

\* What a request that ends, or hands its job on, leaves is typed.
LEMMA CallTyped ==
  ASSUME CampaignsParameters, CampTyped, NEW k \in Calls,
         \/ Done(k)
         \/ \E c \in Campaigns, n \in Nat, a \in Actions : Then(k, c, n, a)
  PROVE  call' \in [Calls -> Requests] /\ \A i \in Calls : Requested(i)'
<1>0. call \in [Calls -> Requests] /\ \A i \in Calls : Requested(i)
  BY DEF CampTyped, CampaignsTypeOK
<1>1. PICK v : /\ call' = [call EXCEPT ![k] = v] /\ v \in Requests
               /\ v.pc \in {"idle", "enqueue"}
  <2>1. CASE Done(k)
    <3>1. NoCall \in Requests /\ NoCall.pc = "idle"
      BY IdleTypes DEF NoCall
    <3> QED
      BY <2>1, <3>1 DEF Done
  <2>2. ASSUME NEW c \in Campaigns, NEW n \in Nat, NEW a \in Actions, Then(k, c, n, a)
        PROVE  \E v : /\ call' = [call EXCEPT ![k] = v] /\ v \in Requests
                      /\ v.pc \in {"idle", "enqueue"}
    <3> DEFINE v == [NoCall EXCEPT !.pc = "enqueue", !.camp = c, !.num = n, !.action = a]
    <3>1. v \in Requests /\ v.pc = "enqueue"
      BY IdleTypes DEF Requests, NoCall
    <3>2. call' = [call EXCEPT ![k] = v]
      BY <2>2 DEF Then
    <3> QED
      BY <3>1, <3>2
  <2> QED
    BY <2>1, <2>2
<1>2. call' \in [Calls -> Requests] /\ call'[k] = v /\ \A i \in Calls \ {k} : call'[i] = call[i]
  BY <1>0, <1>1
<1>3. \A i \in Calls : Requested(i)'
  BY <1>0, <1>1, <1>2 DEF Requested
<1> QED
  BY <1>2, <1>3

\* What the API leaves alone stays typed, and so does the rest with it.
LEMMA ApiTyped ==
  ASSUME CampTyped, ApiOnly, external' = external, content' = content,
         status' \in [Campaigns -> CampaignStatus \cup {"unused", "deleted"}],
         version' \in [Campaigns -> Nat], flag' \in [Campaigns -> BOOLEAN],
         edition' \in [Campaigns -> Nat],
         call' \in [Calls -> Requests], \A k \in Calls : Requested(k)',
         confirmed' \in [Campaigns -> Nat], stale' \in [Campaigns -> Nat],
         asked' \in [Campaigns -> Nat], starts' = starts, approved' \in [Campaigns -> Nat]
  PROVE  CampTyped'
<1>1. Grows /\ UNCHANGED <<queue, worker, orphans, sync, platform>>
  BY DEF Grows, ApiOnly
<1>2. \A w \in Workers : Placed(w)'
  BY <1>1, StillPlaced
<1>3. Synced'
  BY <1>1, StillSynced
<1>4. CampaignsTypeOK'
  BY <1>1 DEF CampTyped, CampaignsTypeOK
<1>5. Histories'
  BY <1>1 DEF CampTyped, Histories
<1> QED
  BY <1>2, <1>3, <1>4, <1>5 DEF CampTyped

\* The record a request that has read a row keeps.
LEMMA ReadTyped ==
  ASSUME CampaignsParameters, CampTyped, NEW k \in Calls, NEW v \in Requests,
         call' = [call EXCEPT ![k] = v],
         v.pc = "update" => v.was \in EDITABLE /\ v.to \in EDITABLE \cup {"approved"},
         v.pc \in {"retry", "bury"} => v.was \in {"failed", "unconfirmed"}
  PROVE  call' \in [Calls -> Requests] /\ \A i \in Calls : Requested(i)'
<1>0. call \in [Calls -> Requests] /\ \A i \in Calls : Requested(i)
  BY DEF CampTyped, CampaignsTypeOK
<1>2. call' \in [Calls -> Requests] /\ call'[k] = v /\ \A i \in Calls \ {k} : call'[i] = call[i]
  BY <1>0
<1>3. \A i \in Calls : Requested(i)'
  BY <1>0, <1>2 DEF Requested
<1> QED
  BY <1>2, <1>3

LEMMA RequestStepTyped ==
  ASSUME CampaignsParameters, CampTyped, NEW k \in Calls,
         CallBegins(k) \/ CallContinues(k) \/ EnqueueLost(k)
  PROVE  CampTyped'
<1>0. /\ status \in [Campaigns -> CampaignStatus \cup {"unused", "deleted"}]
      /\ version \in [Campaigns -> Nat] /\ flag \in [Campaigns -> BOOLEAN]
      /\ edition \in [Campaigns -> Nat] /\ call \in [Calls -> Requests] /\ call[k] \in Requests
      /\ confirmed \in [Campaigns -> Nat] /\ stale \in [Campaigns -> Nat]
      /\ asked \in [Campaigns -> Nat] /\ approved \in [Campaigns -> Nat]
      /\ \A i \in Calls : Requested(i)
      /\ EDITABLE \subseteq CampaignStatus
  BY DEF CampTyped, CampaignsTypeOK, Histories, EDITABLE, CampaignStatus
<1>c. call[k].camp \in Campaigns /\ call[k].num \in Nat /\ call[k].action \in Actions
  BY <1>0 DEF Requests
<1>1. CASE CreateCampaign(k)
  <2>0. PICK c \in Campaigns, to \in {"draft", "pending_approval", "approved"} :
         /\ status' = [status EXCEPT ![c] = to]
         /\ version' = [version EXCEPT ![c] = IF to = "approved" THEN 1 ELSE 0]
         /\ IF to = "approved" THEN Then(k, c, 1, "create") ELSE Done(k)
         /\ approved' = IF to = "approved" THEN [approved EXCEPT ![c] = edition[c]] ELSE approved
    BY <1>1 DEF CreateCampaign
  <2>1. call' \in [Calls -> Requests] /\ \A i \in Calls : Requested(i)'
    BY <2>0, CallTyped DEF Actions
  <2>2. status' \in [Campaigns -> CampaignStatus \cup {"unused", "deleted"}]
    BY <1>0, <2>0 DEF CampaignStatus
  <2>3. version' \in [Campaigns -> Nat] /\ approved' \in [Campaigns -> Nat]
    BY <1>0, <2>0
  <2> QED
    BY <1>0, <1>1, <2>1, <2>2, <2>3, ApiTyped DEF CreateCampaign
<1>2. CASE UpdateRead(k)
  <2>0. PICK c \in Campaigns : \E to \in {status[c], "draft", "pending_approval", "approved"} :
          /\ status[c] \in EDITABLE
          /\ call' = [call EXCEPT ![k] = [NoCall EXCEPT !.pc = "update", !.camp = c,
                                                        !.was = status[c], !.to = to]]
    BY <1>2 DEF UpdateRead
  <2>1. PICK to \in {status[c], "draft", "pending_approval", "approved"} :
          /\ status[c] \in EDITABLE
          /\ call' = [call EXCEPT ![k] = [NoCall EXCEPT !.pc = "update", !.camp = c,
                                                        !.was = status[c], !.to = to]]
    BY <2>0
  <2> DEFINE v == [NoCall EXCEPT !.pc = "update", !.camp = c, !.was = status[c], !.to = to]
  <2>2. to \in EDITABLE \cup {"approved"} /\ to \in CampaignStatus /\ status[c] \in CampaignStatus
    BY <2>1 DEF EDITABLE, CampaignStatus
  <2>3. v \in Requests /\ v.pc = "update" /\ v.was = status[c] /\ v.to = to
    BY <2>2, IdleTypes DEF Requests, NoCall
  <2>4. call' = [call EXCEPT ![k] = v]
    BY <2>1
  <2> HIDE DEF v
  <2>5. call' \in [Calls -> Requests] /\ \A i \in Calls : Requested(i)'
    BY <2>1, <2>2, <2>3, <2>4, ReadTyped
  <2> QED
    BY <1>0, <1>2, <2>5, ApiTyped DEF UpdateRead, rows, history
<1>3. CASE UpdateWrite(k)
  <2>1. ASSUME NEW c, c = call[k].camp, NEW to, to = call[k].to, Edit(k, c, to)
        PROVE  CampTyped'
    <3>1. c \in Campaigns /\ to \in EDITABLE \cup {"approved"} /\ to \in CampaignStatus
      BY <1>0, <1>c, <1>3, <2>1 DEF UpdateWrite, Requested, EDITABLE, CampaignStatus
    <3>2. status' \in [Campaigns -> CampaignStatus \cup {"unused", "deleted"}]
      BY <1>0, <2>1, <3>1 DEF Edit
    <3>3. /\ version' \in [Campaigns -> Nat] /\ edition' \in [Campaigns -> Nat]
          /\ approved' \in [Campaigns -> Nat]
      BY <1>0, <2>1, <3>1 DEF Edit
    <3>4. version[c] + 1 \in Nat /\ "create" \in Actions
      BY <1>0, <3>1 DEF Actions
    <3>5. Done(k) \/ Then(k, c, version[c] + 1, "create")
      BY <2>1 DEF Edit
    <3>6. call' \in [Calls -> Requests] /\ \A i \in Calls : Requested(i)'
      BY <3>1, <3>4, <3>5, CallTyped
    <3> QED
      BY <1>0, <1>3, <3>2, <3>3, <3>6, ApiTyped DEF UpdateWrite
  <2>2. CASE Done(k) /\ UNCHANGED <<status, edition, version, approved>>
    <3>1. call' \in [Calls -> Requests] /\ \A i \in Calls : Requested(i)'
      BY <2>2, CallTyped
    <3> QED
      BY <1>0, <1>3, <2>2, <3>1, ApiTyped DEF UpdateWrite
  <2> QED
    BY <1>3, <2>1, <2>2 DEF UpdateWrite
<1>4. CASE Approve(k)
  <2>0. PICK c \in Campaigns :
         /\ status' = [status EXCEPT ![c] = "approved"]
         /\ version' = [version EXCEPT ![c] = @ + 1]
         /\ approved' = [approved EXCEPT ![c] = edition[c]]
         /\ Then(k, c, version[c] + 1, "create")
    BY <1>4 DEF Approve
  <2>1. version[c] + 1 \in Nat /\ "create" \in Actions /\ "approved" \in CampaignStatus
    BY <1>0 DEF Actions, CampaignStatus
  <2>2. call' \in [Calls -> Requests] /\ \A i \in Calls : Requested(i)'
    BY <2>0, <2>1, CallTyped
  <2>3. /\ status' \in [Campaigns -> CampaignStatus \cup {"unused", "deleted"}]
        /\ version' \in [Campaigns -> Nat] /\ approved' \in [Campaigns -> Nat]
    BY <1>0, <2>0, <2>1
  <2> QED
    BY <1>0, <1>4, <2>2, <2>3, ApiTyped DEF Approve
<1>5. CASE Refuse(k)
  <2>1. status' \in [Campaigns -> CampaignStatus \cup {"unused", "deleted"}]
    BY <1>0, <1>5 DEF Refuse, CampaignStatus
  <2>2. call' = call /\ \A i \in Calls : Requested(i)'
    BY <1>0, <1>5 DEF Refuse, Requested
  <2> QED
    BY <1>0, <1>5, <2>1, <2>2, ApiTyped DEF Refuse, history
<1>6. CASE Activate(k) \/ Stop(k)
  <2>1. PICK c \in Campaigns, a \in {"activate", "pause", "archive"} : Request(k, c, a)
    BY <1>6 DEF Activate, Stop
  <2>2. version[c] + 1 \in Nat /\ a \in Actions
    BY <1>0, <2>1 DEF Actions
  <2>3. call' \in [Calls -> Requests] /\ \A i \in Calls : Requested(i)'
    BY <2>1, <2>2, CallTyped DEF Request
  <2>4. version' \in [Campaigns -> Nat] /\ flag' \in [Campaigns -> BOOLEAN]
    BY <1>0, <2>1 DEF Request
  <2>5. asked' \in [Campaigns -> Nat]
    BY <1>0, <1>6 DEF Activate, Stop, history
  <2> QED
    BY <1>0, <1>6, <2>3, <2>4, <2>5, ApiTyped DEF Activate, Stop, history
<1>7. CASE AgainRead(k)
  <2>1. PICK c \in Campaigns, p \in {"retry", "bury"} :
         /\ status[c] \in {"failed", "unconfirmed"} /\ external[c] = 0
         /\ call' = [call EXCEPT ![k] = [NoCall EXCEPT !.pc = p, !.camp = c, !.was = status[c]]]
    BY <1>7 DEF AgainRead
  <2> DEFINE v == [NoCall EXCEPT !.pc = p, !.camp = c, !.was = status[c]]
  <2>2. status[c] \in CampaignStatus
    BY <2>1 DEF CampaignStatus
  <2>3. v \in Requests /\ v.pc = p /\ v.was = status[c]
    BY <2>2, IdleTypes DEF Requests, NoCall
  <2>4. call' = [call EXCEPT ![k] = v]
    BY <2>1
  <2> HIDE DEF v
  <2>5. call' \in [Calls -> Requests] /\ \A i \in Calls : Requested(i)'
    BY <2>1, <2>2, <2>3, <2>4, ReadTyped
  <2> QED
    BY <1>0, <1>7, <2>5, ApiTyped DEF AgainRead, rows, history
<1>8. CASE RetryWrite(k)
  <2>1. PICK c \in Campaigns : c = call[k].camp
    BY <1>c
  <2>2. version[c] + 1 \in Nat /\ "create" \in Actions /\ "approved" \in CampaignStatus
    BY <1>0 DEF Actions, CampaignStatus
  <2>3. Done(k) \/ Then(k, c, version[c] + 1, "create")
    BY <1>8, <2>1 DEF RetryWrite
  <2>4. call' \in [Calls -> Requests] /\ \A i \in Calls : Requested(i)'
    BY <2>2, <2>3, CallTyped
  <2>5. /\ status' \in [Campaigns -> CampaignStatus \cup {"unused", "deleted"}]
        /\ version' \in [Campaigns -> Nat] /\ flag' \in [Campaigns -> BOOLEAN]
        /\ confirmed' \in [Campaigns -> Nat] /\ stale' \in [Campaigns -> Nat]
    <3>1. CASE status[c] = call[k].was
      <4>1. /\ status' = [status EXCEPT ![c] = "approved"] /\ version' = [version EXCEPT ![c] = @ + 1]
            /\ flag' = [flag EXCEPT ![c] = FALSE]
            /\ \/ confirmed' = [confirmed EXCEPT ![c] = @ + 1]
               \/ confirmed' = confirmed
            /\ \/ stale' = [stale EXCEPT ![c] = @ + 1]
               \/ stale' = stale
        BY <1>8, <2>1, <3>1 DEF RetryWrite
      <4> QED
        BY <1>0, <2>2, <4>1
    <3>2. CASE status[c] # call[k].was
      BY <1>0, <1>8, <2>1, <3>2 DEF RetryWrite
    <3> QED
      BY <3>1, <3>2
  <2> QED
    BY <1>0, <1>8, <2>4, <2>5, ApiTyped DEF RetryWrite
<1>9. CASE BuryWrite(k)
  <2>1. call' \in [Calls -> Requests] /\ \A i \in Calls : Requested(i)'
    BY <1>9, CallTyped DEF BuryWrite
  <2>2. status' \in [Campaigns -> CampaignStatus \cup {"unused", "deleted"}]
    BY <1>0, <1>9 DEF BuryWrite, CampaignStatus
  <2> QED
    BY <1>0, <1>9, <2>1, <2>2, ApiTyped DEF BuryWrite, history
<1>10. CASE Enqueue(k)
  <2>1. call' \in [Calls -> Requests] /\ \A i \in Calls : Requested(i)'
    BY <1>10, CallTyped DEF Enqueue
  <2>2. queue' \subseteq Jobs
    BY <1>c, <1>10, WithType DEF Enqueue, CampTyped, CampaignsTypeOK
  <2>3. Grows /\ UNCHANGED <<worker, sync>>
    BY <1>10 DEF Enqueue, Grows, rows
  <2>4. Synced' /\ \A w \in Workers : Placed(w)'
    BY <2>3, StillPlaced, StillSynced
  <2> QED
    BY <1>10, <2>1, <2>2, <2>4 DEF Enqueue, CampTyped, CampaignsTypeOK, Histories, rows, history
<1>11. CASE EnqueueLost(k)
  <2>1. call' \in [Calls -> Requests] /\ \A i \in Calls : Requested(i)'
    BY <1>11, CallTyped DEF EnqueueLost
  <2> QED
    BY <1>0, <1>11, <2>1, ApiTyped DEF EnqueueLost, rows, history
<1> QED
  BY <1>1, <1>2, <1>3, <1>4, <1>5, <1>6, <1>7, <1>8, <1>9, <1>10, <1>11
  DEF CallBegins, CallContinues

-----------------------------------------------------------------------------
(* Types: the workers.                                                     *)

LEMMA GotoTyped ==
  ASSUME CampaignsParameters, CampTyped, Grows, NEW w \in Workers, NEW p \in WorkerPc, Goto(w, p),
         worker[w].mine # 0,
         p \in {"created", "failed", "unconfirmed", "requeue"} => worker[w].action = "create",
         p \in {"changed", "error", "flag", "ask", "tell"} => worker[w].action # "create",
         p = "created" => <<worker[w].camp, worker[w].mine>> \in DOMAIN platform',
         p \in {"send", "changed", "flag", "ask", "tell"} /\ worker[w].action # "create" =>
           external[worker[w].camp] # 0
  PROVE  worker' \in [Workers -> WorkerStates] /\ \A u \in Workers : Placed(u)'
<1> DEFINE v == [worker[w] EXCEPT !.pc = p]
<1>1. /\ worker' = [worker EXCEPT ![w] = v] /\ worker'[w] = v /\ v \in WorkerStates
      /\ worker[w] \in WorkerStates
  BY GotoRecord
<1>2. /\ v.pc = p /\ v.camp = worker[w].camp /\ v.mine = worker[w].mine
      /\ v.action = worker[w].action /\ worker[w].camp \in Campaigns
  BY <1>1 DEF WorkerStates
<1> HIDE DEF v
<1>3. Placed(w)'
  BY <1>1, <1>2 DEF Placed, Grows
<1> QED
  BY <1>1, <1>3, OneWorker

\* Where an error leads, from where one is caught.
LEMMA CatchTyped ==
  ASSUME CampaignsParameters, CampTyped, Grows, NEW w \in Workers, NEW kind \in ErrorKinds,
         NEW sent \in BOOLEAN, Catch(w, kind, sent),
         worker[w].pc \in {"prepare", "send", "created", "changed"},
         worker[w].action # "create" /\ (kind = "unknown_outcome" \/ (kind = "internal" /\ sent)) =>
           external[worker[w].camp] # 0
  PROVE  worker' \in [Workers -> WorkerStates] /\ \A u \in Workers : Placed(u)'
<1>0. worker[w] \in WorkerStates /\ worker[w].mine # 0
  BY DEF CampTyped, CampaignsTypeOK, Placed
<1> DEFINE creates == worker[w].action = "create"
<1>1. CASE Goto(w, IF creates THEN "requeue" ELSE "enqueue")
  <2>1. PICK p : p = IF creates THEN "requeue" ELSE "enqueue"
    OBVIOUS
  <2> QED
    BY <1>0, <1>1, <2>1, GotoTyped DEF WorkerPc
<1>2. CASE Goto(w, IF creates THEN "failed" ELSE "error")
  <2>1. PICK p : p = IF creates THEN "failed" ELSE "error"
    OBVIOUS
  <2> QED
    BY <1>0, <1>2, <2>1, GotoTyped DEF WorkerPc
<1>3. CASE /\ kind = "unknown_outcome" \/ (kind = "internal" /\ sent)
           /\ Goto(w, IF creates THEN "unconfirmed" ELSE "flag")
  <2>1. PICK p : p = IF creates THEN "unconfirmed" ELSE "flag"
    OBVIOUS
  <2> QED
    BY <1>0, <1>3, <2>1, GotoTyped DEF WorkerPc
<1>4. CASE worker' = [worker EXCEPT ![w] = [worker[w] EXCEPT !.pc = "prepare", !.fresh = TRUE]]
  <2> DEFINE v == [worker[w] EXCEPT !.pc = "prepare", !.fresh = TRUE]
  <2>1. /\ v \in WorkerStates /\ v.pc = "prepare" /\ v.mine = worker[w].mine
        /\ worker \in [Workers -> WorkerStates]
    BY <1>0 DEF WorkerStates, WorkerPc, CampTyped, CampaignsTypeOK
  <2>2. worker' = [worker EXCEPT ![w] = v]
    BY <1>4
  <2> HIDE DEF v
  <2>3. worker'[w] = v
    BY <2>1, <2>2
  <2>4. Placed(w)'
    BY <1>0, <2>1, <2>3 DEF Placed
  <2> QED
    BY <2>1, <2>2, <2>4, OneWorker
<1>5. CatchTo(w, kind, sent)
  BY CatchGoes
<1> QED
  BY <1>1, <1>2, <1>3, <1>4, <1>5 DEF CatchTo

\* The variables a worker, alone, leaves typed.
LEMMA WorkerTyped ==
  ASSUME CampTyped, Grows, worker' \in [Workers -> WorkerStates], \A u \in Workers : Placed(u)',
         queue' \subseteq Jobs,
         status' \in [Campaigns -> CampaignStatus \cup {"unused", "deleted"}],
         version' \in [Campaigns -> Nat], flag' \in [Campaigns -> BOOLEAN],
         external' \in [Campaigns -> Nat], UNCHANGED <<edition, call, orphans, sync>>,
         \A c \in Campaigns : external'[c] # external[c] => <<c, external'[c]>> \in DOMAIN platform,
         DOMAIN platform' \subseteq Objects,
         \A o \in DOMAIN platform' : platform'[o] \in PlatformStatus, Histories'
  PROVE  CampTyped'
<1>1. \A k \in Calls : Requested(k)'
  BY DEF CampTyped, Requested
<1>2. Synced'
  BY StillSynced
<1>3. \A c \in Campaigns : external'[c] # 0 => <<c, external'[c]>> \in DOMAIN platform'
  BY DEF CampTyped, CampaignsTypeOK, Grows
<1>4. CampaignsTypeOK'
  BY <1>3 DEF CampTyped, CampaignsTypeOK
<1> QED
  BY <1>1, <1>2, <1>4 DEF CampTyped

\* What is left alone stays typed.
LEMMA Typed ==
  ASSUME CampTyped
  PROVE  /\ status \in [Campaigns -> CampaignStatus \cup {"unused", "deleted"}]
         /\ version \in [Campaigns -> Nat] /\ external \in [Campaigns -> Nat]
         /\ flag \in [Campaigns -> BOOLEAN] /\ edition \in [Campaigns -> Nat]
         /\ queue \subseteq Jobs /\ orphans \subseteq Campaigns \X Nat
         /\ worker \in [Workers -> WorkerStates] /\ call \in [Calls -> Requests]
         /\ sync \in SyncStates /\ Histories
         /\ DOMAIN platform \subseteq Objects /\ \A o \in DOMAIN platform : platform[o] \in PlatformStatus
         /\ \A c \in Campaigns : external[c] # 0 => <<c, external[c]>> \in DOMAIN platform
         /\ \A w \in Workers : /\ worker[w] \in WorkerStates /\ Placed(w)
                               /\ worker[w].camp \in Campaigns /\ worker[w].num \in Nat
                               /\ worker[w].action \in Actions /\ worker[w].attempt \in Nat
                               /\ worker[w].mine \in Nat /\ worker[w].was \in CampaignStatus
                               /\ worker[w].copy \in Nat /\ worker[w].seen \in PlatformStatus
<1>1. CampaignsTypeOK /\ \A w \in Workers : Placed(w) /\ worker[w] \in WorkerStates
  BY DEF CampTyped, CampaignsTypeOK
<1>2. \A w \in Workers :
        /\ worker[w].camp \in Campaigns /\ worker[w].num \in Nat
        /\ worker[w].action \in Actions /\ worker[w].attempt \in Nat
        /\ worker[w].mine \in Nat /\ worker[w].was \in CampaignStatus
        /\ worker[w].copy \in Nat /\ worker[w].seen \in PlatformStatus
  BY <1>1 DEF WorkerStates
<1> QED
  BY <1>1, <1>2 DEF CampTyped, CampaignsTypeOK

\* A worker's step that leaves the rows and the platform alone.
LEMMA OnlyWorker ==
  ASSUME CampTyped, UNCHANGED <<rows, call, orphans, sync, platform, history>>,
         worker' \in [Workers -> WorkerStates], \A u \in Workers : Placed(u)', queue' \subseteq Jobs
  PROVE  CampTyped'
<1>1. Histories' /\ Grows
  BY Typed DEF Histories, Grows, rows, history
<1> QED
  BY <1>1, Typed, WorkerTyped DEF rows

LEMMA StillGrows == ASSUME UNCHANGED <<external, platform>> PROVE Grows
BY DEF Grows

LEMMA StartJobTyped ==
  ASSUME CampaignsParameters, CampTyped, NEW w \in Workers, StartJob(w)
  PROVE  CampTyped'
<1> USE DEF rows, history
<1>1. PICK j \in queue :
        /\ queue' = Marked(queue, j.camp, j.num, "active")
        /\ worker' = [worker EXCEPT ![w] =
             [Idle EXCEPT !.pc = "claim", !.camp = j.camp, !.num = j.num, !.action = j.action,
                          !.attempt = j.attempt, !.held = TRUE]]
  BY DEF StartJob
<1> DEFINE v == [Idle EXCEPT !.pc = "claim", !.camp = j.camp, !.num = j.num, !.action = j.action,
                             !.attempt = j.attempt, !.held = TRUE]
<1>2. j \in Jobs /\ worker \in [Workers -> WorkerStates] /\ Idle \in WorkerStates
  BY IdleTypes DEF CampTyped, CampaignsTypeOK
<1>3. v \in WorkerStates /\ v.pc = "claim"
  BY <1>2 DEF WorkerStates, Jobs, Idle, WorkerPc
<1>4. worker' = [worker EXCEPT ![w] = v]
  BY <1>1
<1> HIDE DEF v
<1>5. worker'[w] = v
  BY <1>2, <1>4
<1>6. Placed(w)' /\ Grows
  BY <1>3, <1>5, StillGrows DEF Placed, StartJob
<1>7. worker' \in [Workers -> WorkerStates] /\ \A u \in Workers : Placed(u)'
  BY <1>3, <1>4, <1>6, OneWorker
<1>8. PICK c, n : c = j.camp /\ n = j.num
  OBVIOUS
<1>9. queue' \subseteq Jobs
  BY <1>1, <1>8, MarkedJobs, Typed
<1> QED
  BY <1>7, <1>9, OnlyWorker DEF StartJob

\* What a claim takes.
Claims(w) == /\ status[worker[w].camp] \in EXPECTED[worker[w].action]
             /\ version[worker[w].camp] = worker[w].num
ClaimTo(w) == IF worker[w].action = "create" THEN "creating" ELSE status[worker[w].camp]
Claimed(w) == [worker[w] EXCEPT !.pc = "prepare", !.mine = version[worker[w].camp] + 1,
                                !.was = ClaimTo(w), !.copy = edition[worker[w].camp]]

LEMMA ClaimForms ==
  ASSUME CampTyped, NEW w \in Workers, Claim(w)
  PROVE  /\ worker[w].pc = "claim"
         /\ Claims(w) =>
              /\ status' = [status EXCEPT ![worker[w].camp] = ClaimTo(w)]
              /\ version' = [version EXCEPT ![worker[w].camp] = @ + 1]
              /\ worker' = [worker EXCEPT ![w] = Claimed(w)]
              /\ queue' = queue
              /\ Claimed(w) \in WorkerStates /\ ClaimTo(w) \in CampaignStatus
         /\ ~ Claims(w) => End(w) /\ UNCHANGED <<status, version>>
<1>0. worker \in [Workers -> WorkerStates] /\ worker[w] \in WorkerStates
  BY Typed
<1>1. ASSUME Claims(w)
      PROVE  /\ status' = [status EXCEPT ![worker[w].camp] = ClaimTo(w)]
             /\ version' = [version EXCEPT ![worker[w].camp] = @ + 1]
             /\ queue' = queue
             /\ worker' = [worker EXCEPT ![w].pc = "prepare", ![w].mine = version[worker[w].camp] + 1,
                                         ![w].was = ClaimTo(w), ![w].copy = edition[worker[w].camp]]
  BY <1>1 DEF Claim, Claims, ClaimTo
<1>2. ASSUME Claims(w) PROVE worker' = [worker EXCEPT ![w] = Claimed(w)]
  BY <1>0, <1>1, <1>2 DEF Claimed, WorkerStates
<1>3. ASSUME Claims(w) PROVE ClaimTo(w) \in CampaignStatus
  BY <1>3, Typed DEF Claims, ClaimTo, EXPECTED, Actions, CampaignStatus, ARCHIVABLE_ON_PLATFORM
<1>4. version[worker[w].camp] + 1 \in Nat /\ edition[worker[w].camp] \in Nat
  BY Typed
<1>5. ASSUME Claims(w) PROVE Claimed(w) \in WorkerStates
  BY <1>0, <1>3, <1>4, <1>5 DEF Claimed, WorkerStates, WorkerPc
<1>6. ASSUME ~ Claims(w) PROVE End(w) /\ UNCHANGED <<status, version>>
  BY <1>6 DEF Claim, Claims
<1>7. worker[w].pc = "claim"
  BY DEF Claim
<1> QED
  BY <1>1, <1>2, <1>3, <1>5, <1>6, <1>7

LEMMA ClaimFields ==
  ASSUME CampTyped, NEW w \in Workers, Claim(w), Claims(w)
  PROVE  /\ \A u \in Workers \ {w} : worker'[u] = worker[u]
         /\ worker'[w].pc = "prepare" /\ worker'[w].camp = worker[w].camp
         /\ worker'[w].action = worker[w].action
         /\ worker'[w].mine = version[worker[w].camp] + 1
         /\ worker'[w].copy = edition[worker[w].camp]
<1>1. /\ worker' = [worker EXCEPT ![w] = Claimed(w)]
      /\ worker \in [Workers -> WorkerStates] /\ worker[w] \in WorkerStates
  BY ClaimForms, Typed
<1>2. /\ Claimed(w).pc = "prepare" /\ Claimed(w).camp = worker[w].camp
      /\ Claimed(w).action = worker[w].action
      /\ Claimed(w).mine = version[worker[w].camp] + 1
      /\ Claimed(w).copy = edition[worker[w].camp]
  BY <1>1 DEF Claimed, WorkerStates
<1> QED
  BY <1>1, <1>2

LEMMA ClaimTyped ==
  ASSUME CampaignsParameters, CampTyped, NEW w \in Workers, Claim(w)
  PROVE  CampTyped'
<1> USE DEF history
<1>1. Grows /\ Writes /\ UNCHANGED <<external, flag>>
  BY StillGrows DEF Claim, Writes
<1>2. CASE Claims(w)
  <2>1. /\ status' = [status EXCEPT ![worker[w].camp] = ClaimTo(w)]
        /\ version' = [version EXCEPT ![worker[w].camp] = @ + 1]
        /\ worker' = [worker EXCEPT ![w] = Claimed(w)] /\ queue' = queue
        /\ Claimed(w) \in WorkerStates /\ ClaimTo(w) \in CampaignStatus
    BY <1>2, ClaimForms
  <2>2. worker'[w] = Claimed(w) /\ Claimed(w).pc = "prepare" /\ Claimed(w).mine # 0
    BY <2>1, Typed DEF Claimed, WorkerStates
  <2>3. Placed(w)'
    BY <2>2 DEF Placed
  <2>4. worker' \in [Workers -> WorkerStates] /\ \A u \in Workers : Placed(u)'
    BY <1>1, <2>1, <2>3, OneWorker
  <2>5. /\ status' \in [Campaigns -> CampaignStatus \cup {"unused", "deleted"}]
        /\ version' \in [Campaigns -> Nat]
    BY <2>1, Typed
  <2>6. Histories'
    BY <1>1, Typed DEF Histories, Writes
  <2> QED
    BY <1>1, <2>1, <2>4, <2>5, <2>6, Typed, WorkerTyped DEF Writes
<1>3. CASE ~ Claims(w)
  <2>1. End(w) /\ UNCHANGED <<status, version>>
    BY <1>3, ClaimForms
  <2>2. worker' \in [Workers -> WorkerStates] /\ queue' \subseteq Jobs /\ \A u \in Workers : Placed(u)'
    BY <1>1, <2>1, EndTyped
  <2> QED
    BY <1>1, <2>1, <2>2, OnlyWorker DEF Writes, rows
<1> QED
  BY <1>2, <1>3

LEMMA PrepareTyped ==
  ASSUME CampaignsParameters, CampTyped, NEW w \in Workers, Prepare(w)
  PROVE  CampTyped'
<1>1. /\ Grows /\ worker[w].pc = "prepare" /\ queue' \subseteq Jobs
      /\ UNCHANGED <<rows, call, orphans, sync, platform, history>> /\ worker[w].mine # 0
  BY StillGrows, Typed DEF Prepare, Moves, rows, Placed
<1>2. CASE (worker[w].action = "create" \/ external[worker[w].camp] # 0) /\ Goto(w, "send")
  <2>1. worker' \in [Workers -> WorkerStates] /\ \A u \in Workers : Placed(u)'
    BY <1>1, <1>2, GotoTyped DEF WorkerPc
  <2> QED
    BY <1>1, <2>1, OnlyWorker
<1>3. CASE Goto(w, IF worker[w].action = "create" THEN "failed" ELSE "error")
  <2>0. PICK p : p = IF worker[w].action = "create" THEN "failed" ELSE "error"
    OBVIOUS
  <2>1. worker' \in [Workers -> WorkerStates] /\ \A u \in Workers : Placed(u)'
    BY <1>1, <1>3, <2>0, GotoTyped DEF WorkerPc
  <2> QED
    BY <1>1, <2>1, OnlyWorker
<1>4. ASSUME NEW kind \in {"rate_limited", "transient", "invalid_request"}, Catch(w, kind, FALSE)
      PROVE  CampTyped'
  <2>1. kind \in ErrorKinds /\ kind # "unknown_outcome" /\ kind # "internal" /\ FALSE \in BOOLEAN
    BY DEF ErrorKinds, ProviderErrors
  <2>2. worker' \in [Workers -> WorkerStates] /\ \A u \in Workers : Placed(u)'
    BY <1>1, <1>4, <2>1, CatchTyped
  <2> QED
    BY <1>1, <2>2, OnlyWorker
<1> QED
  BY <1>2, <1>3, <1>4 DEF Prepare

\* What a call that took effect leaves on the platform.
LEMMA EffectTyped ==
  ASSUME CampTyped, NEW w \in Workers, worker[w].pc = "send", Effect(w)
  PROVE  /\ DOMAIN platform \subseteq DOMAIN platform'
         /\ DOMAIN platform' \subseteq Objects
         /\ \A o \in DOMAIN platform' : platform'[o] \in PlatformStatus
         /\ Histories'
         /\ worker[w].action = "create" => <<worker[w].camp, worker[w].mine>> \in DOMAIN platform'
<1>0. /\ worker[w].mine # 0 /\ Histories /\ worker[w].camp \in Campaigns /\ worker[w].mine \in Nat
      /\ DOMAIN platform \subseteq Objects /\ \A o \in DOMAIN platform : platform[o] \in PlatformStatus
  BY Typed DEF Placed
<1>1. UNCHANGED <<confirmed, stale, asked, approved>>
  BY DEF Effect
<1>2. CASE Create(w)
  <2> DEFINE o == <<worker[w].camp, worker[w].mine>>
  <2>1. o \in Objects
    BY <1>0 DEF Objects
  <2>2. /\ platform' = [p \in DOMAIN platform \cup {o} |-> IF p = o THEN "paused" ELSE platform[p]]
        /\ DOMAIN content' = DOMAIN content \cup {o} /\ starts' = starts
    BY <1>2 DEF Create
  <2> HIDE DEF o
  <2>3. /\ DOMAIN platform' = DOMAIN platform \cup {o}
        /\ \A p \in DOMAIN platform' : platform'[p] \in PlatformStatus
    BY <1>0, <2>2 DEF PlatformStatus
  <2>4. Histories'
    BY <1>0, <1>1, <2>2, <2>3 DEF Histories
  <2> QED
    BY <1>0, <2>1, <2>3, <2>4 DEF o
<1>3. CASE SetStatus(w)
  <2>1. PICK st : st \in REPORTED[worker[w].action] /\ platform' = [platform EXCEPT ![Object(w)] = st]
    BY <1>3 DEF SetStatus
  <2>5. st \in PlatformStatus
    BY <2>1, Typed DEF REPORTED, Actions, PlatformStatus
  <2>2. /\ DOMAIN platform' = DOMAIN platform
        /\ \A p \in DOMAIN platform' : platform'[p] \in PlatformStatus
    BY <1>0, <2>1, <2>5
  <2>3. starts' \in [Campaigns -> Nat] /\ content' = content
    BY <1>0, <1>3 DEF SetStatus, Histories
  <2>4. Histories'
    BY <1>0, <1>1, <2>2, <2>3 DEF Histories
  <2> QED
    BY <1>0, <1>3, <2>2, <2>4 DEF SetStatus
<1> QED
  BY <1>2, <1>3 DEF Effect

LEMMA SendTyped ==
  ASSUME CampaignsParameters, CampTyped, NEW w \in Workers, Send(w)
  PROVE  CampTyped'
<1>1. /\ worker[w].pc = "send" /\ worker[w].mine # 0 /\ queue' \subseteq Jobs
      /\ UNCHANGED <<rows, call, orphans, sync>>
      /\ worker[w].action # "create" => external[worker[w].camp] # 0
  BY Typed DEF Send, Moves, rows, Placed
<1>2. ASSUME Effect(w) PROVE Grows
  BY <1>1, <1>2, EffectTyped DEF Grows, rows
<1>3. ASSUME Effect(w), worker' \in [Workers -> WorkerStates], \A u \in Workers : Placed(u)'
      PROVE  CampTyped'
  BY <1>1, <1>2, <1>3, EffectTyped, Typed, WorkerTyped DEF rows
<1>4. CASE Effect(w) /\ Goto(w, IF worker[w].action = "create" THEN "created" ELSE "changed")
  <2>0. PICK p : p = IF worker[w].action = "create" THEN "created" ELSE "changed"
    OBVIOUS
  <2>1. p = "created" => <<worker[w].camp, worker[w].mine>> \in DOMAIN platform'
    BY <1>1, <1>4, <2>0, EffectTyped
  <2>2. worker' \in [Workers -> WorkerStates] /\ \A u \in Workers : Placed(u)'
    BY <1>1, <1>2, <1>4, <2>0, <2>1, GotoTyped DEF WorkerPc
  <2> QED
    BY <1>3, <1>4, <2>2
<1>5. ASSUME NEW kind \in {"auth", "rate_limited", "invalid_request", "transient"},
             Catch(w, kind, TRUE), UNCHANGED <<platform, history>>
      PROVE  CampTyped'
  <2>1. kind \in ErrorKinds /\ TRUE \in BOOLEAN /\ Grows
    BY <1>1, <1>5, StillGrows DEF ErrorKinds, ProviderErrors, rows
  <2>2. worker' \in [Workers -> WorkerStates] /\ \A u \in Workers : Placed(u)'
    BY <1>1, <1>5, <2>1, CatchTyped
  <2> QED
    BY <1>1, <1>5, <2>2, OnlyWorker
<1>6. ASSUME NEW kind \in {"unknown_outcome", "internal"}, Catch(w, kind, TRUE),
             Effect(w) \/ UNCHANGED <<platform, history>>
      PROVE  CampTyped'
  <2>1. kind \in ErrorKinds /\ TRUE \in BOOLEAN /\ Grows
    BY <1>1, <1>2, <1>6, StillGrows DEF ErrorKinds, ProviderErrors, rows
  <2>2. worker' \in [Workers -> WorkerStates] /\ \A u \in Workers : Placed(u)'
    BY <1>1, <1>6, <2>1, CatchTyped
  <2> QED
    BY <1>1, <1>3, <1>6, <2>2, OnlyWorker
<1> QED
  BY <1>4, <1>5, <1>6 DEF Send

LEMMA WriteCreationTyped ==
  ASSUME CampaignsParameters, CampTyped, NEW w \in Workers, WriteCreation(w)
  PROVE  CampTyped'
<1>0. PICK c, p : c \in Campaigns /\ c = worker[w].camp /\ p = worker[w].pc
  BY Typed
<1>1. /\ p \in {"created", "failed", "unconfirmed"} /\ End(w) /\ Writes /\ UNCHANGED version
      /\ \/ /\ status' = [status EXCEPT ![c] = IF p = "created" THEN "paused" ELSE p]
            /\ external' = IF p = "created" THEN [external EXCEPT ![c] = worker[w].mine] ELSE external
            /\ flag' = [flag EXCEPT ![c] = FALSE]
         \/ UNCHANGED <<status, external, flag>>
  BY <1>0 DEF WriteCreation
<1>2. worker[w].mine # 0 /\ (p = "created" => <<c, worker[w].mine>> \in DOMAIN platform)
  BY <1>0, <1>1, Typed DEF Placed
<1>3. Grows
  BY <1>1, <1>2, Typed DEF Grows, Writes
<1>4. /\ status' \in [Campaigns -> CampaignStatus \cup {"unused", "deleted"}]
      /\ flag' \in [Campaigns -> BOOLEAN]
  BY <1>1, Typed DEF CampaignStatus
<1>5. /\ external' \in [Campaigns -> Nat]
      /\ \A d \in Campaigns : external'[d] # external[d] => <<d, external'[d]>> \in DOMAIN platform
  BY <1>1, <1>2, Typed
<1>6. worker' \in [Workers -> WorkerStates] /\ queue' \subseteq Jobs /\ \A u \in Workers : Placed(u)'
  BY <1>1, <1>3, EndTyped
<1>7. Histories'
  BY <1>1, Typed DEF Histories, Writes, history
<1> QED
  BY <1>1, <1>3, <1>4, <1>5, <1>6, <1>7, Typed, WorkerTyped DEF Writes

\* The steps that write a row, but neither its version nor its object.
LEMMA RowTyped ==
  ASSUME CampTyped, Writes, UNCHANGED <<version, external>>,
         status' \in [Campaigns -> CampaignStatus \cup {"unused", "deleted"}],
         flag' \in [Campaigns -> BOOLEAN],
         worker' \in [Workers -> WorkerStates], \A u \in Workers : Placed(u)', queue' \subseteq Jobs
  PROVE  CampTyped'
<1>1. Grows /\ Histories'
  BY StillGrows, Typed DEF Histories, Writes, history
<1> QED
  BY <1>1, Typed, WorkerTyped DEF Writes

LEMMA RequeueTyped ==
  ASSUME CampaignsParameters, CampTyped, NEW w \in Workers, Requeue(w)
  PROVE  CampTyped'
<1>1. /\ worker[w].pc = "requeue" /\ worker[w].mine # 0 /\ Grows
      /\ Writes /\ UNCHANGED <<version, external, flag>>
  BY StillGrows, Typed DEF Requeue, Writes, Placed
<1>2. CASE /\ status' = [status EXCEPT ![worker[w].camp] = "approved"]
           /\ Goto(w, "enqueue") /\ UNCHANGED queue
  <2>1. worker' \in [Workers -> WorkerStates] /\ \A u \in Workers : Placed(u)'
    BY <1>1, <1>2, GotoTyped DEF WorkerPc
  <2>2. status' \in [Campaigns -> CampaignStatus \cup {"unused", "deleted"}]
    BY <1>2, Typed DEF CampaignStatus
  <2> QED
    BY <1>1, <1>2, <2>1, <2>2, Typed, RowTyped
<1>3. CASE End(w) /\ UNCHANGED status
  BY <1>1, <1>3, EndTyped, Typed, RowTyped
<1> QED
  BY <1>2, <1>3 DEF Requeue

LEMMA EnqueueRetryTyped ==
  ASSUME CampaignsParameters, CampTyped, NEW w \in Workers, EnqueueRetry(w)
  PROVE  CampTyped'
<1>1. worker' \in [Workers -> WorkerStates] /\ \A u \in Workers : Placed(u)'
  <2>1. Grows /\ worker' = [worker EXCEPT ![w] = Idle]
    BY StillGrows DEF EnqueueRetry, rows
  <2> QED
    BY <2>1, OneWorker
<1>2. queue' \subseteq Jobs
  <2>1. PICK q, c, n, a, k : /\ q = Ended(w) /\ c = worker[w].camp /\ n = worker[w].mine
                             /\ a = worker[w].action /\ k = worker[w].attempt + 1
    OBVIOUS
  <2>2. q \subseteq Jobs /\ c \in Campaigns /\ n \in Nat /\ a \in Actions /\ k \in Nat
    BY <2>1, Typed, EndedJobs
  <2>3. queue' = With(q, c, n, a, k)
    BY <2>1 DEF EnqueueRetry
  <2> QED
    BY <2>2, <2>3, WithType
<1> QED
  BY <1>1, <1>2, OnlyWorker DEF EnqueueRetry

LEMMA WriteChangeTyped ==
  ASSUME CampaignsParameters, CampTyped, NEW w \in Workers, WriteChange(w)
  PROVE  CampTyped'
<1>1. End(w) /\ Writes /\ UNCHANGED <<version, external>> /\ Grows
  BY StillGrows DEF WriteChange, Writes
<1>2. TARGET[worker[w].action] \in CampaignStatus
  BY Typed DEF TARGET, Actions, CampaignStatus
<1>3. /\ status' \in [Campaigns -> CampaignStatus \cup {"unused", "deleted"}]
      /\ flag' \in [Campaigns -> BOOLEAN]
  BY <1>2, Typed DEF WriteChange
<1> QED
  BY <1>1, <1>3, EndTyped, RowTyped

LEMMA WriteFlagTyped ==
  ASSUME CampaignsParameters, CampTyped, NEW w \in Workers, WriteFlag(w)
  PROVE  CampTyped'
<1>1. /\ worker[w].pc = "flag" /\ Goto(w, "ask") /\ worker[w].mine # 0 /\ worker[w].action # "create"
      /\ external[worker[w].camp] # 0
      /\ Writes /\ UNCHANGED <<queue, status, version, external>> /\ Grows
  BY StillGrows, Typed DEF WriteFlag, Writes, Placed
<1>2. worker' \in [Workers -> WorkerStates] /\ \A u \in Workers : Placed(u)'
  BY <1>1, GotoTyped DEF WorkerPc
<1>3. flag' \in [Campaigns -> BOOLEAN]
  BY Typed DEF WriteFlag
<1> QED
  BY <1>1, <1>2, <1>3, Typed, RowTyped

LEMMA AskTyped ==
  ASSUME CampaignsParameters, CampTyped, NEW w \in Workers, Ask(w)
  PROVE  CampTyped'
<1>1. /\ worker[w].pc = "ask" /\ worker[w].mine # 0 /\ worker[w].action # "create"
      /\ external[worker[w].camp] # 0
      /\ UNCHANGED <<rows, call, orphans, sync, platform, left, history>> /\ Grows
  BY StillGrows, Typed DEF Ask, rows, Placed
<1>2. CASE End(w)
  BY <1>1, <1>2, EndTyped, OnlyWorker
<1>3. CASE /\ worker' = [worker EXCEPT ![w].pc = "tell", ![w].seen = platform[Object(w)]]
           /\ UNCHANGED queue
  <2>1. platform[Object(w)] \in PlatformStatus
    BY <1>1, Typed DEF Object
  <2> DEFINE v == [worker[w] EXCEPT !.pc = "tell", !.seen = platform[Object(w)]]
  <2>2. /\ v \in WorkerStates /\ worker' = [worker EXCEPT ![w] = v] /\ worker'[w] = v
        /\ v.pc = "tell" /\ v.mine = worker[w].mine /\ v.camp = worker[w].camp
        /\ v.action = worker[w].action
    BY <1>3, <2>1, Typed DEF WorkerStates, WorkerPc
  <2> HIDE DEF v
  <2>3. Placed(w)'
    BY <1>1, <2>2 DEF Placed, rows
  <2>4. worker' \in [Workers -> WorkerStates] /\ \A u \in Workers : Placed(u)'
    BY <1>1, <2>2, <2>3, OneWorker
  <2> QED
    BY <1>1, <1>3, <2>4, Typed, OnlyWorker
<1> QED
  BY <1>1, <1>2, <1>3 DEF Ask

\* What reconcileStatus writes, if it finds the row as it was read.
LEMMA Reconciled ==
  ASSUME CampTyped, NEW c \in Campaigns, NEW ver, NEW was, NEW flagged,
         NEW answer \in PlatformStatus, NEW confirms, Reconcile(c, ver, was, flagged, answer, confirms)
  PROVE  /\ flag' \in [Campaigns -> BOOLEAN]
         /\ \/ status' = status
            \/ \E next \in {"paused", "active", "completed", "archived", "failed"} :
                 status' = [status EXCEPT ![c] = next] /\ version[c] = ver /\ status[c] = was
<1>1. CASE version[c] = ver /\ status[c] = was
  <2>1. PICK next \in NextStatus(was, answer) :
         /\ status' = [status EXCEPT ![c] = next]
         /\ flag' = IF answer = "rejected" THEN [flag EXCEPT ![c] = FALSE]
                    ELSE IF flagged THEN [flag EXCEPT ![c] = next \notin confirms]
                    ELSE flag
    BY <1>1 DEF Reconcile
  <2>2. next \in {"paused", "active", "completed", "archived", "failed"} \/ next = status[c]
    BY <1>1 DEF NextStatus, PlatformStatus
  <2>3. (next \notin confirms) \in BOOLEAN
    OBVIOUS
  <2>4. flag' \in [Campaigns -> BOOLEAN]
    BY <2>1, <2>3, Typed
  <2>5. CASE next = status[c]
    <3>1. status' = status
      BY <2>1, <2>5, Typed
    <3> QED
      BY <2>4, <3>1
  <2> QED
    BY <1>1, <2>1, <2>2, <2>4, <2>5
<1>2. CASE ~ (version[c] = ver /\ status[c] = was)
  BY <1>2, Typed DEF Reconcile
<1> QED
  BY <1>1, <1>2

LEMMA ReconciledType ==
  ASSUME CampTyped, NEW c \in Campaigns,
         \/ status' = status
         \/ \E next \in {"paused", "active", "completed", "archived", "failed"} :
              status' = [status EXCEPT ![c] = next]
  PROVE  status' \in [Campaigns -> CampaignStatus \cup {"unused", "deleted"}]
BY Typed DEF CampaignStatus

LEMMA TellForms ==
  ASSUME CampTyped, NEW w \in Workers, Tell(w)
  PROVE  /\ worker[w].pc = "tell" /\ flag' \in [Campaigns -> BOOLEAN]
         /\ \/ status' = status
            \/ \E next \in {"paused", "active", "completed", "archived", "failed"} :
                 status' = [status EXCEPT ![worker[w].camp] = next]
<1>1. PICK c, ver, was, answer, confirms :
        /\ c = worker[w].camp /\ ver = worker[w].mine /\ was = worker[w].was
        /\ answer = worker[w].seen /\ confirms = {TARGET[worker[w].action]}
  OBVIOUS
<1>2. Reconcile(c, ver, was, TRUE, answer, confirms) /\ worker[w].pc = "tell"
  BY <1>1 DEF Tell
<1>3. c \in Campaigns /\ answer \in PlatformStatus
  BY <1>1, Typed
<1>4. /\ flag' \in [Campaigns -> BOOLEAN]
      /\ \/ status' = status
         \/ \E next \in {"paused", "active", "completed", "archived", "failed"} :
              status' = [status EXCEPT ![c] = next] /\ version[c] = ver /\ status[c] = was
  BY <1>2, <1>3, Reconciled
<1> QED
  BY <1>1, <1>2, <1>4

LEMMA TellTyped ==
  ASSUME CampaignsParameters, CampTyped, NEW w \in Workers, Tell(w)
  PROVE  CampTyped'
<1>1. End(w) /\ Writes /\ UNCHANGED <<version, external>> /\ Grows
  BY StillGrows DEF Tell, Writes
<1>2. PICK c \in Campaigns : c = worker[w].camp
  BY Typed
<1>3. flag' \in [Campaigns -> BOOLEAN] /\ status' \in [Campaigns -> CampaignStatus \cup {"unused", "deleted"}]
  BY <1>2, TellForms, ReconciledType
<1> QED
  BY <1>1, <1>3, EndTyped, RowTyped

-----------------------------------------------------------------------------
(* Types: faults, the sync, the queue and maintenance.                     *)

LEMMA WorkerFaultTyped ==
  ASSUME CampaignsParameters, CampTyped, NEW w \in Workers, WorkerFault(w)
  PROVE  CampTyped'
<1> USE DEF rows
<1>1. CASE CallFails(w)
  BY <1>1, StillGrows, EndTyped, OnlyWorker DEF CallFails
<1>2. CASE TryFails(w)
  <2>1. PICK sent \in BOOLEAN : sent = (worker[w].pc # "prepare") /\ Catch(w, "internal", sent)
    BY <1>2 DEF TryFails
  <2>2. /\ worker[w].pc \in {"prepare", "created", "changed"} /\ "internal" \in ErrorKinds /\ Grows
        /\ worker[w].action # "create" /\ sent => external[worker[w].camp] # 0
    BY <1>2, <2>1, StillGrows, Typed DEF TryFails, ErrorKinds, Placed
  <2>3. worker' \in [Workers -> WorkerStates] /\ \A u \in Workers : Placed(u)'
    BY <2>1, <2>2, CatchTyped
  <2> QED
    BY <1>2, <2>3, Typed, OnlyWorker DEF TryFails
<1>3. CASE Crash(w)
  <2>1. Grows /\ worker' = [worker EXCEPT ![w] = Idle]
    BY <1>3, StillGrows DEF Crash
  <2>2. worker' \in [Workers -> WorkerStates] /\ \A u \in Workers : Placed(u)'
    BY <2>1, OneWorker
  <2> QED
    BY <1>3, <2>2, Typed, OnlyWorker DEF Crash
<1>4. CASE LoseLock(w)
  <2> DEFINE v == [worker[w] EXCEPT !.held = FALSE]
  <2>1. /\ worker' = [worker EXCEPT ![w] = v] /\ worker'[w] = v /\ v \in WorkerStates
        /\ v.pc = worker[w].pc /\ v.camp = worker[w].camp /\ v.mine = worker[w].mine
        /\ v.action = worker[w].action /\ Placed(w) /\ Grows
    BY <1>4, StillGrows, Typed DEF LoseLock, WorkerStates
  <2> HIDE DEF v
  <2>2. Placed(w)'
    BY <1>4, <2>1 DEF Placed, LoseLock
  <2>3. worker' \in [Workers -> WorkerStates] /\ \A u \in Workers : Placed(u)'
    BY <2>1, <2>2, OneWorker
  <2> QED
    BY <1>4, <2>3, Typed, OnlyWorker DEF LoseLock
<1> QED
  BY <1>1, <1>2, <1>3, <1>4 DEF WorkerFault

LEMMA SyncForms ==
  ASSUME CampaignsParameters, CampTyped, SyncTell
  PROVE  /\ sync.camp \in Campaigns /\ external[sync.camp] # 0 /\ sync.was \in {"paused", "active"}
         /\ flag' \in [Campaigns -> BOOLEAN]
         /\ \/ status' = status
            \/ \E next \in {"paused", "active", "completed", "archived", "failed"} :
                 status' = [status EXCEPT ![sync.camp] = next] /\ status[sync.camp] = sync.was
<1>1. PICK c, ver, was, flagged, answer, confirms :
        /\ c = sync.camp /\ ver = sync.ver /\ was = sync.was
        /\ flagged = sync.flag /\ answer = sync.seen /\ confirms = CampaignStatus
  OBVIOUS
<1>2. Reconcile(c, ver, was, flagged, answer, confirms) /\ sync.pc = "tell"
  BY <1>1 DEF SyncTell
<1>3. c \in Campaigns /\ answer \in PlatformStatus
  BY <1>1, Typed DEF SyncStates
<1>4. /\ flag' \in [Campaigns -> BOOLEAN]
      /\ \/ status' = status
         \/ \E next \in {"paused", "active", "completed", "archived", "failed"} :
              status' = [status EXCEPT ![c] = next] /\ version[c] = ver /\ status[c] = was
  BY <1>2, <1>3, Reconciled
<1>5. external[sync.camp] # 0 /\ sync.was \in {"paused", "active"}
  BY <1>2 DEF CampTyped, Synced
<1> QED
  BY <1>1, <1>3, <1>4, <1>5

\* A step that leaves requests and workers alone.
LEMMA RestTyped ==
  ASSUME CampTyped, UNCHANGED <<version, external, edition, call, history>>,
         worker' = worker, queue' \subseteq Jobs, orphans' \subseteq Campaigns \X Nat,
         status' \in [Campaigns -> CampaignStatus \cup {"unused", "deleted"}],
         flag' \in [Campaigns -> BOOLEAN],
         sync' \in SyncStates, Synced', DOMAIN platform' = DOMAIN platform,
         \A o \in DOMAIN platform' : platform'[o] \in PlatformStatus
  PROVE  CampTyped'
<1>1. Grows /\ Histories'
  BY Typed DEF Grows, Histories, history
<1>2. \A w \in Workers : Placed(w)'
  BY <1>1, StillPlaced
<1>3. \A k \in Calls : Requested(k)'
  BY DEF CampTyped, Requested
<1>4. CampaignsTypeOK'
  BY Typed DEF CampaignsTypeOK
<1> QED
  BY <1>1, <1>2, <1>3, <1>4 DEF CampTyped

LEMMA SyncStepTyped ==
  ASSUME CampaignsParameters, CampTyped, SyncStep \/ AdsManager
  PROVE  CampTyped'
<1> USE DEF rows
<1>1. CASE SyncAsk
  <2>1. PICK c \in Campaigns :
         /\ external[c] # 0 /\ status[c] \in {"paused", "active"}
         /\ sync' = [NoSync EXCEPT !.pc = "tell", !.camp = c, !.ver = version[c], !.was = status[c],
                                   !.flag = flag[c], !.seen = platform[<<c, external[c]>>]]
    BY <1>1 DEF SyncAsk
  <2>2. /\ version[c] \in Nat /\ status[c] \in CampaignStatus /\ flag[c] \in BOOLEAN
        /\ platform[<<c, external[c]>>] \in PlatformStatus /\ NoSync \in SyncStates
    BY <2>1, Typed, IdleTypes DEF CampaignStatus
  <2>3. sync' \in SyncStates /\ sync'.camp = c /\ sync'.was = status[c]
    BY <2>1, <2>2 DEF SyncStates, NoSync
  <2>4. Synced'
    BY <1>1, <2>1, <2>3 DEF Synced, SyncAsk
  <2> QED
    BY <1>1, <2>3, <2>4, Typed, RestTyped DEF SyncAsk
<1>2. CASE SyncTell
  <2>1. PICK c \in Campaigns : c = sync.camp
    BY <1>2, SyncForms
  <2>2. flag' \in [Campaigns -> BOOLEAN] /\ status' \in [Campaigns -> CampaignStatus \cup {"unused", "deleted"}]
    BY <1>2, <2>1, SyncForms, ReconciledType
  <2>3. sync' = NoSync /\ NoSync.pc = "idle" /\ NoSync \in SyncStates
    BY <1>2, IdleTypes DEF SyncTell, NoSync
  <2>4. Synced'
    BY <2>3 DEF Synced
  <2> QED
    BY <1>2, <2>2, <2>3, <2>4, Typed, RestTyped DEF SyncTell
<1>3. CASE AdsManager
  <2>1. PICK o \in DOMAIN platform, st \in PlatformStatus : platform' = [platform EXCEPT ![o] = st]
    BY <1>3 DEF AdsManager
  <2>2. /\ DOMAIN platform' = DOMAIN platform
        /\ \A p \in DOMAIN platform' : platform'[p] \in PlatformStatus
    BY <2>1, Typed
  <2>3. sync' \in SyncStates /\ Synced'
    BY <1>3, Typed DEF AdsManager, Synced, CampTyped
  <2> QED
    BY <1>3, <2>2, <2>3, Typed, RestTyped DEF AdsManager
<1> QED
  BY <1>1, <1>2, <1>3 DEF SyncStep

LEMMA RedisLossTyped ==
  ASSUME CampaignsParameters, CampTyped, RedisLoss
  PROVE  CampTyped'
<1>1. /\ queue' = {} /\ worker' = [w \in Workers |-> [worker[w] EXCEPT !.held = FALSE]] /\ Grows
      /\ UNCHANGED <<rows, call, orphans, sync, platform, history>>
  BY StillGrows DEF RedisLoss, rows
<1>2. ASSUME NEW w \in Workers
      PROVE  worker'[w] \in WorkerStates /\ Placed(w)'
  <2>1. /\ worker'[w] \in WorkerStates /\ worker'[w].pc = worker[w].pc
        /\ worker'[w].camp = worker[w].camp /\ worker'[w].mine = worker[w].mine
        /\ worker'[w].action = worker[w].action /\ Placed(w)
    BY <1>1, Typed DEF WorkerStates
  <2> QED
    BY <1>1, <2>1 DEF Placed, rows
<1>3. worker' \in [Workers -> WorkerStates]
  BY <1>1, <1>2
<1> QED
  BY <1>1, <1>2, <1>3, OnlyWorker

LEMMA MaintenanceTyped ==
  ASSUME CampaignsParameters, CampTyped,
         RecoverStalled \/ SweepRead \/ SweepEarly \/ SweepEnsure \/ RecoverStuck \/ RecoverEarly
  PROVE  CampTyped'
<1> USE DEF rows
<1>0. Synced
  BY DEF CampTyped
<1>1. CASE RecoverStalled
  <2>1. PICK j, c, n :
          /\ j \in queue /\ c = j.camp /\ n = j.num
          /\ queue' \in {Marked(queue, c, n, "waiting"), Finished(queue, c, n)}
    BY <1>1 DEF RecoverStalled
  <2>2. queue' \subseteq Jobs
    <3>1. queue \subseteq Jobs
      BY Typed
    <3>2. Marked(queue, c, n, "waiting") \subseteq Jobs
      BY <3>1, MarkedJobs
    <3>3. Finished(queue, c, n) \subseteq Jobs
      BY <3>1, FinishedJobs
    <3> QED
      BY <2>1, <3>2, <3>3
  <2> QED
    BY <1>0, <1>1, <2>2, Typed, RestTyped DEF RecoverStalled, Synced
<1>2. CASE SweepRead \/ SweepEarly
  <2>1. orphans' \subseteq Campaigns \X Nat
    BY <1>2, Typed DEF SweepRead, SweepEarly
  <2> QED
    BY <1>0, <1>2, <2>1, Typed, RestTyped DEF SweepRead, SweepEarly, Synced
<1>3. CASE SweepEnsure
  <2>1. PICK o \in orphans :
         /\ orphans' = orphans \ {o}
         /\ queue' = With({j \in queue : ~ (j.camp = o[1] /\ j.num = o[2] /\ j.st = "finished")},
                          o[1], o[2], "create", 1)
    BY <1>3 DEF SweepEnsure
  <2>2. PICK q, c, n : /\ q = {j \in queue : ~ (j.camp = o[1] /\ j.num = o[2] /\ j.st = "finished")}
                       /\ c = o[1] /\ n = o[2]
    OBVIOUS
  <2>3. q \subseteq Jobs /\ c \in Campaigns /\ n \in Nat /\ "create" \in Actions /\ 1 \in Nat
    BY <2>2, Typed DEF Actions
  <2>4. queue' \subseteq Jobs
    BY <2>1, <2>2, <2>3, WithType
  <2> QED
    BY <1>0, <1>3, <2>1, <2>4, Typed, RestTyped DEF SweepEnsure, Synced
<1>4. CASE RecoverStuck \/ RecoverEarly
  <2>1. PICK early : status' = Recovered(status, early)
    BY <1>4 DEF RecoverStuck, RecoverEarly
  <2>2. status' \in [Campaigns -> CampaignStatus \cup {"unused", "deleted"}]
    BY <2>1, Typed DEF Recovered, CampaignStatus
  <2>3. flag' \in [Campaigns -> BOOLEAN]
    BY <1>4 DEF RecoverStuck, RecoverEarly
  <2> QED
    BY <1>0, <1>4, <2>2, <2>3, Typed, RestTyped DEF RecoverStuck, RecoverEarly, Synced
<1> QED
  BY <1>1, <1>2, <1>3, <1>4

LEMMA StutterTyped ==
  ASSUME CampTyped, UNCHANGED vars
  PROVE  CampTyped'
<1>1. Synced' /\ sync' \in SyncStates
  <2>1. sync' = sync /\ Grows
    BY StillGrows DEF vars, rows
  <2> QED
    BY <2>1, StillSynced
<1> QED
  BY <1>1, Typed, RestTyped DEF vars, rows

LEMMA InitTyped ==
  ASSUME CampaignsParameters, Init
  PROVE  CampTyped
<1>1. /\ status \in [Campaigns -> {"unused", "pending_approval", "approved", "paused"}]
      /\ worker = [w \in Workers |-> Idle] /\ call = [k \in Calls |-> NoCall] /\ sync = NoSync
      /\ Idle \in WorkerStates /\ NoCall \in Requests /\ NoSync \in SyncStates
  BY IdleTypes DEF Init
<1>2. status \in [Campaigns -> CampaignStatus \cup {"unused", "deleted"}]
  BY <1>1 DEF CampaignStatus
<1>3. /\ version \in [Campaigns -> Nat] /\ external \in [Campaigns -> Nat]
      /\ flag \in [Campaigns -> BOOLEAN] /\ edition \in [Campaigns -> Nat]
  BY DEF Init, Each
<1>4. Histories
  BY DEF Init, Each, Histories
<1>5. /\ DOMAIN platform \subseteq Objects /\ \A o \in DOMAIN platform : platform[o] \in PlatformStatus
      /\ \A c \in Campaigns : external[c] # 0 => <<c, external[c]>> \in DOMAIN platform
  BY DEF Init, Objects, PlatformStatus, Paused
<1>6. \A w \in Workers : Placed(w)
  BY <1>1 DEF Placed, Idle
<1>7. \A k \in Calls : Requested(k)
  BY <1>1 DEF Requested, NoCall
<1>8. Synced
  BY <1>1 DEF Synced, NoSync
<1>9. queue = {} /\ orphans = {}
  BY DEF Init
<1>10. worker \in [Workers -> WorkerStates] /\ call \in [Calls -> Requests] /\ sync \in SyncStates
  BY <1>1
<1>11. CampaignsTypeOK
  BY <1>2, <1>3, <1>5, <1>9, <1>10 DEF CampaignsTypeOK
<1> QED
  BY <1>4, <1>6, <1>7, <1>8, <1>11 DEF CampTyped

LEMMA TypedInductive ==
  ASSUME CampaignsParameters
  PROVE  (Init => CampTyped) /\ (CampTyped /\ [Next]_vars => CampTyped')
<1>1. ASSUME CampTyped, NEW w \in Workers, WorkerStep(w) PROVE CampTyped'
  BY <1>1, StartJobTyped, ClaimTyped, PrepareTyped, SendTyped, WriteCreationTyped, RequeueTyped,
     EnqueueRetryTyped, WriteChangeTyped, WriteFlagTyped, AskTyped, TellTyped DEF WorkerStep
<1>2. ASSUME CampTyped, Next PROVE CampTyped'
  BY <1>1, <1>2, RequestStepTyped, WorkerFaultTyped, SyncStepTyped, RedisLossTyped,
     MaintenanceTyped DEF Next
<1> QED
  BY <1>2, InitTyped, StutterTyped

\* Every variable keeps its type, and what a row records as its object exists on the platform
\* (ads.campaigns.service.ts, campaign-state.ts, ads-writer.ts).
THEOREM CampaignsTyped == ASSUME CampaignsParameters PROVE Spec => []CampaignsTypeOK
<1>1. CampTyped => CampaignsTypeOK
  BY DEF CampTyped
<1> QED
  BY <1>1, TypedInductive, PTL DEF Spec

\* An answer of the platform that was on its way when the campaign was archived does not bring
\* it back (reconcile.ts: the sync writes only over the status it read, which is a live one).
THEOREM SyncRevivesNothing == ASSUME CampaignsParameters PROVE Spec => SyncNeverRevives
<1> DEFINE Never == \A c \in Campaigns : status[c] = "archived" /\ sync' # sync => status'[c] = "archived"
<1>1. CampTyped /\ [Next]_vars => [Never]_vars
  <2>1. SUFFICES ASSUME CampTyped, Next, NEW c \in Campaigns, status[c] = "archived", sync' # sync
                 PROVE  status'[c] = "archived"
    OBVIOUS
  <2>2. CASE SyncAsk
    BY <2>1, <2>2 DEF SyncAsk, rows
  <2>3. CASE SyncTell
    BY <2>1, <2>3, SyncForms, Typed
  <2>4. ASSUME ~ SyncStep PROVE sync' = sync
    BY <2>1, <2>4 DEF Next, CallBegins, CallContinues, WorkerStep, WorkerFault, CreateCampaign,
       UpdateRead, Approve, Refuse, Activate, Stop, AgainRead, UpdateWrite, RetryWrite, BuryWrite,
       Enqueue, EnqueueLost, ApiOnly, StartJob, Claim, Prepare, Send, WriteCreation, Requeue,
       EnqueueRetry, WriteChange, WriteFlag, Ask, Tell, Moves, Writes, CallFails, TryFails, Crash,
       LoseLock, AdsManager, RecoverStalled, RedisLoss, SweepRead, SweepEarly, SweepEnsure,
       RecoverStuck, RecoverEarly
  <2> QED
    BY <2>1, <2>2, <2>3, <2>4 DEF SyncStep
<1> QED
  BY <1>1, TypedInductive, PTL DEF Spec, SyncNeverRevives

-----------------------------------------------------------------------------
(* Nothing is created twice.                                               *)

\* What a worker that moves on keeps.
Keeps(w) ==
  /\ \A u \in Workers \ {w} : worker'[u] = worker[u]
  /\ worker'[w].camp = worker[w].camp /\ worker'[w].action = worker[w].action
  /\ worker'[w].mine = worker[w].mine /\ worker'[w].copy = worker[w].copy

LEMMA GotoKeeps ==
  ASSUME CampTyped, NEW w \in Workers, NEW p \in WorkerPc, Goto(w, p)
  PROVE  Keeps(w) /\ worker'[w].pc = p
<1> DEFINE v == [worker[w] EXCEPT !.pc = p]
<1>1. /\ worker' = [worker EXCEPT ![w] = v] /\ worker[w] \in WorkerStates
      /\ worker \in [Workers -> WorkerStates]
  BY GotoRecord, Typed
<1>2. /\ v.pc = p /\ v.camp = worker[w].camp /\ v.action = worker[w].action
      /\ v.mine = worker[w].mine /\ v.copy = worker[w].copy
  BY <1>1 DEF WorkerStates
<1> HIDE DEF v
<1> QED
  BY <1>1, <1>2 DEF Keeps

LEMMA EndKeeps ==
  ASSUME CampTyped, NEW w \in Workers, worker' = [worker EXCEPT ![w] = Idle]
  PROVE  worker'[w].pc = "idle" /\ \A u \in Workers \ {w} : worker'[u] = worker[u]
BY Typed DEF Idle

\* Where w is after an error of this kind.
CaughtAt(w, kind) ==
  \/ worker[w].action = "create" /\ worker'[w].pc \in {"requeue", "failed", "unconfirmed"}
  \/ worker[w].action # "create" /\ worker'[w].pc \in {"enqueue", "error", "flag"}
  \/ kind = "auth" /\ worker'[w].pc = "prepare"

LEMMA CatchKeeps ==
  ASSUME CampTyped, NEW w \in Workers, NEW kind \in ErrorKinds, NEW sent \in BOOLEAN,
         Catch(w, kind, sent)
  PROVE  Keeps(w) /\ CaughtAt(w, kind)
<1> DEFINE creates == worker[w].action = "create"
<1>0. worker[w] \in WorkerStates /\ worker \in [Workers -> WorkerStates]
  BY Typed
<1>1. ASSUME NEW p \in {"requeue", "enqueue", "failed", "error", "unconfirmed", "flag"}, Goto(w, p),
             creates <=> p \in {"requeue", "failed", "unconfirmed"}
      PROVE  Keeps(w) /\ CaughtAt(w, kind)
  <2>1. p \in WorkerPc
    BY DEF WorkerPc
  <2>2. Keeps(w) /\ worker'[w].pc = p
    BY <1>1, <2>1, GotoKeeps
  <2> QED
    BY <1>1, <2>2 DEF CaughtAt
<1>2. CASE /\ kind = "auth"
           /\ worker' = [worker EXCEPT ![w] = [worker[w] EXCEPT !.pc = "prepare", !.fresh = TRUE]]
  <2> DEFINE v == [worker[w] EXCEPT !.pc = "prepare", !.fresh = TRUE]
  <2>1. /\ worker' = [worker EXCEPT ![w] = v] /\ v.pc = "prepare" /\ v.camp = worker[w].camp
        /\ v.action = worker[w].action /\ v.mine = worker[w].mine /\ v.copy = worker[w].copy
    BY <1>0, <1>2 DEF WorkerStates
  <2> HIDE DEF v
  <2> QED
    BY <1>0, <1>2, <2>1 DEF Keeps, CaughtAt
<1>3. CatchTo(w, kind, sent)
  BY CatchGoes
<1>4. CASE creates
  BY <1>1, <1>2, <1>3, <1>4 DEF CatchTo
<1>5. CASE ~ creates
  BY <1>1, <1>2, <1>3, <1>5 DEF CatchTo
<1> QED
  BY <1>4, <1>5

\* The share of worker w in a campaign's budget, and that of the campaign's status.
Share(w, c) == IF w \in MayCreate(c) THEN 1 ELSE 0
Credit(c) == IF Uncreated(c) THEN 1 ELSE 0

\* A step of worker w alone that costs no campaign more than it pays keeps the budget.
LEMMA Balance ==
  ASSUME CampTyped, CampTyped', Budgeted, NEW w \in Workers,
         \A u \in Workers \ {w} : worker'[u] = worker[u],
         \A c \in Campaigns :
           /\ IsFiniteSet(Made(c)')
           /\ Cardinality(Made(c)') + Share(w, c)' + Credit(c)' + confirmed[c] + stale[c]
                <= Cardinality(Made(c)) + Share(w, c) + Credit(c) + confirmed'[c] + stale'[c]
  PROVE  Budgeted'
<1> SUFFICES ASSUME NEW c \in Campaigns
             PROVE  /\ IsFiniteSet(MayCreate(c)')
                    /\ Cardinality(Made(c)') + Cardinality(MayCreate(c)') + Credit(c)'
                         <= 1 + confirmed'[c] + stale'[c]
  BY DEF Budgeted, CreationBudget, Credit
<1> DEFINE S == MayCreate(c)
           T == MayCreate(c)'
           m == Cardinality(Made(c))
           n == Cardinality(Made(c)')
<1>1. /\ IsFiniteSet(S) /\ Cardinality(S) \in Nat /\ m \in Nat /\ n \in Nat
      /\ m + Cardinality(S) + Credit(c) <= 1 + confirmed[c] + stale[c]
  BY FS_CardinalityType DEF Budgeted, CreationBudget, Credit
<1>2. T = IF w \in T THEN S \cup {w} ELSE S \ {w}
  BY DEF MayCreate
<1>3. IsFiniteSet(T) /\ Cardinality(T) = Cardinality(S) + Share(w, c)' - Share(w, c)
  <2>1. CASE w \in T
    BY <1>1, <1>2, <2>1, FS_AddElement DEF Share
  <2>2. CASE w \notin T
    BY <1>1, <1>2, <2>2, FS_RemoveElement DEF Share
  <2> QED
    BY <2>1, <2>2
<1>4. /\ confirmed[c] \in Nat /\ stale[c] \in Nat /\ confirmed'[c] \in Nat /\ stale'[c] \in Nat
      /\ Share(w, c) \in Nat /\ Share(w, c)' \in Nat /\ Credit(c) \in Nat /\ Credit(c)' \in Nat
  BY DEF CampTyped, Histories, Share, Credit
<1>5. n + Share(w, c)' + Credit(c)' + confirmed[c] + stale[c]
        <= m + Share(w, c) + Credit(c) + confirmed'[c] + stale'[c]
  OBVIOUS
<1> HIDE DEF S, T, m, n
<1>6. n + Cardinality(T) + Credit(c)' <= 1 + confirmed'[c] + stale'[c]
  BY <1>1, <1>3, <1>4, <1>5
<1> QED
  BY <1>3, <1>6 DEF S, T, n

\* A step that creates nothing, and pays for what a status or a retry adds.
LEMMA BalanceRows ==
  ASSUME CampTyped, CampTyped', Budgeted,
         \A w \in Workers : /\ worker'[w].pc = worker[w].pc /\ worker'[w].camp = worker[w].camp
                            /\ worker'[w].action = worker[w].action,
         DOMAIN platform' = DOMAIN platform,
         \A c \in Campaigns : Credit(c)' + confirmed[c] + stale[c] <= Credit(c) + confirmed'[c] + stale'[c]
  PROVE  Budgeted'
<1> SUFFICES ASSUME NEW c \in Campaigns
             PROVE  /\ IsFiniteSet(Made(c)') /\ IsFiniteSet(MayCreate(c)')
                    /\ Cardinality(Made(c)') + Cardinality(MayCreate(c)') + Credit(c)'
                         <= 1 + confirmed'[c] + stale'[c]
  BY DEF Budgeted, CreationBudget, Credit
<1>1. /\ IsFiniteSet(Made(c)) /\ IsFiniteSet(MayCreate(c))
      /\ Cardinality(Made(c)) \in Nat /\ Cardinality(MayCreate(c)) \in Nat
      /\ Cardinality(Made(c)) + Cardinality(MayCreate(c)) + Credit(c) <= 1 + confirmed[c] + stale[c]
  BY FS_CardinalityType DEF Budgeted, CreationBudget, Credit
<1>2. Made(c)' = Made(c) /\ MayCreate(c)' = MayCreate(c)
  BY DEF Made, MayCreate
<1>3. /\ confirmed[c] \in Nat /\ stale[c] \in Nat /\ confirmed'[c] \in Nat /\ stale'[c] \in Nat
      /\ Credit(c) \in Nat /\ Credit(c)' \in Nat
  BY DEF CampTyped, Histories, Credit
<1> QED
  BY <1>1, <1>2, <1>3

\* The step of a worker that creates nothing, shares no more than it did, and writes no row
\* to a status that allows a creation.
LEMMA BalanceWorker ==
  ASSUME CampTyped, CampTyped', Budgeted, NEW w \in Workers,
         \A u \in Workers \ {w} : worker'[u] = worker[u],
         DOMAIN platform' = DOMAIN platform, confirmed' = confirmed, stale' = stale,
         \A c \in Campaigns : Share(w, c)' + Credit(c)' <= Share(w, c) + Credit(c)
  PROVE  Budgeted'
<1>1. ASSUME NEW c \in Campaigns
      PROVE  /\ IsFiniteSet(Made(c)')
             /\ Cardinality(Made(c)') + Share(w, c)' + Credit(c)' + confirmed[c] + stale[c]
                  <= Cardinality(Made(c)) + Share(w, c) + Credit(c) + confirmed'[c] + stale'[c]
  <2>1. Made(c)' = Made(c)
    BY DEF Made
  <2>2. IsFiniteSet(Made(c)) /\ Cardinality(Made(c)) \in Nat
    BY FS_CardinalityType DEF Budgeted
  <2>3. /\ confirmed[c] \in Nat /\ stale[c] \in Nat
        /\ Share(w, c) \in Nat /\ Share(w, c)' \in Nat /\ Credit(c) \in Nat /\ Credit(c)' \in Nat
    BY DEF CampTyped, Histories, Share, Credit
  <2> QED
    BY <2>1, <2>2, <2>3
<1> QED
  BY <1>1, Balance

LEMMA Shares ==
  ASSUME NEW w \in Workers, NEW c \in Campaigns
  PROVE  /\ Share(w, c) \in {0, 1} /\ Share(w, c)' \in {0, 1}
         /\ Credit(c) \in {0, 1} /\ Credit(c)' \in {0, 1}
         /\ worker'[w].pc \notin {"prepare", "send", "failed", "requeue"} => Share(w, c)' = 0
         /\ worker'[w].action # "create" => Share(w, c)' = 0
         /\ Keeps(w) /\ worker[w].camp # c => Share(w, c)' = 0
         /\ /\ worker[w].pc \in {"prepare", "send", "failed", "requeue"}
            /\ worker[w].action = "create" /\ worker[w].camp = c
            => Share(w, c) = 1
         /\ Keeps(w) /\ worker[w].pc \in {"prepare", "send", "failed", "requeue"} =>
              Share(w, c)' <= Share(w, c)
BY DEF Share, Credit, MayCreate, Keeps

\* A step of a worker that leaves the rows and the platform's objects alone.
LEMMA BalanceMoves ==
  ASSUME CampTyped, CampTyped', Budgeted, NEW w \in Workers,
         \A u \in Workers \ {w} : worker'[u] = worker[u],
         DOMAIN platform' = DOMAIN platform, confirmed' = confirmed, stale' = stale,
         status' = status, external' = external,
         \/ worker'[w].pc \notin {"prepare", "send", "failed", "requeue"}
         \/ worker'[w].action # "create"
         \/ Keeps(w) /\ worker[w].pc \in {"prepare", "send", "failed", "requeue"}
  PROVE  Budgeted'
<1>1. ASSUME NEW c \in Campaigns
      PROVE  Share(w, c)' + Credit(c)' <= Share(w, c) + Credit(c)
  <2>1. Credit(c)' = Credit(c)
    BY DEF Credit, Uncreated
  <2>2. Share(w, c)' <= Share(w, c) /\ Share(w, c) \in {0, 1} /\ Share(w, c)' \in {0, 1} /\ Credit(c) \in {0, 1}
    BY Shares
  <2> QED
    BY <2>1, <2>2
<1> QED
  BY <1>1, BalanceWorker

\* A creation takes effect: its attempt is spent on the object.
LEMMA BalanceEffect ==
  ASSUME CampTyped, CampTyped', Budgeted, NEW w \in Workers, Effect(w), rows' = rows,
         worker[w].pc = "send", Keeps(w),
         worker'[w].pc \notin {"prepare", "send", "failed", "requeue"} \/ worker[w].action # "create"
  PROVE  Budgeted'
<1>0. /\ status' = status /\ external' = external /\ confirmed' = confirmed /\ stale' = stale
      /\ \A u \in Workers \ {w} : worker'[u] = worker[u]
      /\ worker'[w].pc \notin {"prepare", "send", "failed", "requeue"} \/ worker'[w].action # "create"
  BY DEF rows, Effect, Keeps
<1>1. CASE Create(w)
  <2> DEFINE o == <<worker[w].camp, worker[w].mine>>
  <2>1. DOMAIN platform' = DOMAIN platform \cup {o} /\ worker[w].action = "create" /\ o[1] = worker[w].camp
    BY <1>1 DEF Create
  <2>2. ASSUME NEW c \in Campaigns
        PROVE  /\ IsFiniteSet(Made(c)')
               /\ Cardinality(Made(c)') + Share(w, c)' + Credit(c)' + confirmed[c] + stale[c]
                    <= Cardinality(Made(c)) + Share(w, c) + Credit(c) + confirmed'[c] + stale'[c]
    <3>1. /\ Share(w, c)' = 0 /\ Credit(c)' = Credit(c) /\ Credit(c) \in {0, 1} /\ Share(w, c) \in {0, 1}
          /\ worker[w].camp = c => Share(w, c) = 1
      BY <1>0, <2>1, Shares DEF Credit, Uncreated
    <3>2. /\ IsFiniteSet(Made(c)) /\ Cardinality(Made(c)) \in Nat
          /\ confirmed[c] \in Nat /\ stale[c] \in Nat
      BY FS_CardinalityType DEF Budgeted, CampTyped, Histories
    <3>3. CASE worker[w].camp = c
      <4>1. Made(c)' = Made(c) \cup {o}
        BY <2>1, <3>3 DEF Made
      <4>2. IsFiniteSet(Made(c)') /\ Cardinality(Made(c)') <= Cardinality(Made(c)) + 1 /\ Cardinality(Made(c)') \in Nat
        <5>1. PICK S, x : S = Made(c) /\ x = o
          OBVIOUS
        <5>2. IsFiniteSet(S) /\ Cardinality(S) \in Nat
          BY <3>2, <5>1
        <5>3. IsFiniteSet(S \cup {x}) /\ Cardinality(S \cup {x}) \in {Cardinality(S), Cardinality(S) + 1}
          BY <5>2, FS_AddElement
        <5> QED
          BY <4>1, <5>1, <5>2, <5>3
      <4> QED
        BY <1>0, <3>1, <3>2, <3>3, <4>2
    <3>4. CASE worker[w].camp # c
      <4>1. Made(c)' = Made(c)
        BY <2>1, <3>4 DEF Made
      <4> QED
        BY <1>0, <3>1, <3>2, <4>1
    <3> QED
      BY <3>3, <3>4
  <2> QED
    BY <1>0, <2>2, Balance
<1>2. CASE SetStatus(w)
  <2>1. DOMAIN platform' = DOMAIN platform
    BY <1>2 DEF SetStatus
  <2> QED
    BY <1>0, <2>1, BalanceMoves
<1> QED
  BY <1>1, <1>2 DEF Effect

\* The steps of a worker that write a campaign's row.
LEMMA BalanceWrite ==
  ASSUME CampTyped, CampTyped', Budgeted, NEW w \in Workers, NEW c \in Campaigns,
         \A u \in Workers \ {w} : worker'[u] = worker[u],
         DOMAIN platform' = DOMAIN platform, confirmed' = confirmed, stale' = stale,
         \A d \in Campaigns \ {c} : status'[d] = status[d] /\ external'[d] = external[d],
         worker'[w].pc \notin {"prepare", "send", "failed", "requeue"} \/ worker'[w].action # "create",
         Credit(c)' <= Share(w, c) + Credit(c)
  PROVE  Budgeted'
<1>1. ASSUME NEW d \in Campaigns
      PROVE  Share(w, d)' + Credit(d)' <= Share(w, d) + Credit(d)
  <2>1. Share(w, d)' = 0 /\ Share(w, d) \in {0, 1} /\ Credit(d) \in {0, 1} /\ Credit(d)' \in {0, 1}
    BY Shares
  <2>2. CASE d = c
    BY <2>1, <2>2
  <2>3. CASE d # c
    <3>1. Credit(d)' = Credit(d)
      BY <2>3 DEF Credit, Uncreated
    <3> QED
      BY <2>1, <3>1
  <2> QED
    BY <2>2, <2>3
<1> QED
  BY <1>1, BalanceWorker

\* No status that stands for an object, or an attempt at one, leaves room for another.
LEMMA Uncredited ==
  ASSUME NEW c \in Campaigns
  PROVE  /\ status[c] \in {"creating", "paused", "active", "completed", "archived", "unconfirmed", "deleted"} =>
              Credit(c) = 0
         /\ status[c] = "failed" /\ external[c] # 0 => Credit(c) = 0
         /\ status[c] \in {"draft", "pending_approval", "rejected", "unused", "approved"} => Credit(c) = 1
         /\ status[c] = "failed" /\ external[c] = 0 => Credit(c) = 1
         /\ Credit(c) \in {0, 1}
BY DEF Credit, Uncreated, EDITABLE

LEMMA UncreditedNext ==
  ASSUME NEW c \in Campaigns
  PROVE  /\ status'[c] \in {"creating", "paused", "active", "completed", "archived", "unconfirmed", "deleted"} =>
              Credit(c)' = 0
         /\ status'[c] = "failed" /\ external'[c] # 0 => Credit(c)' = 0
         /\ Credit(c)' \in {0, 1}
         /\ status'[c] = status[c] /\ external'[c] = external[c] => Credit(c)' = Credit(c)
BY DEF Credit, Uncreated, EDITABLE

LEMMA RequestBudgeted ==
  ASSUME CampTyped, CampTyped', Budgeted, NEW k \in Calls,
         CallBegins(k) \/ CallContinues(k) \/ EnqueueLost(k)
  PROVE  Budgeted'
<1> USE DEF rows, history
<1>1. worker' = worker /\ platform' = platform /\ external' = external
  BY DEF CallBegins, CallContinues, CreateCampaign, UpdateRead, Approve, Refuse, Activate, Stop,
     AgainRead, UpdateWrite, RetryWrite, BuryWrite, Enqueue, EnqueueLost, ApiOnly
<1>2. ASSUME confirmed' = confirmed, stale' = stale, \A c \in Campaigns : Credit(c)' <= Credit(c)
      PROVE  Budgeted'
  <2>1. ASSUME NEW c \in Campaigns
        PROVE  Credit(c)' + confirmed[c] + stale[c] <= Credit(c) + confirmed'[c] + stale'[c]
    BY <1>2, Typed, Uncredited, UncreditedNext DEF Histories
  <2> QED
    BY <1>1, <2>1, BalanceRows
<1>3. CASE CreateCampaign(k)
  <2>1. PICK c \in Campaigns : /\ status[c] = "unused" /\ \A d \in Campaigns \ {c} : status'[d] = status[d]
    BY <1>3 DEF CreateCampaign
  <2>2. \A d \in Campaigns : Credit(d)' <= Credit(d)
    BY <1>1, <2>1, Uncredited, UncreditedNext
  <2> QED
    BY <1>2, <1>3, <2>2 DEF CreateCampaign
<1>4. CASE UpdateWrite(k)
  <2>1. ASSUME NEW d \in Campaigns
        PROVE  Credit(d)' <= Credit(d)
    <3>1. PICK c : c = call[k].camp
      OBVIOUS
    <3>2. status'[d] = status[d] \/ (d = c /\ status[c] \in EDITABLE)
      BY <1>4, <3>1, Typed DEF UpdateWrite, Edit, CampTyped, Requested
    <3>3. CASE status'[d] = status[d]
      BY <1>1, <3>3, UncreditedNext
    <3>4. CASE d = c /\ status[c] \in EDITABLE
      BY <3>4, Uncredited, UncreditedNext DEF EDITABLE
    <3> QED
      BY <3>2, <3>3, <3>4
  <2> QED
    BY <1>2, <1>4, <2>1 DEF UpdateWrite
<1>5. CASE Approve(k) \/ Refuse(k)
  <2>1. PICK c \in Campaigns :
          /\ status[c] \in {"pending_approval", "draft", "rejected"}
          /\ \A d \in Campaigns \ {c} : status'[d] = status[d]
    <3>1. status \in [Campaigns -> CampaignStatus \cup {"unused", "deleted"}]
      BY Typed
    <3>2. CASE Approve(k)
      BY <3>1, <3>2 DEF Approve
    <3>3. CASE Refuse(k)
      <4>1. PICK c \in Campaigns :
              \/ status[c] = "pending_approval" /\ status' = [status EXCEPT ![c] = "rejected"]
              \/ status[c] \in {"draft", "rejected"} /\ status' = [status EXCEPT ![c] = "deleted"]
        BY <3>3 DEF Refuse
      <4> QED
        BY <3>1, <4>1
    <3> QED
      BY <1>5, <3>2, <3>3
  <2>2. \A d \in Campaigns : Credit(d)' <= Credit(d)
    BY <1>1, <2>1, Uncredited, UncreditedNext
  <2> QED
    BY <1>2, <1>5, <2>2 DEF Approve, Refuse
<1>6. CASE status' = status /\ confirmed' = confirmed /\ stale' = stale
  <2>1. \A d \in Campaigns : Credit(d)' <= Credit(d)
    BY <1>1, <1>6, UncreditedNext
  <2> QED
    BY <1>2, <1>6, <2>1
<1>7. CASE RetryWrite(k)
  <2>1. PICK c \in Campaigns : c = call[k].camp
    BY Typed DEF Requests
  <2>2. CASE status[c] # call[k].was
    BY <1>6, <1>7, <2>1, <2>2 DEF RetryWrite
  <2>3. CASE status[c] = call[k].was
    <3>1. /\ status[c] \in {"failed", "unconfirmed"}
          /\ status' = [status EXCEPT ![c] = "approved"]
          /\ confirmed' = IF status[c] = "unconfirmed" THEN [confirmed EXCEPT ![c] = @ + 1] ELSE confirmed
          /\ stale' = IF status[c] = "failed" /\ external[c] # 0 THEN [stale EXCEPT ![c] = @ + 1] ELSE stale
      BY <1>7, <2>1, <2>3 DEF RetryWrite, CampTyped, Requested
    <3>2. ASSUME NEW d \in Campaigns
          PROVE  Credit(d)' + confirmed[d] + stale[d] <= Credit(d) + confirmed'[d] + stale'[d]
      <4>0. /\ confirmed[d] \in Nat /\ stale[d] \in Nat /\ confirmed \in [Campaigns -> Nat]
            /\ stale \in [Campaigns -> Nat] /\ Credit(d) \in {0, 1} /\ Credit(d)' \in {0, 1}
        BY Typed, Uncredited, UncreditedNext DEF Histories
      <4>1. CASE d # c
        <5>1. Credit(d)' = Credit(d) /\ confirmed'[d] = confirmed[d] /\ stale'[d] = stale[d]
          BY <1>1, <3>1, <4>0, <4>1, UncreditedNext
        <5> QED
          BY <4>0, <5>1
      <4>2. CASE d = c /\ status[c] = "unconfirmed"
        <5>1. confirmed'[d] = confirmed[d] + 1 /\ stale'[d] = stale[d]
          BY <3>1, <4>0, <4>2
        <5> QED
          BY <4>0, <5>1
      <4>3. CASE d = c /\ status[c] = "failed" /\ external[c] # 0
        <5>1. confirmed'[d] = confirmed[d] /\ stale'[d] = stale[d] + 1
          BY <3>1, <4>0, <4>3
        <5> QED
          BY <4>0, <5>1
      <4>4. CASE d = c /\ status[c] = "failed" /\ external[c] = 0
        <5>1. confirmed'[d] = confirmed[d] /\ stale'[d] = stale[d] /\ Credit(d) = 1
          BY <3>1, <4>0, <4>4, Uncredited
        <5> QED
          BY <4>0, <5>1
      <4> QED
        BY <3>1, <4>1, <4>2, <4>3, <4>4
    <3> QED
      BY <1>1, <3>2, BalanceRows
  <2> QED
    BY <2>2, <2>3
<1>8. CASE BuryWrite(k)
  <2>1. ASSUME NEW d \in Campaigns
        PROVE  Credit(d)' <= Credit(d)
    <3>1. status'[d] = status[d] \/ status'[d] = "archived"
      BY <1>8, Typed DEF BuryWrite
    <3> QED
      BY <1>1, <3>1, Uncredited, UncreditedNext
  <2> QED
    BY <1>2, <1>8, <2>1 DEF BuryWrite
<1> QED
  BY <1>3, <1>4, <1>5, <1>6, <1>7, <1>8
  DEF CallBegins, CallContinues, UpdateRead, Activate, Stop, AgainRead, Enqueue, EnqueueLost

LEMMA WorkerBudgeted ==
  ASSUME CampTyped, CampTyped', Budgeted, NEW w \in Workers, WorkerStep(w)
  PROVE  Budgeted'
<1> USE DEF rows, history
<1>e. ASSUME worker' = [worker EXCEPT ![w] = Idle]
      PROVE  /\ worker'[w].pc \notin {"prepare", "send", "failed", "requeue"}
             /\ \A u \in Workers \ {w} : worker'[u] = worker[u]
  BY <1>e, EndKeeps
<1>g. ASSUME NEW p \in WorkerPc, Goto(w, p)
      PROVE  /\ Keeps(w) /\ worker'[w].pc = p /\ worker'[w].action = worker[w].action
             /\ \A u \in Workers \ {w} : worker'[u] = worker[u]
  BY <1>g, GotoKeeps DEF Keeps
<1>k. ASSUME Keeps(w) PROVE \A u \in Workers \ {w} : worker'[u] = worker[u]
  BY <1>k DEF Keeps
<1>1. CASE StartJob(w)
  <2>1. /\ worker'[w].pc = "claim" /\ \A u \in Workers \ {w} : worker'[u] = worker[u]
    <3>1. PICK j : worker' = [worker EXCEPT ![w] =
             [Idle EXCEPT !.pc = "claim", !.camp = j.camp, !.num = j.num, !.action = j.action,
                          !.attempt = j.attempt, !.held = TRUE]]
      BY <1>1 DEF StartJob
    <3> QED
      BY <3>1, Typed DEF Idle
  <2> QED
    BY <1>1, <2>1, BalanceMoves DEF StartJob
<1>2. CASE Claim(w)
  <2>0. UNCHANGED <<external, platform, confirmed, stale>>
    BY <1>2 DEF Claim, Writes
  <2>1. CASE ~ Claims(w)
    BY <1>2, <1>e, <2>0, <2>1, ClaimForms, BalanceMoves DEF End
  <2>2. CASE Claims(w)
    <3>1. PICK c \in Campaigns : c = worker[w].camp
      BY Typed
    <3>2. /\ status' = [status EXCEPT ![c] = ClaimTo(w)]
          /\ \A u \in Workers \ {w} : worker'[u] = worker[u]
          /\ worker'[w].action = worker[w].action
      BY <1>2, <2>2, <3>1, ClaimForms, ClaimFields
    <3>3. CASE worker[w].action # "create"
      <4>1. status' = status
        BY <3>1, <3>2, <3>3, Typed DEF ClaimTo
      <4> QED
        BY <2>0, <3>2, <3>3, <4>1, BalanceMoves
    <3>4. CASE worker[w].action = "create"
      <4>1. status[c] = "approved" /\ status'[c] = "creating" /\ worker'[w].camp = c
        BY <1>2, <2>2, <3>1, <3>2, <3>4, ClaimFields, Typed DEF Claims, ClaimTo, EXPECTED
      <4>2. ASSUME NEW d \in Campaigns
            PROVE  Share(w, d)' + Credit(d)' <= Share(w, d) + Credit(d)
        <5>1. CASE d = c
          BY <4>1, <5>1, Uncredited, UncreditedNext, Shares
        <5>2. CASE d # c
          <6>1. Credit(d)' = Credit(d)
            BY <2>0, <3>2, <5>2, Typed, UncreditedNext
          <6>2. Share(w, d)' = 0
            BY <4>1, <5>2 DEF Share, MayCreate
          <6> QED
            BY <6>1, <6>2, Shares
        <5> QED
          BY <5>1, <5>2
      <4> QED
        BY <2>0, <3>2, <4>2, BalanceWorker
    <3> QED
      BY <3>3, <3>4
  <2> QED
    BY <2>1, <2>2
<1>3. CASE Prepare(w)
  <2>1. Keeps(w)
    <3>1. CASE Goto(w, "send")
      BY <1>g, <3>1 DEF WorkerPc
    <3>2. CASE Goto(w, IF worker[w].action = "create" THEN "failed" ELSE "error")
      <4>1. PICK p : p = IF worker[w].action = "create" THEN "failed" ELSE "error"
        OBVIOUS
      <4> QED
        BY <1>g, <3>2, <4>1 DEF WorkerPc
    <3>3. ASSUME NEW kind \in {"rate_limited", "transient", "invalid_request"}, Catch(w, kind, FALSE)
          PROVE  Keeps(w)
      BY <3>3, CatchKeeps DEF ErrorKinds, ProviderErrors
    <3> QED
      BY <1>3, <3>1, <3>2, <3>3 DEF Prepare
  <2> QED
    BY <1>3, <1>k, <2>1, BalanceMoves DEF Prepare, Moves
<1>4. CASE Send(w)
  <2>0. worker[w].pc = "send" /\ rows' = rows
    BY <1>4 DEF Send, Moves
  <2>1. CASE Effect(w) /\ Goto(w, IF worker[w].action = "create" THEN "created" ELSE "changed")
    <3>1. PICK p : p = IF worker[w].action = "create" THEN "created" ELSE "changed"
      OBVIOUS
    <3> QED
      BY <1>g, <2>0, <2>1, <3>1, BalanceEffect DEF WorkerPc
  <2>2. ASSUME NEW kind \in {"auth", "rate_limited", "invalid_request", "transient"},
               Catch(w, kind, TRUE), UNCHANGED <<platform, history>>
        PROVE  Budgeted'
    <3>1. Keeps(w)
      BY <2>2, CatchKeeps DEF ErrorKinds, ProviderErrors
    <3> QED
      BY <1>k, <2>0, <2>2, <3>1, BalanceMoves
  <2>3. ASSUME NEW kind \in {"unknown_outcome", "internal"}, Catch(w, kind, TRUE),
               Effect(w) \/ UNCHANGED <<platform, history>>
        PROVE  Budgeted'
    <3>1. Goto(w, IF worker[w].action = "create" THEN "unconfirmed" ELSE "flag")
      BY <2>3, DoubtGoes
    <3>2. PICK p : p = IF worker[w].action = "create" THEN "unconfirmed" ELSE "flag"
      OBVIOUS
    <3>3. /\ Keeps(w) /\ worker'[w].pc = p /\ \A u \in Workers \ {w} : worker'[u] = worker[u]
      BY <1>g, <3>1, <3>2 DEF WorkerPc
    <3>4. CASE Effect(w)
      BY <2>0, <3>2, <3>3, <3>4, BalanceEffect
    <3>5. CASE UNCHANGED <<platform, history>>
      BY <2>0, <3>2, <3>3, <3>5, BalanceMoves
    <3> QED
      BY <2>3, <3>4, <3>5
  <2> QED
    BY <1>4, <2>1, <2>2, <2>3 DEF Send
<1>5. CASE WriteCreation(w)
  <2>0. PICK c \in Campaigns : c = worker[w].camp
    BY Typed
  <2>1. PICK p : p = worker[w].pc /\ c = worker[w].camp
    BY <2>0
  <2>2. /\ p \in {"created", "failed", "unconfirmed"} /\ worker[w].action = "create"
        /\ End(w) /\ UNCHANGED <<version, platform, confirmed, stale>>
    BY <1>5, <2>1, Typed DEF WriteCreation, Writes, Placed
  <2>3. /\ \A d \in Campaigns \ {c} : status'[d] = status[d] /\ external'[d] = external[d]
        /\ \/ status' = status /\ external' = external
           \/ status'[c] = IF p = "created" THEN "paused" ELSE p
    BY <1>5, <2>1, Typed DEF WriteCreation
  <2>4. Credit(c)' <= Share(w, c) + Credit(c)
    <3>1. CASE status' = status /\ external' = external
      BY <3>1, UncreditedNext, Shares
    <3>2. CASE status'[c] = IF p = "created" THEN "paused" ELSE p
      BY <2>1, <2>2, <3>2, UncreditedNext, Shares
    <3> QED
      BY <2>3, <3>1, <3>2
  <2> QED
    BY <1>e, <2>2, <2>3, <2>4, BalanceWrite DEF End
<1>6. CASE Requeue(w)
  <2>1. PICK c \in Campaigns : c = worker[w].camp
    BY Typed
  <2>2. /\ worker[w].pc = "requeue" /\ worker[w].action = "create"
        /\ UNCHANGED <<external, platform, confirmed, stale>>
    BY <1>6, Typed DEF Requeue, Writes, Placed
  <2>3. CASE status' = [status EXCEPT ![c] = "approved"] /\ Goto(w, "enqueue")
    <3>1. worker'[w].pc = "enqueue" /\ \A u \in Workers \ {w} : worker'[u] = worker[u]
      BY <1>g, <2>3 DEF WorkerPc
    <3>2. Credit(c)' <= Share(w, c) + Credit(c)
      BY <2>1, <2>2, Shares
    <3> QED
      BY <2>2, <2>3, <3>1, <3>2, BalanceWrite
  <2>4. CASE End(w) /\ UNCHANGED status
    BY <1>e, <2>2, <2>4, BalanceMoves DEF End
  <2> QED
    BY <1>6, <2>1, <2>3, <2>4 DEF Requeue
<1>7. CASE EnqueueRetry(w)
  BY <1>7, <1>e, BalanceMoves DEF EnqueueRetry
<1>8. CASE WriteChange(w)
  <2>1. PICK c \in Campaigns : c = worker[w].camp
    BY Typed
  <2>2. /\ worker[w].action # "create" /\ End(w)
        /\ UNCHANGED <<external, platform, confirmed, stale>>
    BY <1>8, Typed DEF WriteChange, Writes, Placed
  <2>3. TARGET[worker[w].action] \in {"active", "paused", "archived"}
    BY Typed DEF TARGET, Actions
  <2>4. status' = status \/ status' = [status EXCEPT ![c] = TARGET[worker[w].action]]
    BY <1>8, <2>1 DEF WriteChange
  <2>5. /\ \A d \in Campaigns \ {c} : status'[d] = status[d]
        /\ status'[c] = status[c] \/ status'[c] \in {"active", "paused", "archived"}
    BY <2>3, <2>4, Typed
  <2>6. Credit(c)' <= Share(w, c) + Credit(c)
    BY <2>2, <2>5, Shares, Uncredited, UncreditedNext
  <2> QED
    BY <1>e, <2>2, <2>5, <2>6, BalanceWrite DEF End
<1>9. CASE WriteFlag(w)
  BY <1>9, <1>g, BalanceMoves DEF WriteFlag, Writes, WorkerPc
<1>10. CASE Ask(w)
  <2>1. CASE worker' = [worker EXCEPT ![w].pc = "tell", ![w].seen = platform[Object(w)]]
    <3>1. worker'[w].pc = "tell" /\ \A u \in Workers \ {w} : worker'[u] = worker[u]
      BY <2>1, Typed DEF WorkerStates
    <3> QED
      BY <1>10, <3>1, BalanceMoves DEF Ask
  <2>2. CASE End(w)
    BY <1>10, <1>e, <2>2, BalanceMoves DEF Ask, End
  <2> QED
    BY <1>10, <2>1, <2>2 DEF Ask
<1>11. CASE Tell(w)
  <2>1. PICK c \in Campaigns : c = worker[w].camp
    BY Typed
  <2>2. /\ worker[w].pc = "tell" /\ End(w) /\ UNCHANGED <<external, platform, confirmed, stale>>
        /\ external[c] # 0
    BY <1>11, <2>1, Typed DEF Tell, Writes, Placed
  <2>3. \/ status' = status
        \/ \E next \in {"paused", "active", "completed", "archived", "failed"} :
             status' = [status EXCEPT ![c] = next]
    BY <1>11, <2>1, TellForms
  <2>4. /\ \A d \in Campaigns \ {c} : status'[d] = status[d]
        /\ \/ status'[c] = status[c]
           \/ status'[c] \in {"paused", "active", "completed", "archived", "failed"}
    BY <2>3, Typed
  <2>5. Credit(c)' <= Share(w, c) + Credit(c)
    BY <2>2, <2>4, Shares, Uncredited, UncreditedNext
  <2> QED
    BY <1>e, <2>2, <2>4, <2>5, BalanceWrite DEF End
<1> QED
  BY <1>1, <1>2, <1>3, <1>4, <1>5, <1>6, <1>7, <1>8, <1>9, <1>10, <1>11 DEF WorkerStep

LEMMA FaultBudgeted ==
  ASSUME CampTyped, CampTyped', Budgeted, NEW w \in Workers, WorkerFault(w)
  PROVE  Budgeted'
<1> USE DEF rows, history
<1>0. UNCHANGED <<status, external, platform, confirmed, stale>>
  BY DEF WorkerFault, CallFails, TryFails, Crash, LoseLock
<1>1. CASE worker' = [worker EXCEPT ![w] = Idle]
  BY <1>0, <1>1, EndKeeps, BalanceMoves
<1>2. CASE TryFails(w)
  <2>1. PICK sent \in BOOLEAN : sent = (worker[w].pc # "prepare") /\ Catch(w, "internal", sent)
    BY <1>2 DEF TryFails
  <2>2. Keeps(w) /\ CaughtAt(w, "internal")
    BY <2>1, CatchKeeps DEF ErrorKinds
  <2>3. CASE worker[w].pc = "prepare"
    BY <1>0, <2>2, <2>3, BalanceMoves DEF Keeps
  <2>4. CASE worker[w].pc = "created"
    <3>1. Catch(w, "internal", TRUE)
      BY <2>1, <2>4
    <3>2. Goto(w, IF worker[w].action = "create" THEN "unconfirmed" ELSE "flag")
      BY <3>1, DoubtGoes
    <3>3. PICK p : p = IF worker[w].action = "create" THEN "unconfirmed" ELSE "flag"
      OBVIOUS
    <3>4. worker'[w].pc = p
      BY <3>2, <3>3, GotoKeeps DEF WorkerPc
    <3> QED
      BY <1>0, <2>2, <3>3, <3>4, BalanceMoves DEF Keeps
  <2>5. CASE worker[w].pc = "changed"
    <3>1. worker'[w].action # "create"
      BY <2>2, <2>5, Typed DEF Keeps, Placed
    <3> QED
      BY <1>0, <2>2, <3>1, BalanceMoves DEF Keeps
  <2> QED
    BY <1>2, <2>3, <2>4, <2>5 DEF TryFails
<1>3. CASE LoseLock(w)
  <2>1. \A u \in Workers : /\ worker'[u].pc = worker[u].pc /\ worker'[u].camp = worker[u].camp
                           /\ worker'[u].action = worker[u].action
    <3>1. worker \in [Workers -> WorkerStates] /\ worker[w] \in WorkerStates
      BY Typed
    <3> QED
      BY <1>3, <3>1 DEF LoseLock, WorkerStates
  <2>2. \A c \in Campaigns : Credit(c)' + confirmed[c] + stale[c] <= Credit(c) + confirmed'[c] + stale'[c]
    BY <1>0, UncreditedNext, Typed DEF Histories
  <2> QED
    BY <1>0, <2>1, <2>2, BalanceRows
<1> QED
  BY <1>1, <1>2, <1>3 DEF WorkerFault, CallFails, Crash, End

LEMMA RestBudgeted ==
  ASSUME CampaignsParameters, CampTyped, CampTyped', Budgeted,
         SyncStep \/ AdsManager \/ RedisLoss \/ RecoverStalled \/ SweepRead \/ SweepEarly
           \/ SweepEnsure \/ RecoverStuck \/ RecoverEarly \/ UNCHANGED vars
  PROVE  Budgeted'
<1> USE DEF rows, history
<1>1. UNCHANGED <<external, confirmed, stale>>
  BY DEF SyncStep, SyncAsk, SyncTell, AdsManager, RedisLoss, RecoverStalled, SweepRead, SweepEarly,
     SweepEnsure, RecoverStuck, RecoverEarly, vars
<1>2. DOMAIN platform' = DOMAIN platform
  BY DEF SyncStep, SyncAsk, SyncTell, AdsManager, RedisLoss, RecoverStalled, SweepRead, SweepEarly,
     SweepEnsure, RecoverStuck, RecoverEarly, vars
<1>3. \A u \in Workers : /\ worker'[u].pc = worker[u].pc /\ worker'[u].camp = worker[u].camp
                         /\ worker'[u].action = worker[u].action
  <2>1. CASE RedisLoss
    <3>1. \A u \in Workers : worker'[u] = [worker[u] EXCEPT !.held = FALSE] /\ worker[u] \in WorkerStates
      BY <2>1, Typed DEF RedisLoss
    <3> QED
      BY <3>1 DEF WorkerStates
  <2>2. CASE worker' = worker
    BY <2>2
  <2> QED
    BY <2>1, <2>2 DEF SyncStep, SyncAsk, SyncTell, AdsManager, RecoverStalled, SweepRead,
       SweepEarly, SweepEnsure, RecoverStuck, RecoverEarly, vars
<1>4. ASSUME NEW c \in Campaigns
      PROVE  Credit(c)' <= Credit(c)
  <2>1. CASE SyncTell
    <3>1. PICK d \in Campaigns : d = sync.camp
      BY <2>1, SyncForms
    <3>2. status'[c] = status[c]
          \/ (external[c] # 0 /\ status'[c] \in {"paused", "active", "completed", "archived", "failed"})
      BY <2>1, <3>1, SyncForms, Typed
    <3> QED
      BY <1>1, <3>2, Uncredited, UncreditedNext
  <2>2. CASE RecoverStuck \/ RecoverEarly
    <3>1. PICK early : status' = Recovered(status, early)
      BY <2>2 DEF RecoverStuck, RecoverEarly
    <3>2. status'[c] = status[c] \/ status'[c] = "unconfirmed"
      BY <3>1 DEF Recovered
    <3> QED
      BY <1>1, <3>2, Uncredited, UncreditedNext
  <2>3. CASE status' = status
    BY <1>1, <2>3, UncreditedNext
  <2> QED
    BY <2>1, <2>2, <2>3 DEF SyncStep, SyncAsk, AdsManager, RedisLoss, RecoverStalled, SweepRead,
       SweepEarly, SweepEnsure, vars
<1>5. ASSUME NEW c \in Campaigns
      PROVE  Credit(c)' + confirmed[c] + stale[c] <= Credit(c) + confirmed'[c] + stale'[c]
  BY <1>1, <1>4, Uncredited, UncreditedNext, Typed DEF Histories
<1> QED
  BY <1>2, <1>3, <1>5, BalanceRows

LEMMA InitBudgeted ==
  ASSUME CampaignsParameters, Init
  PROVE  Budgeted
<1> SUFFICES ASSUME NEW c \in Campaigns
             PROVE  /\ IsFiniteSet(Made(c)) /\ IsFiniteSet(MayCreate(c))
                    /\ Cardinality(Made(c)) + Cardinality(MayCreate(c)) + Credit(c)
                         <= 1 + confirmed[c] + stale[c]
  BY DEF Budgeted, CreationBudget, Credit
<1>1. MayCreate(c) = {}
  BY DEF Init, MayCreate, Idle
<1>2. confirmed[c] = 0 /\ stale[c] = 0 /\ DOMAIN platform = Paused(status) \X {2}
  BY DEF Init, Each
<1>3. IsFiniteSet(MayCreate(c)) /\ Cardinality(MayCreate(c)) = 0
  BY <1>1, FS_EmptySet
<1>4. CASE status[c] = "paused"
  <2>1. Made(c) = {<<c, 2>>}
    BY <1>2, <1>4 DEF Made, Paused
  <2>2. IsFiniteSet(Made(c)) /\ Cardinality(Made(c)) = 1
    BY <2>1, FS_Singleton
  <2> QED
    BY <1>2, <1>3, <1>4, <2>2, Uncredited
<1>5. CASE status[c] # "paused"
  <2>1. Made(c) = {}
    BY <1>2, <1>5 DEF Made, Paused
  <2>2. IsFiniteSet(Made(c)) /\ Cardinality(Made(c)) = 0
    BY <2>1, FS_EmptySet
  <2> QED
    BY <1>2, <1>3, <2>2, Uncredited
<1> QED
  BY <1>4, <1>5

\* "Never twice" (ads-writer.ts, invariant 2): the objects of a campaign, the attempts that may
\* still make or hand back one, and the creation its status allows, never exceed the one asked
\* for, the retries a user confirmed, and those written over a creation (retry).
THEOREM CreationBudgetAlways == ASSUME CampaignsParameters PROVE Spec => []CreationBudget
<1> DEFINE I == CampTyped /\ Budgeted
<1>1. Init => I
  BY TypedInductive, InitBudgeted
<1>2. I /\ [Next]_vars => I'
  <2> SUFFICES ASSUME CampTyped, Budgeted, [Next]_vars PROVE CampTyped' /\ Budgeted'
    OBVIOUS
  <2>1. CampTyped'
    BY TypedInductive
  <2> QED
    BY <2>1, RequestBudgeted, WorkerBudgeted, FaultBudgeted, RestBudgeted DEF Next
<1>3. I => CreationBudget
  BY DEF Budgeted
<1> QED
  BY <1>1, <1>2, <1>3, PTL DEF Spec

-----------------------------------------------------------------------------
(* What is created is what was approved.                                   *)

\* A campaign that has been approved stays so, and is approved as it stands.
Freezes ==
  \A c \in Campaigns :
    /\ Past(c) => Past(c)' /\ edition'[c] = edition[c] /\ approved'[c] = approved[c]
    /\ ~ Past(c) /\ Past(c)' => edition'[c] = approved'[c]

\* No step of anybody but people makes a campaign of an editable one, or edits it.
LEMMA StatusFreezes ==
  ASSUME UNCHANGED <<edition, approved>>,
         \A c \in Campaigns : status'[c] = status[c] \/ (Past(c) /\ Past(c)')
  PROVE  Freezes
BY DEF Freezes, Past

LEMMA PastStatuses ==
  ASSUME NEW c \in Campaigns
  PROVE  /\ CampTyped => (Past(c) <=> status[c] \in CampaignStatus \ EDITABLE)
         /\ CampTyped' => (Past(c)' <=> status'[c] \in CampaignStatus \ EDITABLE)
         /\ {"approved", "creating", "paused", "active", "completed", "archived", "failed", "unconfirmed"}
              = CampaignStatus \ EDITABLE
BY Typed DEF Past, CampaignStatus, EDITABLE, CampTyped, CampaignsTypeOK

LEMMA RequestFreezes ==
  ASSUME CampTyped, CampTyped', NEW k \in Calls, CallBegins(k) \/ CallContinues(k) \/ EnqueueLost(k)
  PROVE  Freezes
<1> USE DEF rows, history
<1>0. status \in [Campaigns -> CampaignStatus \cup {"unused", "deleted"}] /\ approved \in [Campaigns -> Nat]
      /\ edition \in [Campaigns -> Nat]
  BY Typed DEF Histories
<1>1. CASE CreateCampaign(k)
  <2>1. PICK c \in Campaigns, to \in {"draft", "pending_approval", "approved"} :
         /\ status[c] = "unused" /\ status' = [status EXCEPT ![c] = to]
         /\ approved' = IF to = "approved" THEN [approved EXCEPT ![c] = edition[c]] ELSE approved
    BY <1>1 DEF CreateCampaign
  <2>2. edition' = edition
    BY <1>1 DEF CreateCampaign
  <2> QED
    BY <1>0, <2>1, <2>2 DEF Freezes, Past, EDITABLE
<1>2. CASE UpdateWrite(k)
  <2>1. CASE UNCHANGED <<status, edition, version, approved>>
    BY <2>1, StatusFreezes
  <2>2. CASE status[call[k].camp] = call[k].was /\ Edit(k, call[k].camp, call[k].to)
    <3>1. PICK c, to : c = call[k].camp /\ to = call[k].to
      OBVIOUS
    <3>2. /\ c \in Campaigns /\ status[c] \in EDITABLE /\ to \in EDITABLE \cup {"approved"}
      BY <1>2, <2>2, <3>1, Typed DEF UpdateWrite, CampTyped, Requested, Requests
    <3>3. /\ status' = [status EXCEPT ![c] = to] /\ edition' = [edition EXCEPT ![c] = @ + 1]
          /\ approved' = IF to = "approved" THEN [approved EXCEPT ![c] = edition[c] + 1] ELSE approved
      BY <2>2, <3>1 DEF Edit
    <3>4. \A d \in Campaigns \ {c} : /\ status'[d] = status[d] /\ edition'[d] = edition[d]
                                     /\ approved'[d] = approved[d]
      BY <1>0, <3>2, <3>3
    <3>5. status'[c] = to /\ edition'[c] = edition[c] + 1 /\ (to = "approved" => approved'[c] = edition[c] + 1)
      BY <1>0, <3>2, <3>3
    <3>6. ~ Past(c) /\ (Past(c)' => to = "approved")
      BY <3>2, <3>5 DEF Past
    <3>7. \A d \in Campaigns \ {c} : Past(d)' <=> Past(d)
      BY <3>4 DEF Past
    <3> QED
      BY <3>4, <3>5, <3>6, <3>7 DEF Freezes
  <2> QED
    BY <1>2, <2>1, <2>2 DEF UpdateWrite
<1>3. CASE Approve(k)
  <2>1. PICK c \in Campaigns :
         /\ status[c] = "pending_approval" /\ status' = [status EXCEPT ![c] = "approved"]
         /\ approved' = [approved EXCEPT ![c] = edition[c]]
    BY <1>3 DEF Approve
  <2>2. edition' = edition
    BY <1>3 DEF Approve
  <2> QED
    BY <1>0, <2>1, <2>2 DEF Freezes, Past, EDITABLE
<1>4. CASE Refuse(k)
  <2>1. PICK c \in Campaigns :
          \/ status[c] = "pending_approval" /\ status' = [status EXCEPT ![c] = "rejected"]
          \/ status[c] \in {"draft", "rejected"} /\ status' = [status EXCEPT ![c] = "deleted"]
    BY <1>4 DEF Refuse
  <2>2. edition' = edition /\ approved' = approved
    BY <1>4 DEF Refuse
  <2> QED
    BY <1>0, <2>1, <2>2 DEF Freezes, Past, EDITABLE
<1>5. CASE RetryWrite(k) \/ BuryWrite(k)
  <2>1. PICK c : c = call[k].camp
    OBVIOUS
  <2>2. /\ c \in Campaigns /\ UNCHANGED <<edition, approved>>
        /\ \A d \in Campaigns \ {c} : status'[d] = status[d]
        /\ status'[c] = status[c] \/ (status[c] = call[k].was /\ status'[c] \in {"approved", "archived"})
    BY <1>0, <1>5, <2>1, Typed DEF RetryWrite, BuryWrite, Requests
  <2>3. call[k].was \in {"failed", "unconfirmed"}
    BY <1>5 DEF RetryWrite, BuryWrite, CampTyped, Requested
  <2>4. \A d \in Campaigns : status'[d] = status[d] \/ (Past(d) /\ Past(d)')
    BY <2>2, <2>3 DEF Past, EDITABLE
  <2> QED
    BY <2>2, <2>4, StatusFreezes
<1>6. CASE UNCHANGED <<status, edition, approved>>
  BY <1>6, StatusFreezes
<1> QED
  BY <1>1, <1>2, <1>3, <1>4, <1>5, <1>6
  DEF CallBegins, CallContinues, UpdateRead, Activate, Stop, AgainRead, Enqueue, EnqueueLost

LEMMA WorkerFreezes ==
  ASSUME CampTyped, CampTyped', AsApproved, NEW w \in Workers, WorkerStep(w) \/ WorkerFault(w)
  PROVE  Freezes
<1> USE DEF rows, history
<1>1. PICK c \in Campaigns : c = worker[w].camp
  BY Typed
<1>2. UNCHANGED <<edition, approved>>
  BY DEF WorkerStep, StartJob, Claim, Prepare, Send, Effect, WriteCreation, Requeue, EnqueueRetry,
     WriteChange, WriteFlag, Ask, Tell, Writes, Moves,
     WorkerFault, CallFails, TryFails, Crash, LoseLock
<1>3. \A d \in Campaigns \ {c} : status'[d] = status[d]
  <2>1. CASE Tell(w)
    BY <1>1, <2>1, TellForms, Typed
  <2>2. CASE Claim(w)
    BY <1>1, <2>2, ClaimForms, Typed
  <2>3. CASE WriteCreation(w)
    BY <1>1, <2>3, Typed DEF WriteCreation
  <2>4. CASE WriteChange(w)
    BY <1>1, <2>4, Typed DEF WriteChange
  <2>5. CASE Requeue(w)
    BY <1>1, <2>5, Typed DEF Requeue
  <2>6. CASE status' = status
    BY <2>6
  <2> QED
    BY <2>1, <2>2, <2>3, <2>4, <2>5, <2>6 DEF WorkerStep, StartJob, Prepare, Send, Moves, EnqueueRetry,
       WriteFlag, Ask, WorkerFault, CallFails, TryFails, Crash, LoseLock
<1>4. CASE status'[c] = status[c]
  BY <1>2, <1>3, <1>4, StatusFreezes
<1>5. CASE status'[c] # status[c]
  <2>1. status'[c] \in CampaignStatus \ EDITABLE /\ Past(c)
    <3>1. CASE Claim(w)
      <4>1. Claims(w) /\ status'[c] = ClaimTo(w)
        BY <1>1, <1>5, <3>1, ClaimForms, Typed
      <4>2. worker[w].action = "create"
        BY <1>1, <1>5, <4>1 DEF ClaimTo
      <4>3. status[c] = "approved" /\ status'[c] = "creating"
        BY <1>1, <4>1, <4>2 DEF Claims, ClaimTo, EXPECTED
      <4> QED
        BY <4>3, PastStatuses DEF Past, EDITABLE
    <3>2. CASE ~ Claim(w)
      <4>1. worker[w].pc \notin {"idle", "claim"}
        BY <1>5, <3>2 DEF WorkerStep, StartJob, Prepare, Send, Moves, WriteCreation, Requeue, EnqueueRetry,
           WriteChange, WriteFlag, Ask, Tell, WorkerFault, CallFails, TryFails, Crash, LoseLock
      <4>2. Past(c)
        BY <1>1, <4>1 DEF AsApproved
      <4>3. status'[c] \in {"approved", "paused", "active", "completed", "archived", "failed", "unconfirmed"}
        <5>1. CASE Tell(w)
          BY <1>1, <1>5, <5>1, TellForms, Typed
        <5>3. CASE WriteCreation(w)
          BY <1>1, <1>5, <5>3, Typed DEF WriteCreation
        <5>4. CASE WriteChange(w)
          <6>1. TARGET[worker[w].action] \in {"active", "paused", "archived"}
            BY Typed DEF TARGET, Actions
          <6> QED
            BY <1>1, <1>5, <5>4, <6>1, Typed DEF WriteChange
        <5>5. CASE Requeue(w)
          BY <1>1, <1>5, <5>5, Typed DEF Requeue
        <5> QED
          BY <1>5, <3>2, <5>1, <5>3, <5>4, <5>5 DEF WorkerStep, StartJob, Prepare, Send, Moves,
             EnqueueRetry, WriteFlag, Ask, WorkerFault, CallFails, TryFails, Crash, LoseLock
      <4> QED
        BY <4>2, <4>3, PastStatuses
    <3> QED
      BY <3>1, <3>2
  <2>2. Past(c)'
    BY <2>1, PastStatuses
  <2> QED
    BY <1>2, <1>3, <2>1, <2>2, StatusFreezes
<1> QED
  BY <1>4, <1>5

LEMMA RestFreezes ==
  ASSUME CampaignsParameters, CampTyped, CampTyped',
         SyncStep \/ AdsManager \/ RedisLoss \/ RecoverStalled \/ SweepRead \/ SweepEarly
           \/ SweepEnsure \/ RecoverStuck \/ RecoverEarly \/ UNCHANGED vars
  PROVE  Freezes
<1> USE DEF rows, history
<1>1. UNCHANGED <<edition, approved>>
  BY DEF SyncStep, SyncAsk, SyncTell, AdsManager, RedisLoss, RecoverStalled, SweepRead, SweepEarly,
     SweepEnsure, RecoverStuck, RecoverEarly, vars
<1>2. CASE SyncTell
  <2>1. PICK d \in Campaigns : d = sync.camp
    BY <1>2, SyncForms
  <2>2. ASSUME NEW c \in Campaigns, status'[c] # status[c]
        PROVE  /\ status[c] \in {"paused", "active"}
               /\ status'[c] \in {"paused", "active", "completed", "archived", "failed"}
    BY <1>2, <2>1, <2>2, SyncForms, Typed
  <2> QED
    BY <1>1, <2>2, StatusFreezes DEF Past, EDITABLE
<1>3. CASE RecoverStuck \/ RecoverEarly
  <2>1. PICK early : status' = Recovered(status, early)
    BY <1>3 DEF RecoverStuck, RecoverEarly
  <2>2. \A c \in Campaigns : status'[c] = status[c] \/ (status[c] = "creating" /\ status'[c] = "unconfirmed")
    BY <2>1 DEF Recovered
  <2> QED
    BY <1>1, <2>2, StatusFreezes DEF Past, EDITABLE
<1>4. CASE status' = status
  BY <1>1, <1>4, StatusFreezes
<1> QED
  BY <1>2, <1>3, <1>4 DEF SyncStep, SyncAsk, AdsManager, RedisLoss, RecoverStalled, SweepRead,
     SweepEarly, SweepEnsure, vars

\* Workers that carry on, and objects that stay, keep what they were made from.
CarriesOn(w) ==
  worker'[w].pc \notin {"idle", "claim"} =>
    /\ worker[w].pc \notin {"idle", "claim"} /\ worker'[w].camp = worker[w].camp
    /\ worker'[w].action = worker[w].action /\ worker'[w].copy = worker[w].copy
Takes(w) ==
  /\ worker'[w].camp \in Campaigns /\ Past(worker'[w].camp)
  /\ worker'[w].action = "create" => worker'[w].copy = approved[worker'[w].camp]

LEMMA ApprovedKept ==
  ASSUME CampTyped, CampTyped', AsApproved, Freezes,
         \A o \in DOMAIN platform' :
           \/ o \in DOMAIN platform /\ content'[o] = content[o]
           \/ Past(o[1]) /\ content'[o] = approved[o[1]],
         \A w \in Workers : CarriesOn(w) \/ Takes(w)
  PROVE  AsApproved'
<1>1. \A c \in Campaigns : Past(c)' => edition'[c] = approved'[c]
  BY DEF AsApproved, Freezes
<1>2. ASSUME NEW w \in Workers, worker'[w].pc \notin {"idle", "claim"}
      PROVE  /\ Past(worker[w].camp)'
             /\ worker'[w].action = "create" => worker'[w].copy = approved'[worker'[w].camp]
  <2>1. PICK c : c = worker'[w].camp
    OBVIOUS
  <2>2. c \in Campaigns /\ Past(c) /\ (worker'[w].action = "create" => worker'[w].copy = approved[c])
    BY <1>2, <2>1, Typed DEF CarriesOn, Takes, AsApproved
  <2>3. Past(c)' /\ approved'[c] = approved[c]
    BY <2>2 DEF Freezes
  <2>4. Past(worker[w].camp)'
    BY <2>1, <2>3 DEF Past
  <2> QED
    BY <2>1, <2>2, <2>3, <2>4
<1>3. ASSUME NEW o \in DOMAIN platform'
      PROVE  Past(o[1])' /\ content'[o] = approved'[o[1]]
  <2>1. o[1] \in Campaigns
    BY DEF CampTyped, CampaignsTypeOK, Objects
  <2>2. Past(o[1]) /\ content'[o] = approved[o[1]]
    BY DEF AsApproved
  <2> QED
    BY <2>1, <2>2 DEF Freezes
<1> QED
  BY <1>1, <1>2, <1>3 DEF AsApproved

LEMMA WorkerApproved ==
  ASSUME CampTyped, CampTyped', AsApproved, NEW w \in Workers, WorkerStep(w) \/ WorkerFault(w)
  PROVE  AsApproved'
<1> USE DEF rows, history
<1>0. Freezes
  BY WorkerFreezes
<1>1. /\ \A u \in Workers \ {w} : worker'[u] = worker[u]
      /\ CarriesOn(w) \/ Takes(w)
  <2>g. ASSUME Keeps(w), worker[w].pc \notin {"idle", "claim"}
        PROVE  /\ \A u \in Workers \ {w} : worker'[u] = worker[u]
               /\ CarriesOn(w)
    BY <2>g DEF Keeps, CarriesOn
  <2>e. ASSUME worker' = [worker EXCEPT ![w] = Idle]
        PROVE  /\ \A u \in Workers \ {w} : worker'[u] = worker[u]
               /\ CarriesOn(w)
    BY <2>e, EndKeeps DEF CarriesOn
  <2>1. CASE StartJob(w)
    <3>1. PICK j : worker' = [worker EXCEPT ![w] =
             [Idle EXCEPT !.pc = "claim", !.camp = j.camp, !.num = j.num, !.action = j.action,
                          !.attempt = j.attempt, !.held = TRUE]]
      BY <2>1 DEF StartJob
    <3>2. worker'[w].pc = "claim" /\ \A u \in Workers \ {w} : worker'[u] = worker[u]
      BY <3>1, Typed DEF Idle
    <3> QED
      BY <3>2 DEF CarriesOn
  <2>2. CASE Claim(w)
    <3>1. CASE ~ Claims(w)
      BY <2>e, <2>2, <3>1, ClaimForms DEF End
    <3>2. CASE Claims(w)
      <4>1. PICK c \in Campaigns : c = worker[w].camp
        BY Typed
      <4>2. /\ \A u \in Workers \ {w} : worker'[u] = worker[u]
            /\ worker'[w].camp = c /\ worker'[w].action = worker[w].action
            /\ worker'[w].copy = edition[c]
        BY <2>2, <3>2, <4>1, ClaimFields
      <4>3. Past(c)
        BY <3>2, <4>1, Typed, PastStatuses DEF Claims, EXPECTED, Actions, ARCHIVABLE_ON_PLATFORM
      <4> QED
        BY <4>1, <4>2, <4>3 DEF Takes, AsApproved
    <3> QED
      BY <3>1, <3>2
  <2>3. CASE \E p \in WorkerPc : Goto(w, p) /\ worker[w].pc \notin {"idle", "claim"}
    BY <2>g, <2>3, GotoKeeps
  <2>4. CASE worker' = [worker EXCEPT ![w] = Idle]
    BY <2>e, <2>4
  <2>5. CASE \E kind \in ErrorKinds, sent \in BOOLEAN : Catch(w, kind, sent) /\ worker[w].pc \notin {"idle", "claim"}
    BY <2>g, <2>5, CatchKeeps
  <2>6. CASE Ask(w)
    <3>1. CASE worker' = [worker EXCEPT ![w].pc = "tell", ![w].seen = platform[Object(w)]]
      <4>1. worker \in [Workers -> WorkerStates] /\ worker[w] \in WorkerStates
        BY Typed
      <4>2. Keeps(w)
        BY <3>1, <4>1 DEF Keeps, WorkerStates
      <4> QED
        BY <2>g, <2>6, <4>2 DEF Ask
    <3> QED
      BY <2>4, <2>6, <3>1 DEF Ask, End
  <2>7. CASE LoseLock(w)
    <3>1. worker \in [Workers -> WorkerStates] /\ worker[w] \in WorkerStates
      BY Typed
    <3>2. Keeps(w) /\ worker'[w].pc = worker[w].pc
      BY <2>7, <3>1 DEF Keeps, WorkerStates, LoseLock
    <3> QED
      BY <3>2 DEF Keeps, CarriesOn
  <2>8. CASE Prepare(w) \/ Send(w)
    <3>0. /\ worker[w].pc \notin {"idle", "claim"} /\ TRUE \in BOOLEAN /\ FALSE \in BOOLEAN
          /\ {"send", "failed", "error", "created", "changed"} \subseteq WorkerPc
          /\ {"rate_limited", "transient", "invalid_request", "auth", "unknown_outcome", "internal"} \subseteq ErrorKinds
      BY <2>8 DEF Prepare, Send, WorkerPc, ErrorKinds, ProviderErrors
    <3>1. CASE Prepare(w)
      <4>1. (\E p \in WorkerPc : Goto(w, p)) \/ (\E kind \in ErrorKinds : Catch(w, kind, FALSE))
        BY <3>0, <3>1 DEF Prepare
      <4> QED
        BY <2>3, <2>5, <3>0, <4>1
    <3>2. CASE Send(w)
      <4>1. (\E p \in WorkerPc : Goto(w, p)) \/ (\E kind \in ErrorKinds : Catch(w, kind, TRUE))
        BY <3>0, <3>2 DEF Send
      <4> QED
        BY <2>3, <2>5, <3>0, <4>1
    <3> QED
      BY <2>8, <3>1, <3>2
  <2>9. CASE Requeue(w) \/ WriteFlag(w)
    <3>1. worker[w].pc \notin {"idle", "claim"} /\ "enqueue" \in WorkerPc /\ "ask" \in WorkerPc
      BY <2>9 DEF Requeue, WriteFlag, WorkerPc
    <3>2. Goto(w, "enqueue") \/ Goto(w, "ask") \/ worker' = [worker EXCEPT ![w] = Idle]
      BY <2>9 DEF Requeue, WriteFlag, End
    <3> QED
      BY <2>3, <2>4, <3>1, <3>2
  <2>10. CASE TryFails(w)
    <3>1. PICK sent \in BOOLEAN : Catch(w, "internal", sent)
      BY <2>10 DEF TryFails
    <3>2. worker[w].pc \notin {"idle", "claim"} /\ "internal" \in ErrorKinds
      BY <2>10 DEF TryFails, ErrorKinds
    <3> QED
      BY <2>5, <3>1, <3>2
  <2> QED
    BY <2>1, <2>2, <2>4, <2>6, <2>7, <2>8, <2>9, <2>10
    DEF WorkerStep, WriteCreation, EnqueueRetry, WriteChange, Tell, WorkerFault, CallFails, Crash, End
<1>2. ASSUME NEW o \in DOMAIN platform'
      PROVE  \/ o \in DOMAIN platform /\ content'[o] = content[o]
             \/ Past(o[1]) /\ content'[o] = approved[o[1]]
  <2>1. CASE Send(w) /\ Effect(w)
    <3>1. CASE Create(w)
      <4>1. /\ worker[w].pc = "send" /\ worker[w].action = "create" /\ DOMAIN content = DOMAIN platform
            /\ o \in DOMAIN platform \cup {<<worker[w].camp, worker[w].mine>>}
            /\ content' = [p \in DOMAIN content \cup {<<worker[w].camp, worker[w].mine>>} |->
                             IF p = <<worker[w].camp, worker[w].mine>> THEN worker[w].copy ELSE content[p]]
        BY <2>1, <3>1, Typed DEF Send, Create, Histories
      <4>2. CASE o = <<worker[w].camp, worker[w].mine>>
        <5>1. o[1] = worker[w].camp /\ content'[o] = worker[w].copy
          BY <4>1, <4>2
        <5> QED
          BY <4>1, <5>1 DEF AsApproved
      <4>3. CASE o # <<worker[w].camp, worker[w].mine>>
        BY <4>1, <4>3
      <4> QED
        BY <4>2, <4>3
    <3>2. CASE SetStatus(w)
      BY <3>2 DEF SetStatus
    <3> QED
      BY <2>1, <3>1, <3>2 DEF Effect
  <2>2. CASE platform' = platform /\ content' = content
    BY <2>2
  <2> QED
    BY <2>1, <2>2 DEF WorkerStep, StartJob, Claim, Prepare, Send, WriteCreation, Requeue, EnqueueRetry,
       WriteChange, WriteFlag, Ask, Tell, Writes, Moves, WorkerFault, CallFails, TryFails, Crash, LoseLock
<1>3. \A u \in Workers : CarriesOn(u) \/ Takes(u)
  BY <1>1 DEF CarriesOn
<1> QED
  BY <1>0, <1>2, <1>3, ApprovedKept

LEMMA OthersApproved ==
  ASSUME CampaignsParameters, CampTyped, CampTyped', AsApproved,
         \/ \E k \in Calls : CallBegins(k) \/ CallContinues(k) \/ EnqueueLost(k)
         \/ SyncStep \/ AdsManager \/ RedisLoss \/ RecoverStalled \/ SweepRead \/ SweepEarly
              \/ SweepEnsure \/ RecoverStuck \/ RecoverEarly \/ UNCHANGED vars
  PROVE  AsApproved'
<1> USE DEF rows, history
<1>1. Freezes
  BY RequestFreezes, RestFreezes
<1>2. DOMAIN platform' = DOMAIN platform /\ content' = content
  BY DEF CallBegins, CallContinues, CreateCampaign,
     UpdateRead, Approve, Refuse, Activate, Stop, AgainRead, UpdateWrite, RetryWrite, BuryWrite,
     Enqueue, EnqueueLost, ApiOnly, SyncStep, SyncAsk, SyncTell, AdsManager, RedisLoss, RecoverStalled,
     SweepRead, SweepEarly, SweepEnsure, RecoverStuck, RecoverEarly, vars
<1>3. \A u \in Workers : CarriesOn(u)
  <2>1. CASE RedisLoss
    <3>1. \A u \in Workers : worker'[u] = [worker[u] EXCEPT !.held = FALSE] /\ worker[u] \in WorkerStates
      BY <2>1, Typed DEF RedisLoss
    <3> QED
      BY <3>1 DEF WorkerStates, CarriesOn
  <2>2. CASE worker' = worker
    BY <2>2 DEF CarriesOn
  <2> QED
    BY <2>1, <2>2 DEF CallBegins, CallContinues, CreateCampaign,
     UpdateRead, Approve, Refuse, Activate, Stop, AgainRead, UpdateWrite, RetryWrite, BuryWrite,
     Enqueue, EnqueueLost, ApiOnly, SyncStep, SyncAsk, SyncTell, AdsManager, RecoverStalled,
     SweepRead, SweepEarly, SweepEnsure, RecoverStuck, RecoverEarly, vars
<1> QED
  BY <1>1, <1>2, <1>3, ApprovedKept

LEMMA InitApproved ==
  ASSUME Init
  PROVE  AsApproved
<1>1. \A c \in Campaigns : edition[c] = 0 /\ approved[c] = 0
  BY DEF Init, Each
<1>2. \A w \in Workers : worker[w].pc = "idle"
  BY DEF Init, Idle
<1>3. ASSUME NEW o \in DOMAIN platform
      PROVE  Past(o[1]) /\ content[o] = approved[o[1]]
  <2>1. o \in Paused(status) \X {2} /\ content = [p \in Paused(status) \X {2} |-> 0]
    BY DEF Init
  <2>2. o[1] \in Campaigns /\ status[o[1]] = "paused" /\ content[o] = 0
    BY <2>1 DEF Paused
  <2> QED
    BY <1>1, <2>2 DEF Past, EDITABLE
<1> QED
  BY <1>1, <1>2, <1>3 DEF AsApproved

\* Approval is of what was approved (ads.campaigns.service.ts, update and approve; ads-writer.ts,
\* create): however edits, approvals and claims interleave, every object on the platform was made
\* from the edition that was approved last.
THEOREM CreatedAsApprovedAlways == ASSUME CampaignsParameters PROVE Spec => []CreatedAsApproved
<1> DEFINE I == CampTyped /\ AsApproved
<1>1. Init => I
  BY TypedInductive, InitApproved
<1>2. I /\ [Next]_vars => I'
  <2> SUFFICES ASSUME CampTyped, AsApproved, [Next]_vars PROVE CampTyped' /\ AsApproved'
    OBVIOUS
  <2>1. CampTyped'
    BY TypedInductive
  <2> QED
    BY <2>1, WorkerApproved, OthersApproved DEF Next
<1>3. I => CreatedAsApproved
  BY DEF AsApproved, CreatedAsApproved
<1> QED
  BY <1>1, <1>2, <1>3, PTL DEF Spec


-----------------------------------------------------------------------------
(* The spend is started as asked.                                          *)

\* What a step may do to the activations of campaign c: nothing more than there was; ask for
\* one; claim the one that is due; start the spend; or hand an attempt back to the queue.
NoneAdded(c) == \A n \in Nat : Carried(c, n)' => Carried(c, n)
AsksOne(c) ==
  /\ \A n \in Nat : Carried(c, n)' => Carried(c, n) \/ n = version'[c]
  /\ MayStart(c)' \subseteq MayStart(c) /\ starts'[c] = starts[c] /\ asked'[c] = asked[c] + 1
AddsNone(c) ==
  /\ NoneAdded(c) /\ MayStart(c)' \subseteq MayStart(c)
  /\ starts'[c] = starts[c] /\ asked'[c] = asked[c]
ClaimsDue(c, w) ==
  /\ NoneAdded(c) /\ Carried(c, version[c]) /\ version'[c] = version[c] + 1
  /\ MayStart(c)' = MayStart(c) \cup {w} /\ starts'[c] = starts[c] /\ asked'[c] = asked[c]
StartsOne(c, w) ==
  /\ NoneAdded(c) /\ w \in MayStart(c) /\ MayStart(c)' = MayStart(c) \ {w}
  /\ starts'[c] = starts[c] + 1 /\ asked'[c] = asked[c]
HandsBack(c, w) ==
  /\ \A n \in Nat : Carried(c, n)' => Carried(c, n) \/ n = worker[w].mine
  /\ w \in MayStart(c) /\ MayStart(c)' = MayStart(c) \ {w}
  /\ starts'[c] = starts[c] /\ asked'[c] = asked[c]
Activates(c) ==
  \/ AddsNone(c) \/ AsksOne(c)
  \/ \E w \in Workers : ClaimsDue(c, w) \/ StartsOne(c, w) \/ HandsBack(c, w)

\* A campaign's version never falls, and its row is never unwritten.
Ages(c) == /\ version[c] <= version'[c]
           /\ status'[c] = "unused" => status[c] = "unused" /\ version'[c] = version[c]

LEMMA DueNext ==
  ASSUME CampTyped, CampTyped', AsAsked, NEW c \in Campaigns, Ages(c)
  PROVE  /\ Due(c) \in {0, 1} /\ Due(c)' \in {0, 1}
         /\ NoneAdded(c) => Due(c)' <= Due(c)
         /\ NoneAdded(c) /\ version'[c] = version[c] + 1 => Due(c)' = 0
         /\ Carried(c, version[c]) => Due(c) = 1
<1>1. version[c] \in Nat /\ version'[c] \in Nat /\ version[c] <= version'[c]
  BY DEF CampTyped, CampaignsTypeOK, Ages
<1>2. \A n \in Nat : Carried(c, n) => n <= version[c]
  BY DEF AsAsked
<1>3. Due(c) \in {0, 1} /\ Due(c)' \in {0, 1} /\ (Carried(c, version[c]) => Due(c) = 1)
  BY DEF Due
<1>4. PICK n \in Nat : n = version'[c]
  BY <1>1
<1>5. Due(c)' = 1 => Carried(c, n)'
  BY <1>4 DEF Due, Carried, Bears
<1>6. ASSUME NoneAdded(c), Due(c)' = 1 PROVE Carried(c, n) /\ n = version[c] /\ Due(c) = 1
  <2>1. Carried(c, n)
    BY <1>5, <1>6 DEF NoneAdded
  <2>2. n = version[c]
    BY <1>1, <1>2, <1>4, <2>1
  <2> QED
    BY <1>3, <2>1, <2>2
<1> QED
  BY <1>1, <1>3, <1>4, <1>6

LEMMA ActivatesWithin ==
  ASSUME CampTyped, CampTyped', AsAsked, NEW c \in Campaigns, Ages(c), Activates(c)
  PROVE  /\ IsFiniteSet(MayStart(c)')
         /\ starts'[c] + Cardinality(MayStart(c)') + Due(c)' <= asked'[c]
<1>1. PICK S, T : S = MayStart(c) /\ T = MayStart(c)'
  OBVIOUS
<1>2. IsFiniteSet(S) /\ Cardinality(S) \in Nat /\ starts[c] + Cardinality(S) + Due(c) <= asked[c]
  BY <1>1, FS_CardinalityType DEF AsAsked
<1>3. starts[c] \in Nat /\ starts'[c] \in Nat /\ asked[c] \in Nat /\ asked'[c] \in Nat
  BY DEF CampTyped, Histories
<1>4. /\ Due(c) \in {0, 1} /\ Due(c)' \in {0, 1}
      /\ NoneAdded(c) => Due(c)' <= Due(c)
      /\ NoneAdded(c) /\ version'[c] = version[c] + 1 => Due(c)' = 0
      /\ Carried(c, version[c]) => Due(c) = 1
  BY DueNext
<1>5. ASSUME IsFiniteSet(T), Cardinality(T) \in Nat,
             starts'[c] + Cardinality(T) + Due(c)' <= asked'[c]
      PROVE  IsFiniteSet(MayStart(c)') /\ starts'[c] + Cardinality(MayStart(c)') + Due(c)' <= asked'[c]
  BY <1>1, <1>5
<1>6. CASE AddsNone(c) \/ AsksOne(c)
  <2>1. IsFiniteSet(T) /\ Cardinality(T) <= Cardinality(S) /\ Cardinality(T) \in Nat
    <3>1. T \subseteq S
      BY <1>1, <1>6 DEF AddsNone, AsksOne
    <3> QED
      BY <1>2, <3>1, FS_Subset, FS_CardinalityType
  <2>2. \/ starts'[c] = starts[c] /\ asked'[c] = asked[c] /\ Due(c)' <= Due(c)
        \/ starts'[c] = starts[c] /\ asked'[c] = asked[c] + 1
    BY <1>4, <1>6 DEF AddsNone, AsksOne
  <2>3. starts'[c] + Cardinality(T) + Due(c)' <= asked'[c]
    BY <1>2, <1>3, <1>4, <2>1, <2>2
  <2> QED
    BY <1>5, <2>1, <2>3
<1>7. ASSUME NEW w \in Workers, ClaimsDue(c, w)
      PROVE  IsFiniteSet(MayStart(c)') /\ starts'[c] + Cardinality(MayStart(c)') + Due(c)' <= asked'[c]
  <2>1. T = S \cup {w} /\ starts'[c] = starts[c] /\ asked'[c] = asked[c] /\ Due(c) = 1 /\ Due(c)' = 0
    BY <1>1, <1>4, <1>7 DEF ClaimsDue
  <2>2. IsFiniteSet(T) /\ Cardinality(T) \in {Cardinality(S), Cardinality(S) + 1}
    BY <1>2, <2>1, FS_AddElement
  <2>3. Cardinality(T) \in Nat /\ starts'[c] + Cardinality(T) + Due(c)' <= asked'[c]
    BY <1>2, <1>3, <2>1, <2>2
  <2> QED
    BY <1>5, <2>2, <2>3
<1>8. ASSUME NEW w \in Workers, StartsOne(c, w) \/ HandsBack(c, w)
      PROVE  IsFiniteSet(MayStart(c)') /\ starts'[c] + Cardinality(MayStart(c)') + Due(c)' <= asked'[c]
  <2>1. T = S \ {w} /\ w \in S
    BY <1>1, <1>8 DEF StartsOne, HandsBack
  <2>2. IsFiniteSet(T) /\ Cardinality(T) = Cardinality(S) - 1 /\ Cardinality(T) \in Nat
    BY <1>2, <2>1, FS_RemoveElement, FS_CardinalityType
  <2>3. \/ starts'[c] = starts[c] + 1 /\ asked'[c] = asked[c] /\ Due(c)' <= Due(c)
        \/ starts'[c] = starts[c] /\ asked'[c] = asked[c]
    BY <1>4, <1>8 DEF StartsOne, HandsBack
  <2>4. starts'[c] + Cardinality(T) + Due(c)' <= asked'[c]
    BY <1>2, <1>3, <1>4, <2>2, <2>3
  <2> QED
    BY <1>5, <2>2, <2>4
<1> QED
  BY <1>6, <1>7, <1>8 DEF Activates

\* What a worker past its claim may do: keep its campaign and version, or have just claimed.
Follows(w) ==
  worker'[w].pc \notin {"idle", "claim"} =>
    \/ /\ worker[w].pc \notin {"idle", "claim"}
       /\ worker'[w].camp = worker[w].camp /\ worker'[w].mine = worker[w].mine
    \/ worker'[w].mine = version'[worker'[w].camp]

LEMMA AskedKept ==
  ASSUME CampTyped, CampTyped', AsAsked, \A c \in Campaigns : Ages(c) /\ Activates(c),
         \A w \in Workers : Follows(w)
  PROVE  AsAsked'
<1>1. ASSUME NEW c \in Campaigns
      PROVE  /\ version[c] \in Nat /\ version'[c] \in Nat /\ version[c] <= version'[c]
             /\ status'[c] = "unused" => version'[c] = 0
  BY DEF CampTyped, CampaignsTypeOK, Ages, AsAsked
<1>2. ASSUME NEW c \in Campaigns, NEW n \in Nat, Carried(c, n)'
      PROVE  n <= version'[c]
  <2>1. CASE Carried(c, n)
    BY <1>1, <2>1 DEF AsAsked
  <2>2. CASE n = version'[c]
    BY <1>1, <2>2
  <2>3. ASSUME NEW w \in Workers, w \in MayStart(c), n = worker[w].mine
        PROVE  n <= version'[c]
    <3>1. n <= version[c]
      BY <2>3 DEF MayStart, AsAsked
    <3> QED
      BY <1>1, <3>1
  <2> QED
    BY <1>2, <2>1, <2>2, <2>3
    DEF Activates, AddsNone, AsksOne, ClaimsDue, StartsOne, HandsBack, NoneAdded
<1>3. ASSUME NEW w \in Workers, worker'[w].pc \notin {"idle", "claim"}
      PROVE  worker'[w].mine <= version'[worker'[w].camp]
  <2>1. worker'[w].camp \in Campaigns /\ worker'[w] \in WorkerStates
    BY DEF CampTyped, CampaignsTypeOK, WorkerStates
  <2>2. worker'[w].mine \in Nat
    BY <2>1 DEF WorkerStates
  <2>3. CASE worker'[w].mine = version'[worker'[w].camp]
    BY <2>2, <2>3
  <2>4. CASE /\ worker[w].pc \notin {"idle", "claim"}
             /\ worker'[w].camp = worker[w].camp /\ worker'[w].mine = worker[w].mine
    <3>1. worker'[w].mine <= version[worker'[w].camp]
      BY <2>4 DEF AsAsked
    <3> QED
      BY <1>1, <2>1, <2>2, <3>1
  <2> QED
    BY <1>3, <2>3, <2>4 DEF Follows
<1>4. \A c \in Campaigns : /\ IsFiniteSet(MayStart(c)')
                           /\ starts'[c] + Cardinality(MayStart(c)') + Due(c)' <= asked'[c]
  BY ActivatesWithin
<1> QED
  BY <1>1, <1>2, <1>3, <1>4 DEF AsAsked

\* A request that leaves no activation to be enqueued carries none.
LEMMA RequestCarries ==
  ASSUME CampTyped, NEW k \in Calls, NEW v, call' = [call EXCEPT ![k] = v],
         worker' = worker, queue' = queue
  PROVE  /\ v.pc # "enqueue" \/ v.action # "activate" => \A c \in Campaigns : NoneAdded(c)
         /\ \A c \in Campaigns : \A n \in Nat :
              Carried(c, n)' => Carried(c, n) \/ (v.pc = "enqueue" /\ v.action = "activate" /\ v.camp = c /\ v.num = n)
<1>1. /\ call'[k] = v /\ \A i \in Calls \ {k} : call'[i] = call[i]
  BY DEF CampTyped, CampaignsTypeOK
<1>2. ASSUME NEW c \in Campaigns, NEW n \in Nat, Carried(c, n)'
      PROVE  Carried(c, n) \/ (v.pc = "enqueue" /\ v.action = "activate" /\ v.camp = c /\ v.num = n)
  BY <1>1, <1>2 DEF Carried, Bears
<1> QED
  BY <1>2 DEF NoneAdded

\* No request moves a worker, nor a campaign's version back.
LEMMA RequestAges ==
  ASSUME CampTyped, AsAsked, NEW k \in Calls, CallBegins(k) \/ CallContinues(k) \/ EnqueueLost(k)
  PROVE  \A c \in Campaigns : Ages(c)
<1> USE DEF rows, history
<1>1. /\ status \in [Campaigns -> CampaignStatus \cup {"unused", "deleted"}]
      /\ version \in [Campaigns -> Nat] /\ \A c \in Campaigns : status[c] = "unused" => version[c] = 0
  BY Typed DEF AsAsked
<1>2. CASE CreateCampaign(k)
  <2>1. PICK c \in Campaigns, to \in {"draft", "pending_approval", "approved"} :
          /\ status[c] = "unused" /\ status' = [status EXCEPT ![c] = to]
          /\ version' = [version EXCEPT ![c] = IF to = "approved" THEN 1 ELSE 0]
    BY <1>2 DEF CreateCampaign
  <2> QED
    BY <1>1, <2>1 DEF Ages
<1>3. CASE UpdateWrite(k)
  <2>1. CASE UNCHANGED <<status, version>>
    BY <1>1, <2>1 DEF Ages
  <2>2. CASE status[call[k].camp] = call[k].was /\ Edit(k, call[k].camp, call[k].to)
    <3>1. PICK d, to : d = call[k].camp /\ to = call[k].to
      OBVIOUS
    <3>2. d \in Campaigns /\ to # "unused"
      <4>1. call[k] \in Requests /\ Requested(k) /\ call[k].pc = "update"
        BY <1>3, Typed DEF UpdateWrite, CampTyped
      <4> QED
        BY <3>1, <4>1 DEF Requests, Requested, EDITABLE
    <3>3. /\ status' = [status EXCEPT ![d] = to]
          /\ version' = [version EXCEPT ![d] = IF to = "approved" THEN @ + 1 ELSE @]
      BY <2>2, <3>1 DEF Edit
    <3> QED
      BY <1>1, <3>2, <3>3 DEF Ages
  <2> QED
    BY <1>3, <2>1, <2>2 DEF UpdateWrite
<1>4. CASE \E c \in Campaigns, to \in CampaignStatus \cup {"deleted"} :
             /\ status' = [status EXCEPT ![c] = to]
             /\ version' = version \/ version' = [version EXCEPT ![c] = @ + 1]
  <2>1. PICK c \in Campaigns, to \in CampaignStatus \cup {"deleted"} :
             /\ status' = [status EXCEPT ![c] = to]
             /\ version' = version \/ version' = [version EXCEPT ![c] = @ + 1]
    BY <1>4
  <2>2. to # "unused"
    BY DEF CampaignStatus
  <2> QED
    BY <1>1, <2>1, <2>2 DEF Ages
<1>5. {"approved", "rejected", "deleted", "archived"} \subseteq CampaignStatus \cup {"deleted"}
  BY DEF CampaignStatus
<1>6. CASE Approve(k)
  BY <1>4, <1>5, <1>6 DEF Approve
<1>7. CASE Refuse(k)
  BY <1>4, <1>5, <1>7 DEF Refuse
<1>8. CASE Activate(k) \/ Stop(k)
  <2>1. PICK c \in Campaigns, a \in Actions : Request(k, c, a) /\ status' = status
    BY <1>8 DEF Activate, Stop, Actions
  <2>2. /\ version' = [version EXCEPT ![c] = @ + 1] /\ status[c] \in EXPECTED[a]
    BY <2>1 DEF Request
  <2>3. status[c] # "unused"
    BY <2>2 DEF EXPECTED, Actions, ARCHIVABLE_ON_PLATFORM
  <2> QED
    BY <1>1, <2>1, <2>2, <2>3 DEF Ages
<1>9. CASE RetryWrite(k) \/ BuryWrite(k)
  <2>1. PICK c \in Campaigns : c = call[k].camp
    BY Typed DEF Requests
  <2>2. \/ UNCHANGED <<status, version>>
        \/ /\ \E to \in {"approved", "archived"} : status' = [status EXCEPT ![c] = to]
           /\ version' = version \/ version' = [version EXCEPT ![c] = @ + 1]
    BY <1>9, <2>1 DEF RetryWrite, BuryWrite
  <2>3. CASE UNCHANGED <<status, version>>
    BY <1>1, <2>3 DEF Ages
  <2> QED
    BY <1>4, <1>5, <2>2, <2>3
<1>10. CASE UNCHANGED <<status, version>>
  BY <1>1, <1>10 DEF Ages
<1> QED
  BY <1>2, <1>3, <1>6, <1>7, <1>8, <1>9, <1>10
  DEF CallBegins, CallContinues, UpdateRead, AgainRead, Enqueue, EnqueueLost

\* A request adds no activation but by asking for one.
LEMMA RequestAsked ==
  ASSUME CampTyped, CampTyped', AsAsked, NEW k \in Calls,
         CallBegins(k) \/ CallContinues(k) \/ EnqueueLost(k)
  PROVE  AsAsked'
<1> USE DEF rows, history
<1>1. worker' = worker /\ starts' = starts /\ \A c \in Campaigns : MayStart(c)' = MayStart(c)
  BY DEF CallBegins, CallContinues, CreateCampaign, UpdateRead, Approve, Refuse, Activate, Stop,
     AgainRead, UpdateWrite, RetryWrite, BuryWrite, Enqueue, EnqueueLost, ApiOnly, MayStart
<1>2. \A w \in Workers : Follows(w)
  BY <1>1 DEF Follows
<1>3. ASSUME asked' = asked, \A c \in Campaigns : NoneAdded(c)
      PROVE  AsAsked'
  <2>1. \A c \in Campaigns : Ages(c) /\ Activates(c)
    BY <1>1, <1>3, RequestAges DEF Activates, AddsNone
  <2> QED
    BY <1>2, <2>1, AskedKept
<1>4. ASSUME NEW v, call' = [call EXCEPT ![k] = v], v.pc # "enqueue" \/ v.action # "activate",
             queue' = queue, asked' = asked
      PROVE  AsAsked'
  BY <1>1, <1>3, <1>4, RequestCarries
<1>5. NoCall.pc = "idle"
  BY DEF NoCall
<1>6. ASSUME NEW c, NEW n, NEW a
      PROVE  LET v == [NoCall EXCEPT !.pc = "enqueue", !.camp = c, !.num = n, !.action = a]
             IN  v.pc = "enqueue" /\ v.camp = c /\ v.num = n /\ v.action = a
  BY DEF NoCall
<1>7. ASSUME NEW c, NEW n, NEW a, Then(k, c, n, a), a # "activate", queue' = queue, asked' = asked
      PROVE  AsAsked'
  <2> DEFINE v == [NoCall EXCEPT !.pc = "enqueue", !.camp = c, !.num = n, !.action = a]
  <2>1. call' = [call EXCEPT ![k] = v] /\ v.action # "activate"
    BY <1>6, <1>7 DEF Then
  <2> HIDE DEF v
  <2> QED
    BY <1>4, <1>7, <2>1
<1>8. ASSUME Done(k), queue' = queue, asked' = asked
      PROVE  AsAsked'
  BY <1>4, <1>5, <1>8 DEF Done
<1>9. CASE CreateCampaign(k) \/ UpdateWrite(k) \/ Approve(k) \/ RetryWrite(k) \/ BuryWrite(k) \/ EnqueueLost(k)
  <2>1. queue' = queue /\ asked' = asked
    BY <1>9 DEF CreateCampaign, UpdateWrite, Approve, RetryWrite, BuryWrite, EnqueueLost, ApiOnly
  <2>2. Done(k) \/ \E c, n : Then(k, c, n, "create")
    BY <1>9 DEF CreateCampaign, UpdateWrite, Edit, Approve, RetryWrite, BuryWrite, EnqueueLost
  <2> QED
    BY <1>7, <1>8, <2>1, <2>2
<1>10. CASE UpdateRead(k) \/ AgainRead(k)
  <2>1. queue' = queue /\ asked' = asked
    BY <1>10 DEF UpdateRead, AgainRead, ApiOnly
  <2>2. CASE UpdateRead(k)
    <3>1. PICK c, was, to : call' = [call EXCEPT ![k] = [NoCall EXCEPT !.pc = "update", !.camp = c,
                                                                      !.was = was, !.to = to]]
      BY <2>2 DEF UpdateRead
    <3>2. [NoCall EXCEPT !.pc = "update", !.camp = c, !.was = was, !.to = to].pc # "enqueue"
      BY DEF NoCall
    <3> QED
      BY <1>4, <2>1, <3>1, <3>2
  <2>3. CASE AgainRead(k)
    <3>1. PICK c \in Campaigns, p \in {"retry", "bury"} :
            call' = [call EXCEPT ![k] = [NoCall EXCEPT !.pc = p, !.camp = c, !.was = status[c]]]
      BY <2>3 DEF AgainRead
    <3>2. [NoCall EXCEPT !.pc = p, !.camp = c, !.was = status[c]].pc # "enqueue"
      BY DEF NoCall
    <3> QED
      BY <1>4, <2>1, <3>1, <3>2
  <2> QED
    BY <1>10, <2>2, <2>3
<1>11. CASE Refuse(k)
  <2>1. queue' = queue /\ asked' = asked /\ call' = call
    BY <1>11 DEF Refuse, ApiOnly
  <2>2. \A c \in Campaigns : NoneAdded(c)
    BY <1>1, <2>1 DEF NoneAdded, Carried, Bears
  <2> QED
    BY <1>3, <2>1, <2>2
<1>12. CASE Stop(k)
  <2>1. queue' = queue /\ asked' = asked
    BY <1>12 DEF Stop, ApiOnly
  <2>2. \E c, n, a : a # "activate" /\ Then(k, c, n, a)
    BY <1>12 DEF Stop, Request
  <2> QED
    BY <1>7, <2>1, <2>2
<1>13. CASE Activate(k)
  <2>1. PICK c \in Campaigns : Request(k, c, "activate") /\ asked' = [asked EXCEPT ![c] = @ + 1]
    BY <1>13 DEF Activate
  <2>2. queue' = queue /\ version \in [Campaigns -> Nat] /\ asked \in [Campaigns -> Nat]
    BY <1>13, Typed DEF Activate, ApiOnly, Histories
  <2> DEFINE v == [NoCall EXCEPT !.pc = "enqueue", !.camp = c, !.num = version[c] + 1, !.action = "activate"]
  <2>3. call' = [call EXCEPT ![k] = v] /\ version' = [version EXCEPT ![c] = @ + 1]
    BY <2>1 DEF Request, Then
  <2>4. v.camp = c /\ v.num = version'[c]
    BY <1>6, <2>2, <2>3
  <2> HIDE DEF v
  <2>5. \A d \in Campaigns : \A n \in Nat : Carried(d, n)' => Carried(d, n) \/ (d = c /\ n = version'[c])
    BY <1>1, <2>2, <2>3, <2>4, RequestCarries
  <2>6. Activates(c) /\ \A d \in Campaigns \ {c} : Activates(d)
    BY <1>1, <2>1, <2>2, <2>5 DEF Activates, AddsNone, AsksOne, NoneAdded
  <2> QED
    BY <1>2, <2>6, RequestAges, AskedKept
<1>14. CASE Enqueue(k)
  <2>1. PICK c, n, a : c = call[k].camp /\ n = call[k].num /\ a = call[k].action
    OBVIOUS
  <2>2. /\ call[k].pc = "enqueue" /\ queue' = With(queue, c, n, a, 1) /\ asked' = asked
        /\ call' = [call EXCEPT ![k] = NoCall]
    BY <1>14, <2>1 DEF Enqueue, Done
  <2>3. \A j \in queue' : j \in queue \/ (j.camp = c /\ j.num = n /\ j.action = a)
    BY <2>2, AddedJob
  <2>4. call'[k] = NoCall /\ \A i \in Calls \ {k} : call'[i] = call[i]
    BY <2>2, Typed
  <2>5. \A d \in Campaigns : NoneAdded(d)
    BY <1>1, <1>5, <2>1, <2>2, <2>3, <2>4 DEF NoneAdded, Carried, Bears
  <2> QED
    BY <1>3, <2>2, <2>5
<1> QED
  BY <1>9, <1>10, <1>11, <1>12, <1>13, <1>14 DEF CallBegins, CallContinues

\* The jobs of a step of w are the ones there were, or the retry that w hands back.
From(w) ==
  \A j \in queue' :
    \/ \E i \in queue : i.camp = j.camp /\ i.num = j.num /\ i.action = j.action
    \/ /\ worker[w].pc = "enqueue" /\ j.camp = worker[w].camp
       /\ j.num = worker[w].mine /\ j.action = worker[w].action

LEMMA WorkerCarries ==
  ASSUME NEW w \in Workers, \A u \in Workers \ {w} : worker'[u] = worker[u], call' = call, From(w),
         NEW c, NEW n, Carried(c, n)'
  PROVE  Carried(c, n) \/ Bears(w, c, n)'
<1>1. CASE \E j \in queue' : j.camp = c /\ j.num = n /\ j.action = "activate"
  <2>1. PICK j \in queue' : j.camp = c /\ j.num = n /\ j.action = "activate"
    BY <1>1
  <2>2. CASE \E i \in queue : i.camp = j.camp /\ i.num = j.num /\ i.action = j.action
    BY <2>1, <2>2 DEF Carried
  <2>3. CASE /\ worker[w].pc = "enqueue" /\ j.camp = worker[w].camp
             /\ j.num = worker[w].mine /\ j.action = worker[w].action
    BY <2>1, <2>3 DEF Carried, Bears
  <2> QED
    BY <2>2, <2>3 DEF From
<1>2. CASE \E k \in Calls : /\ call'[k].pc = "enqueue" /\ call'[k].action = "activate"
                            /\ call'[k].camp = c /\ call'[k].num = n
  BY <1>2 DEF Carried
<1>3. CASE \E u \in Workers : Bears(u, c, n)'
  BY <1>3 DEF Carried, Bears
<1> QED
  BY <1>1, <1>2, <1>3 DEF Carried

\* A worker that ends, or carries on without handing anything back, adds no activation.
GoesOn(w) ==
  \/ worker'[w].pc = "idle"
  \/ /\ Keeps(w) /\ worker'[w].pc \notin {"claim", "enqueue"}
     /\ worker'[w].pc \in {"prepare", "send"} => worker[w].pc \in {"prepare", "send"}
  \/ Keeps(w) /\ worker[w].action # "activate"

LEMMA QuietWorker ==
  ASSUME NEW w \in Workers, \A u \in Workers \ {w} : worker'[u] = worker[u], call' = call, From(w),
         GoesOn(w), NEW c \in Campaigns
  PROVE  /\ NoneAdded(c) /\ MayStart(c)' \subseteq MayStart(c)
         /\ starts'[c] = starts[c] /\ asked'[c] = asked[c] => Activates(c)
<1>1. \A n \in Nat : ~ Bears(w, c, n)'
  BY DEF Bears, GoesOn, Keeps
<1>2. NoneAdded(c)
  BY <1>1, WorkerCarries DEF NoneAdded
<1>3. MayStart(c)' \subseteq MayStart(c)
  BY DEF MayStart, GoesOn, Keeps
<1> QED
  BY <1>2, <1>3 DEF Activates, AddsNone

\* No step of a worker, nor of the sync or the maintenance, moves a version back.
LEMMA OthersAge ==
  ASSUME CampaignsParameters, CampTyped,
         \/ \E w \in Workers : WorkerStep(w) \/ WorkerFault(w)
         \/ SyncStep \/ AdsManager \/ RedisLoss \/ RecoverStalled \/ SweepRead \/ SweepEarly
              \/ SweepEnsure \/ RecoverStuck \/ RecoverEarly \/ UNCHANGED vars
  PROVE  \A c \in Campaigns : Ages(c)
<1> USE DEF rows, history
<1>1. /\ status \in [Campaigns -> CampaignStatus \cup {"unused", "deleted"}]
      /\ version \in [Campaigns -> Nat]
  BY Typed
<1>2. ASSUME version' = version, NEW c \in Campaigns, NEW to \in CampaignStatus,
             status' = [status EXCEPT ![c] = to]
      PROVE  \A d \in Campaigns : Ages(d)
  <2>1. to # "unused"
    BY DEF CampaignStatus
  <2> QED
    BY <1>1, <1>2, <2>1 DEF Ages
<1>3. ASSUME version' = version, status' = status PROVE \A d \in Campaigns : Ages(d)
  BY <1>1, <1>3 DEF Ages
<1>4. ASSUME NEW w \in Workers, WorkerStep(w) PROVE \A d \in Campaigns : Ages(d)
  <2>0. PICK c \in Campaigns : c = worker[w].camp
    BY Typed
  <2>1. CASE Claim(w)
    <3>1. CASE ~ Claims(w)
      BY <1>3, <2>1, <3>1, ClaimForms
    <3>2. CASE Claims(w)
      <4>1. /\ status' = [status EXCEPT ![c] = ClaimTo(w)] /\ ClaimTo(w) \in CampaignStatus
            /\ version' = [version EXCEPT ![c] = @ + 1]
        BY <2>0, <2>1, <3>2, ClaimForms
      <4>2. ClaimTo(w) # "unused"
        BY <4>1 DEF CampaignStatus
      <4> QED
        BY <1>1, <4>1, <4>2 DEF Ages
    <3> QED
      BY <3>1, <3>2
  <2>2. CASE WriteCreation(w) \/ Requeue(w) \/ WriteChange(w) \/ Tell(w)
    <3>1. version' = version
      BY <2>2 DEF WriteCreation, Requeue, WriteChange, Tell, Writes
    <3>2. {"paused", "failed", "unconfirmed", "approved", "active", "archived", "completed"} \subseteq CampaignStatus
      BY DEF CampaignStatus
    <3>3. TARGET[worker[w].action] \in {"paused", "active", "archived"}
      BY Typed DEF TARGET, Actions
    <3>4. \/ status' = status
          \/ \E to \in {"paused", "failed", "unconfirmed", "approved", "active", "archived", "completed"} :
               status' = [status EXCEPT ![c] = to]
      BY <2>0, <2>2, <3>3, TellForms DEF WriteCreation, Requeue, WriteChange
    <3> QED
      BY <1>2, <1>3, <3>1, <3>2, <3>4
  <2> QED
    BY <1>3, <1>4, <2>1, <2>2 DEF WorkerStep, StartJob, Prepare, Send, EnqueueRetry, WriteFlag, Ask, Moves
<1>5. CASE SyncTell
  <2>1. version' = version
    BY <1>5 DEF SyncTell
  <2>2. {"paused", "active", "completed", "archived", "failed"} \subseteq CampaignStatus
    BY DEF CampaignStatus
  <2>3. PICK c \in Campaigns : c = sync.camp
    BY <1>5, SyncForms
  <2>4. \/ status' = status
        \/ \E to \in {"paused", "active", "completed", "archived", "failed"} :
             status' = [status EXCEPT ![c] = to]
    BY <1>5, <2>3, SyncForms
  <2> QED
    BY <1>2, <1>3, <2>1, <2>2, <2>4
<1>6. CASE RecoverStuck \/ RecoverEarly
  <2>1. version' = version /\ \E early : status' = Recovered(status, early)
    BY <1>6 DEF RecoverStuck, RecoverEarly
  <2>2. \A c \in Campaigns : status'[c] = status[c] \/ status'[c] = "unconfirmed"
    BY <2>1 DEF Recovered
  <2> QED
    BY <1>1, <2>1, <2>2 DEF Ages
<1> QED
  BY <1>3, <1>4, <1>5, <1>6 DEF WorkerFault, CallFails, TryFails, Crash, LoseLock, SyncStep, SyncAsk,
     AdsManager, RedisLoss, RecoverStalled, SweepRead, SweepEarly, SweepEnsure, vars

\* A step that leaves every worker where it is, and adds no activation to the queue.
LEMMA SameAsked ==
  ASSUME CampTyped, CampTyped', AsAsked, \A c \in Campaigns : Ages(c),
         call' = call, starts' = starts, asked' = asked,
         \A j \in queue' : \/ \E i \in queue : i.camp = j.camp /\ i.num = j.num /\ i.action = j.action
                           \/ j.action # "activate",
         \A w \in Workers : /\ worker'[w].pc = worker[w].pc /\ worker'[w].camp = worker[w].camp
                            /\ worker'[w].num = worker[w].num /\ worker'[w].action = worker[w].action
                            /\ worker'[w].mine = worker[w].mine
  PROVE  AsAsked'
<1>1. ASSUME NEW c \in Campaigns PROVE Activates(c)
  <2>1. ASSUME NEW n \in Nat, Carried(c, n)' PROVE Carried(c, n)
    BY <2>1 DEF Carried, Bears
  <2>2. MayStart(c)' = MayStart(c)
    BY DEF MayStart
  <2> QED
    BY <2>1, <2>2 DEF Activates, AddsNone, NoneAdded
<1>2. \A w \in Workers : Follows(w)
  BY DEF Follows
<1> QED
  BY <1>1, <1>2, AskedKept

LEMMA FromQueue ==
  ASSUME CampTyped, NEW w \in Workers,
         queue' = queue \/ queue' = Ended(w)
           \/ (worker[w].pc = "enqueue" /\ queue' = With(Ended(w), worker[w].camp, worker[w].mine,
                                                        worker[w].action, worker[w].attempt + 1))
  PROVE  From(w)
<1>0. \A j \in Ended(w) : \E i \in queue : i.camp = j.camp /\ i.num = j.num /\ i.action = j.action
  BY Typed, EndedJobs
<1>1. CASE queue' = queue \/ queue' = Ended(w)
  BY <1>0, <1>1 DEF From
<1>2. CASE worker[w].pc = "enqueue" /\ queue' = With(Ended(w), worker[w].camp, worker[w].mine,
                                                    worker[w].action, worker[w].attempt + 1)
  <2>1. PICK q, c, n, a, k : /\ q = Ended(w) /\ c = worker[w].camp /\ n = worker[w].mine
                             /\ a = worker[w].action /\ k = worker[w].attempt + 1
    OBVIOUS
  <2>2. \A j \in queue' : j \in q \/ (j.camp = c /\ j.num = n /\ j.action = a)
    BY <1>2, <2>1, AddedJob
  <2> QED
    BY <1>0, <1>2, <2>1, <2>2 DEF From
<1> QED
  BY <1>1, <1>2

\* A worker goes on, and neither the queue's activations nor the spend have grown.
LEMMA GoesOnAsked ==
  ASSUME CampTyped, CampTyped', AsAsked, \A c \in Campaigns : Ages(c), NEW w \in Workers,
         \A u \in Workers \ {w} : worker'[u] = worker[u], call' = call, From(w), GoesOn(w), Follows(w),
         starts' = starts, asked' = asked
  PROVE  AsAsked'
<1>1. \A c \in Campaigns : Activates(c)
  BY QuietWorker
<1>2. \A u \in Workers : Follows(u)
  BY DEF Follows
<1> QED
  BY <1>1, <1>2, AskedKept

LEMMA ClaimAsked ==
  ASSUME CampTyped, CampTyped', AsAsked, \A c \in Campaigns : Ages(c), NEW w \in Workers, Claim(w)
  PROVE  AsAsked'
<1> USE DEF history
<1>0. worker[w].pc = "claim" /\ call' = call /\ starts' = starts /\ asked' = asked
  BY DEF Claim, Writes
<1>1. CASE ~ Claims(w)
  <2>1. worker' = [worker EXCEPT ![w] = Idle] /\ queue' = Ended(w)
    BY <1>1, ClaimForms DEF End
  <2>2. worker'[w].pc = "idle" /\ \A u \in Workers \ {w} : worker'[u] = worker[u]
    BY <2>1, EndKeeps
  <2> QED
    BY <1>0, <2>1, <2>2, FromQueue, GoesOnAsked DEF GoesOn, Follows
<1>2. CASE Claims(w)
  <2>1. PICK c \in Campaigns : c = worker[w].camp
    BY Typed
  <2>2. /\ \A u \in Workers \ {w} : worker'[u] = worker[u]
        /\ worker'[w].pc = "prepare" /\ worker'[w].camp = c
        /\ worker'[w].action = worker[w].action /\ worker'[w].mine = version[c] + 1
    BY <1>2, <2>1, ClaimFields
  <2>3. version' = [version EXCEPT ![c] = @ + 1] /\ queue' = queue /\ version \in [Campaigns -> Nat]
    BY <1>2, <2>1, ClaimForms, Typed
  <2>4. From(w) /\ \A d \in Campaigns, n \in Nat : ~ Bears(w, d, n)'
    BY <2>2, <2>3, FromQueue DEF Bears
  <2>5. \A d \in Campaigns : NoneAdded(d)
    BY <1>0, <2>2, <2>4, WorkerCarries DEF NoneAdded
  <2>6. worker'[w].mine = version'[c] /\ Follows(w) /\ \A u \in Workers : Follows(u)
    BY <2>1, <2>2, <2>3 DEF Follows
  <2>7. ASSUME NEW d \in Campaigns PROVE Activates(d)
    <3>1. CASE d = c /\ worker[w].action = "activate"
      <4>1. Bears(w, c, version[c])
        BY <1>0, <1>2, <2>1, <3>1 DEF Bears, Claims
      <4>2. Carried(c, version[c]) /\ MayStart(c)' = MayStart(c) \cup {w}
        BY <2>2, <3>1, <4>1 DEF Carried, MayStart
      <4> QED
        BY <1>0, <2>3, <2>5, <3>1, <4>2 DEF Activates, ClaimsDue
    <3>2. CASE ~ (d = c /\ worker[w].action = "activate")
      <4>1. MayStart(d)' \subseteq MayStart(d)
        BY <2>1, <2>2, <3>2 DEF MayStart
      <4> QED
        BY <1>0, <2>5, <4>1 DEF Activates, AddsNone
    <3> QED
      BY <3>1, <3>2
  <2> QED
    BY <2>6, <2>7, AskedKept
<1> QED
  BY <1>1, <1>2

\* An attempt at an activation is handed back, or takes effect.
LEMMA SpentAsked ==
  ASSUME CampTyped, CampTyped', AsAsked, \A c \in Campaigns : Ages(c), NEW w \in Workers,
         Keeps(w), call' = call, queue' = queue, asked' = asked,
         worker[w].pc \in {"prepare", "send"}, worker[w].action = "activate",
         \/ worker'[w].pc = "enqueue" /\ starts' = starts
         \/ /\ worker'[w].pc \notin {"claim", "enqueue", "prepare", "send"}
            /\ starts' = [starts EXCEPT ![worker[w].camp] = @ + 1]
  PROVE  AsAsked'
<1>1. PICK c \in Campaigns : c = worker[w].camp
  BY Typed
<1>2. From(w) /\ \A u \in Workers \ {w} : worker'[u] = worker[u]
  BY FromQueue DEF Keeps
<1>3. \A u \in Workers : Follows(u)
  BY DEF Follows, Keeps
<1>4. w \in MayStart(c) /\ MayStart(c)' = MayStart(c) \ {w}
      /\ \A d \in Campaigns \ {c} : MayStart(d)' = MayStart(d)
  BY <1>1 DEF MayStart, Keeps
<1>5. \A d \in Campaigns, n \in Nat :
        Bears(w, d, n)' => d = c /\ worker'[w].pc = "enqueue" /\ n = worker[w].mine
  BY <1>1 DEF Bears, Keeps
<1>6. \A d \in Campaigns, n \in Nat :
        Carried(d, n)' => Carried(d, n) \/ (d = c /\ worker'[w].pc = "enqueue" /\ n = worker[w].mine)
  BY <1>2, <1>5, WorkerCarries
<1>7. starts \in [Campaigns -> Nat]
  BY Typed DEF Histories
<1>8. Activates(c) /\ \A d \in Campaigns \ {c} : Activates(d)
  <2>1. \A d \in Campaigns \ {c} : NoneAdded(d) /\ starts'[d] = starts[d]
    BY <1>1, <1>6, <1>7 DEF NoneAdded
  <2>2. \A d \in Campaigns \ {c} : Activates(d)
    BY <1>4, <2>1 DEF Activates, AddsNone
  <2>3. HandsBack(c, w) \/ StartsOne(c, w)
    BY <1>1, <1>4, <1>6, <1>7 DEF HandsBack, StartsOne, NoneAdded
  <2> QED
    BY <2>2, <2>3 DEF Activates
<1> QED
  BY <1>3, <1>8, AskedKept

\* A worker that keeps its job: it hands an activation back only before its effect is known.
LEMMA KeepsAsked ==
  ASSUME CampTyped, CampTyped', AsAsked, \A c \in Campaigns : Ages(c), NEW w \in Workers,
         Keeps(w), worker[w].pc \notin {"idle", "claim"}, call' = call, queue' = queue,
         starts' = starts, asked' = asked,
         \/ worker[w].action # "activate"
         \/ /\ worker'[w].pc \notin {"claim", "enqueue"}
            /\ worker'[w].pc \in {"prepare", "send"} => worker[w].pc \in {"prepare", "send"}
         \/ worker[w].pc \in {"prepare", "send"} /\ worker'[w].pc = "enqueue"
  PROVE  AsAsked'
<1>1. From(w) /\ Follows(w) /\ \A u \in Workers \ {w} : worker'[u] = worker[u]
  BY FromQueue DEF Keeps, Follows
<1>2. GoesOn(w) \/ (/\ worker[w].action = "activate"
                    /\ worker[w].pc \in {"prepare", "send"} /\ worker'[w].pc = "enqueue")
  BY DEF GoesOn
<1> QED
  BY <1>1, <1>2, GoesOnAsked, SpentAsked

LEMMA CatchAsked ==
  ASSUME CampTyped, CampTyped', AsAsked, \A c \in Campaigns : Ages(c), NEW w \in Workers,
         NEW kind \in ErrorKinds, NEW sent \in BOOLEAN, Catch(w, kind, sent),
         worker[w].pc \in {"prepare", "send"} \/ (/\ worker[w].pc \in {"created", "changed"}
                                                  /\ kind = "internal" /\ sent = TRUE),
         call' = call, queue' = queue, starts' = starts, asked' = asked
  PROVE  AsAsked'
<1>1. Keeps(w) /\ CaughtAt(w, kind)
  BY CatchKeeps
<1>2. CASE worker[w].action # "activate"
  BY <1>1, <1>2, KeepsAsked
<1>3. CASE worker[w].action = "activate" /\ worker[w].pc \in {"prepare", "send"}
  <2>1. worker'[w].pc \in {"enqueue", "error", "flag", "prepare"}
    BY <1>1, <1>3 DEF CaughtAt
  <2> QED
    BY <1>1, <1>3, <2>1, KeepsAsked
<1>4. CASE worker[w].action = "activate" /\ kind = "internal" /\ sent = TRUE /\ worker[w].pc \in {"created", "changed"}
  <2>1. Goto(w, "flag") /\ "flag" \in WorkerPc
    BY <1>4, DoubtGoes DEF WorkerPc
  <2>2. worker'[w].pc = "flag"
    BY <2>1, GotoKeeps
  <2> QED
    BY <1>1, <1>4, <2>2, KeepsAsked
<1> QED
  BY <1>2, <1>3, <1>4

LEMMA SendAsked ==
  ASSUME CampTyped, CampTyped', AsAsked, \A c \in Campaigns : Ages(c), NEW w \in Workers, Send(w)
  PROVE  AsAsked'
<1> USE DEF rows, history
<1>0. /\ worker[w].pc = "send" /\ queue' = queue /\ call' = call
      /\ {"auth", "rate_limited", "invalid_request", "transient", "unknown_outcome", "internal"} \subseteq ErrorKinds
      /\ TRUE \in BOOLEAN /\ {"created", "changed", "unconfirmed", "flag"} \subseteq WorkerPc
  BY DEF Send, Moves, ErrorKinds, ProviderErrors, WorkerPc
<1>1. CASE \E kind \in ErrorKinds : Catch(w, kind, TRUE) /\ UNCHANGED history
  BY <1>0, <1>1, CatchAsked
<1>2. ASSUME Effect(w), NEW p \in {"created", "changed", "unconfirmed", "flag"}, Goto(w, p)
      PROVE  AsAsked'
  <2>1. Keeps(w) /\ worker'[w].pc = p /\ asked' = asked
    BY <1>0, <1>2, GotoKeeps DEF Effect
  <2>2. CASE worker[w].action = "activate"
    <3>1. starts' = [starts EXCEPT ![worker[w].camp] = @ + 1]
      BY <1>2, <2>2 DEF Effect, Create, SetStatus
    <3> QED
      BY <1>0, <2>1, <2>2, <3>1, SpentAsked
  <2>3. CASE worker[w].action # "activate"
    <3>1. starts' = starts
      BY <1>2, <2>3 DEF Effect, Create, SetStatus
    <3> QED
      BY <1>0, <2>1, <2>3, <3>1, KeepsAsked
  <2> QED
    BY <2>2, <2>3
<1>3. CASE Effect(w) /\ Goto(w, IF worker[w].action = "create" THEN "created" ELSE "changed")
  BY <1>2, <1>3
<1>4. CASE Effect(w) /\ \E kind \in {"unknown_outcome", "internal"} : Catch(w, kind, TRUE)
  <2>1. Goto(w, IF worker[w].action = "create" THEN "unconfirmed" ELSE "flag")
    BY <1>4, DoubtGoes
  <2> QED
    BY <1>2, <1>4, <2>1
<1> QED
  BY <1>0, <1>1, <1>3, <1>4 DEF Send

LEMMA WorkerAsked ==
  ASSUME CampaignsParameters, CampTyped, CampTyped', AsAsked, NEW w \in Workers,
         WorkerStep(w) \/ WorkerFault(w)
  PROVE  AsAsked'
<1> USE DEF rows, history
<1>0. \A c \in Campaigns : Ages(c)
  BY OthersAge
<1>1. ASSUME call' = call, starts' = starts, asked' = asked, worker' = [worker EXCEPT ![w] = Idle],
             queue' = queue \/ queue' = Ended(w)
               \/ (worker[w].pc = "enqueue" /\ queue' = With(Ended(w), worker[w].camp, worker[w].mine,
                                                            worker[w].action, worker[w].attempt + 1))
      PROVE  AsAsked'
  <2>1. worker'[w].pc = "idle" /\ \A u \in Workers \ {w} : worker'[u] = worker[u]
    BY <1>1, EndKeeps
  <2>2. From(w)
    BY <1>1, FromQueue
  <2> QED
    BY <1>0, <1>1, <2>1, <2>2, GoesOnAsked DEF GoesOn, Follows
<1>2. ASSUME call' = call, starts' = starts, asked' = asked, End(w) PROVE AsAsked'
  BY <1>1, <1>2 DEF End
<1>3. ASSUME call' = call, starts' = starts, asked' = asked, queue' = queue,
             worker[w].pc \notin {"idle", "claim"},
             NEW p \in WorkerPc, Goto(w, p), p \notin {"claim", "enqueue", "prepare"} \/ worker[w].action # "activate",
             p = "send" => worker[w].pc = "prepare"
      PROVE  AsAsked'
  BY <1>0, <1>3, GotoKeeps, KeepsAsked
<1>4. CASE StartJob(w)
  <2>1. PICK j \in queue :
          /\ queue' = Marked(queue, j.camp, j.num, "active")
          /\ worker' = [worker EXCEPT ![w] =
               [Idle EXCEPT !.pc = "claim", !.camp = j.camp, !.num = j.num, !.action = j.action,
                            !.attempt = j.attempt, !.held = TRUE]]
    BY <1>4 DEF StartJob
  <2>2. /\ \A u \in Workers \ {w} : worker'[u] = worker[u]
        /\ worker'[w].pc = "claim" /\ worker'[w].camp = j.camp /\ worker'[w].num = j.num
        /\ worker'[w].action = j.action
    BY <2>1, Typed DEF Idle
  <2>3. PICK c, n : c = j.camp /\ n = j.num
    OBVIOUS
  <2>4. From(w)
    <3>1. queue' = Marked(queue, c, n, "active") /\ queue \subseteq Jobs
      BY <2>1, <2>3, Typed
    <3>2. \A i \in queue' : \E h \in queue : h.camp = i.camp /\ h.num = i.num /\ h.action = i.action
      BY <3>1, MarkedJobs
    <3> QED
      BY <3>2 DEF From
  <2>5. /\ call' = call /\ starts' = starts /\ asked' = asked
        /\ \A u \in Workers : Follows(u)
    BY <1>4, <2>2 DEF StartJob, Follows
  <2>6. ASSUME NEW d \in Campaigns PROVE Activates(d)
    <3>1. \A m \in Nat : Bears(w, d, m)' => Carried(d, m)
      BY <2>1, <2>2 DEF Bears, Carried
    <3>2. NoneAdded(d)
      BY <2>2, <2>4, <2>5, <3>1, WorkerCarries DEF NoneAdded
    <3>3. MayStart(d)' \subseteq MayStart(d)
      BY <2>2 DEF MayStart
    <3> QED
      BY <2>5, <3>2, <3>3 DEF Activates, AddsNone
  <2> QED
    BY <1>0, <2>5, <2>6, AskedKept
<1>5. CASE Prepare(w)
  <2>1. /\ worker[w].pc = "prepare" /\ queue' = queue /\ call' = call /\ starts' = starts /\ asked' = asked
        /\ {"rate_limited", "transient", "invalid_request"} \subseteq ErrorKinds /\ FALSE \in BOOLEAN
        /\ {"send", "failed", "error"} \subseteq WorkerPc
    BY <1>5 DEF Prepare, Moves, ErrorKinds, ProviderErrors, WorkerPc
  <2>2. \/ Goto(w, "send") \/ Goto(w, "failed") \/ Goto(w, "error")
        \/ \E kind \in ErrorKinds : Catch(w, kind, FALSE)
    BY <1>5, <2>1 DEF Prepare
  <2> QED
    BY <1>0, <1>3, <2>1, <2>2, CatchAsked
<1>6. CASE Requeue(w)
  <2>1. /\ worker[w].pc = "requeue" /\ worker[w].action = "create" /\ "enqueue" \in WorkerPc
        /\ call' = call /\ starts' = starts /\ asked' = asked
    BY <1>6, Typed DEF Requeue, Writes, Placed, WorkerPc
  <2>2. End(w) \/ (Goto(w, "enqueue") /\ queue' = queue)
    BY <1>6 DEF Requeue
  <2> QED
    BY <1>2, <1>3, <2>1, <2>2
<1>7. CASE WriteFlag(w)
  <2>1. "ask" \in WorkerPc
    BY DEF WorkerPc
  <2> QED
    BY <1>3, <1>7, <2>1 DEF WriteFlag, Writes
<1>8. CASE Ask(w)
  <2>1. CASE worker' = [worker EXCEPT ![w].pc = "tell", ![w].seen = platform[Object(w)]] /\ queue' = queue
    <3>1. worker \in [Workers -> WorkerStates] /\ worker[w] \in WorkerStates
      BY Typed
    <3>2. Keeps(w) /\ worker'[w].pc = "tell"
      BY <2>1, <3>1 DEF Keeps, WorkerStates
    <3> QED
      BY <1>0, <1>8, <2>1, <3>2, KeepsAsked DEF Ask
  <2> QED
    BY <1>2, <1>8, <2>1 DEF Ask
<1>9. CASE TryFails(w)
  <2>1. "internal" \in ErrorKinds
    BY DEF ErrorKinds
  <2>2. PICK sent \in BOOLEAN : sent = (worker[w].pc # "prepare")
    OBVIOUS
  <2>3. Catch(w, "internal", sent) /\ (worker[w].pc = "prepare" \/ sent = TRUE)
    BY <1>9, <2>2 DEF TryFails
  <2> QED
    BY <1>0, <1>9, <2>1, <2>3, CatchAsked DEF TryFails
<1>10. CASE LoseLock(w)
  <2>1. worker \in [Workers -> WorkerStates] /\ worker[w] \in WorkerStates
    BY Typed
  <2>2. \A u \in Workers : /\ worker'[u].pc = worker[u].pc /\ worker'[u].camp = worker[u].camp
                           /\ worker'[u].num = worker[u].num /\ worker'[u].action = worker[u].action
                           /\ worker'[u].mine = worker[u].mine
    BY <1>10, <2>1 DEF LoseLock, WorkerStates
  <2> QED
    BY <1>0, <1>10, <2>2, SameAsked DEF LoseLock
<1>11. CASE EnqueueRetry(w) \/ Crash(w)
  BY <1>1, <1>11 DEF EnqueueRetry, Crash
<1>12. CASE WriteCreation(w) \/ WriteChange(w) \/ Tell(w) \/ CallFails(w)
  BY <1>2, <1>12 DEF WriteCreation, WriteChange, Tell, CallFails, Writes
<1> QED
  BY <1>0, <1>4, <1>5, <1>6, <1>7, <1>8, <1>9, <1>10, <1>11, <1>12, ClaimAsked, SendAsked
  DEF WorkerStep, WorkerFault

LEMMA RestAsked ==
  ASSUME CampaignsParameters, CampTyped, CampTyped', AsAsked,
         SyncStep \/ AdsManager \/ RedisLoss \/ RecoverStalled \/ SweepRead \/ SweepEarly
           \/ SweepEnsure \/ RecoverStuck \/ RecoverEarly \/ UNCHANGED vars
  PROVE  AsAsked'
<1> USE DEF rows, history
<1>0. \A c \in Campaigns : Ages(c)
  BY OthersAge
<1>1. call' = call /\ starts' = starts /\ asked' = asked
  BY DEF SyncStep, SyncAsk, SyncTell, AdsManager, RedisLoss, RecoverStalled, SweepRead, SweepEarly,
     SweepEnsure, RecoverStuck, RecoverEarly, vars
<1>2. \A w \in Workers : /\ worker'[w].pc = worker[w].pc /\ worker'[w].camp = worker[w].camp
                         /\ worker'[w].num = worker[w].num /\ worker'[w].action = worker[w].action
                         /\ worker'[w].mine = worker[w].mine
  <2>1. CASE RedisLoss
    <3>1. \A w \in Workers : worker'[w] = [worker[w] EXCEPT !.held = FALSE] /\ worker[w] \in WorkerStates
      BY <2>1, Typed DEF RedisLoss
    <3> QED
      BY <3>1 DEF WorkerStates
  <2>2. CASE worker' = worker
    BY <2>2
  <2> QED
    BY <2>1, <2>2 DEF SyncStep, SyncAsk, SyncTell, AdsManager, RecoverStalled, SweepRead, SweepEarly,
       SweepEnsure, RecoverStuck, RecoverEarly, vars
<1>3. ASSUME NEW j \in queue'
      PROVE  \/ \E i \in queue : i.camp = j.camp /\ i.num = j.num /\ i.action = j.action
             \/ j.action # "activate"
  <2>1. CASE RecoverStalled
    <3>1. PICK h \in queue :
            queue' \in {Marked(queue, h.camp, h.num, "waiting"), Finished(queue, h.camp, h.num)}
      BY <2>1 DEF RecoverStalled
    <3>2. PICK c, n : c = h.camp /\ n = h.num
      OBVIOUS
    <3>3. queue' \in {Marked(queue, c, n, "waiting"), Finished(queue, c, n)} /\ queue \subseteq Jobs
      BY <3>1, <3>2, Typed
    <3> QED
      BY <3>3, MarkedJobs, FinishedJobs
  <2>2. CASE SweepEnsure
    <3>1. PICK o \in orphans :
            queue' = With({i \in queue : ~ (i.camp = o[1] /\ i.num = o[2] /\ i.st = "finished")},
                          o[1], o[2], "create", 1)
      BY <2>2 DEF SweepEnsure
    <3>2. PICK q, c, n : /\ q = {i \in queue : ~ (i.camp = o[1] /\ i.num = o[2] /\ i.st = "finished")}
                         /\ c = o[1] /\ n = o[2]
      OBVIOUS
    <3>3. j \in q \/ (j.camp = c /\ j.num = n /\ j.action = "create")
      BY <3>1, <3>2, AddedJob
    <3> QED
      BY <3>2, <3>3
  <2>3. CASE queue' = {} \/ queue' = queue
    BY <2>3
  <2> QED
    BY <2>1, <2>2, <2>3 DEF SyncStep, SyncAsk, SyncTell, AdsManager, RedisLoss, SweepRead, SweepEarly,
       RecoverStuck, RecoverEarly, vars
<1> QED
  BY <1>0, <1>1, <1>2, <1>3, SameAsked

LEMMA InitAsked ==
  ASSUME CampTyped, Init
  PROVE  AsAsked
<1>1. /\ \A w \in Workers : worker[w].pc = "idle"
      /\ \A k \in Calls : call[k].pc = "idle"
      /\ queue = {}
      /\ \A c \in Campaigns : starts[c] = 0 /\ asked[c] = 0
  BY DEF Init, Each, Idle, NoCall
<1>2. \A c \in Campaigns : status[c] = "unused" => version[c] = 0
  BY DEF Init
<1>3. \A c, n : ~ Carried(c, n)
  BY <1>1 DEF Carried, Bears
<1>4. ASSUME NEW c \in Campaigns
      PROVE  IsFiniteSet(MayStart(c)) /\ starts[c] + Cardinality(MayStart(c)) + Due(c) <= asked[c]
  <2>1. MayStart(c) = {} /\ Due(c) = 0
    BY <1>1, <1>3 DEF MayStart, Due
  <2> QED
    BY <1>1, <2>1, FS_EmptySet
<1> QED
  BY <1>1, <1>2, <1>3, <1>4 DEF AsAsked

\* Nothing spends without a person (ads-writer.ts, invariants 1 and 2; campaign-state.ts, claim):
\* the spend of a campaign is started at most once for every activation that an admin asked for,
\* whatever jobs are delivered twice, retried, lost or overtaken by another request.
THEOREM StartedAsAskedAlways == ASSUME CampaignsParameters PROVE Spec => []StartedAsAsked
<1> DEFINE I == CampTyped /\ AsAsked
<1>1. Init => I
  BY TypedInductive, InitAsked
<1>2. I /\ [Next]_vars => I'
  <2> SUFFICES ASSUME CampTyped, AsAsked, [Next]_vars PROVE CampTyped' /\ AsAsked'
    OBVIOUS
  <2>1. CampTyped'
    BY TypedInductive
  <2> QED
    BY <2>1, RequestAsked, WorkerAsked, RestAsked DEF Next
<1>3. I => StartedAsAsked
  <2> SUFFICES ASSUME CampTyped, AsAsked, NEW c \in Campaigns PROVE starts[c] <= asked[c]
    BY DEF StartedAsAsked
  <2>1. starts[c] \in Nat /\ asked[c] \in Nat /\ Due(c) \in {0, 1}
    BY DEF CampTyped, Histories, Due
  <2>2. Cardinality(MayStart(c)) \in Nat /\ starts[c] + Cardinality(MayStart(c)) + Due(c) <= asked[c]
    BY FS_CardinalityType DEF AsAsked
  <2> QED
    BY <2>1, <2>2
<1> QED
  BY <1>1, <1>2, <1>3, PTL DEF Spec
=============================================================================
