----------------------------- MODULE Campaigns -----------------------------
(***************************************************************************)
(* Ad campaigns: the API's campaigns service, the ads writer that creates  *)
(* them and starts and stops their spend, the sync that reads the          *)
(* platform, and the maintenance that repairs what they lose.              *)
(*                                                                         *)
(* Every request bumps the campaign's version, which its job carries and   *)
(* the claim compares and bumps again.  Content is a number, the edition,  *)
(* that an edit raises; validation, accounts and ceilings are a free       *)
(* choice.  An object on the platform is named by the version its creator  *)
(* claimed.  Time is abstract, as in Replies.                              *)
(***************************************************************************)
EXTENDS Naturals, FiniteSets, RetryPolicy

CONSTANTS
  Campaigns,    \* ids of ad_campaigns rows
  Workers,      \* job slots of the ads-write workers
  Calls,        \* API requests that may be in progress at once
  MaxMoves      \* bound: things people do, and faults, in a behaviour

VARIABLES
  status,       \* ad_campaigns.status, or "unused" / "deleted"
  version,      \* ad_campaigns.version
  external,     \* ad_campaigns.external_id: the object recorded, or 0
  flag,         \* ad_campaigns.error_code is status_unconfirmed
  edition,      \* the content of the row
  queue,        \* the BullMQ jobs that exist
  worker,       \* of each worker: where it is and its variables
  call,         \* of each API request
  orphans,      \* jobs of the rows the sweep has read and not yet handled
  sync,         \* the sync: the row it has read and what the platform said
  platform,     \* of each object on the platform: its status there
  left,         \* moves left
  confirmed,    \* history: retries a user confirmed after checking the ads manager
  stale,        \* history: retries written over a campaign that had been created meanwhile
  asked,        \* history: activations requested
  starts,       \* history: times a worker started the spend
  approved,     \* history: the edition approved last
  content       \* history: the edition each object was made from

rows    == <<status, version, external, flag, edition>>
history == <<confirmed, stale, asked, starts, approved, content>>
vars    == <<rows, queue, worker, call, orphans, sync, platform, left, history>>

CampaignStatus == {"draft", "pending_approval", "approved", "rejected", "creating", "paused",
                   "active", "completed", "archived", "failed", "unconfirmed"}
EDITABLE == {"draft", "pending_approval", "rejected"}
ARCHIVABLE_ON_PLATFORM == {"paused", "active", "completed", "failed", "unconfirmed"}
Actions == {"create", "activate", "pause", "archive"}

\* The statuses each request may start from.
EXPECTED == [create |-> {"approved"}, activate |-> {"paused"}, pause |-> {"active"},
             archive |-> ARCHIVABLE_ON_PLATFORM]
\* The status each asks of the platform.
TARGET == [create |-> "paused", activate |-> "active", pause |-> "paused", archive |-> "archived"]
\* What the platform then reports: an activated object may have to be reviewed first, and
\* where the platform cannot archive, an archive pauses.
REPORTED == [create |-> {"paused"}, activate |-> {"active", "in_review"}, pause |-> {"paused"},
             archive |-> {"archived", "paused"}]

\* A job, whose id is the campaign and the version of its request.
Jobs == [camp : Campaigns, num : Nat, action : Actions, attempt : Nat,
         st : {"waiting", "active", "finished"}]
WorkerPc == {"idle", "claim", "prepare", "send", "created", "failed", "unconfirmed", "requeue",
             "enqueue", "changed", "error", "flag", "ask", "tell"}
PlatformStatus == {"active", "paused", "archived", "rejected", "in_review"}
\* A worker: its job, the version it claimed and the status and content it then read,
\* alreadyRefreshed, the platform's answer, and whether it holds its job's lock.
WorkerStates ==
  [pc : WorkerPc, camp : Campaigns, num : Nat, action : Actions, attempt : Nat, mine : Nat,
   was : CampaignStatus, copy : Nat, fresh : BOOLEAN, seen : PlatformStatus, held : BOOLEAN]
\* A request: the status it read, the one it will write, and the job to enqueue.
Requests == [pc : {"idle", "update", "retry", "bury", "enqueue"}, camp : Campaigns,
             was : CampaignStatus, to : CampaignStatus, num : Nat, action : Actions]
\* The sync: the version, status and flag it read with the row, and the answer.
SyncStates == [pc : {"idle", "tell"}, camp : Campaigns, ver : Nat,
               was : CampaignStatus, flag : BOOLEAN, seen : PlatformStatus]

SomeCampaign == CHOOSE c \in Campaigns : TRUE
Idle == [pc |-> "idle", camp |-> SomeCampaign, num |-> 0, action |-> "create", attempt |-> 0,
         mine |-> 0, was |-> "draft", copy |-> 0, fresh |-> FALSE, seen |-> "paused", held |-> FALSE]
NoCall == [pc |-> "idle", camp |-> SomeCampaign, was |-> "draft", to |-> "draft", num |-> 0,
           action |-> "create"]
NoSync == [pc |-> "idle", camp |-> SomeCampaign, ver |-> 0, was |-> "draft", flag |-> FALSE,
           seen |-> "paused"]

-----------------------------------------------------------------------------
(* BullMQ: adding a job whose id exists does nothing. *)

With(q, c, n, a, k) ==
  IF \E j \in q : j.camp = c /\ j.num = n THEN q
  ELSE q \cup {[camp |-> c, num |-> n, action |-> a, attempt |-> k, st |-> "waiting"]}
Marked(q, c, n, st) == {IF j.camp = c /\ j.num = n THEN [j EXCEPT !.st = st] ELSE j : j \in q}
\* A job that has ended, in one attempt, is finished either way.  It is kept where its id may
\* be added again: a creation's, by the sweep.  Any other request has a version of its own.
Finished(q, c, n) == {j \in Marked(q, c, n, "finished") : j.st = "finished" => j.action = "create"}
\* The queue once w's job has ended.
Ended(w) == IF worker[w].held THEN Finished(queue, worker[w].camp, worker[w].num) ELSE queue

-----------------------------------------------------------------------------
(* ads.campaigns.service.ts *)

Begin(k) == call[k].pc = "idle" /\ left > 0 /\ left' = left - 1
\* The row has been written: the request's job is handed to the worker.
Then(k, c, n, a) ==
  call' = [call EXCEPT ![k] = [NoCall EXCEPT !.pc = "enqueue", !.camp = c, !.num = n, !.action = a]]
Done(k) == call' = [call EXCEPT ![k] = NoCall]
ApiOnly == UNCHANGED <<queue, worker, orphans, sync, platform>>

\* create and update: a draft, a submission, or an admin's, which is approved at once.
CreateCampaign(k) ==
  /\ Begin(k)
  /\ \E c \in Campaigns, to \in {"draft", "pending_approval", "approved"} :
       /\ status[c] = "unused"
       /\ status' = [status EXCEPT ![c] = to]
       /\ version' = [version EXCEPT ![c] = IF to = "approved" THEN 1 ELSE 0]
       /\ IF to = "approved" THEN Then(k, c, 1, "create") ELSE Done(k)
       /\ approved' = IF to = "approved" THEN [approved EXCEPT ![c] = edition[c]] ELSE approved
  /\ ApiOnly /\ UNCHANGED <<external, flag, edition, confirmed, stale, asked, starts, content>>

UpdateRead(k) ==
  /\ Begin(k)
  /\ \E c \in Campaigns : \E to \in {status[c], "draft", "pending_approval", "approved"} :
       /\ status[c] \in EDITABLE
       /\ call' = [call EXCEPT ![k] = [NoCall EXCEPT !.pc = "update", !.camp = c,
                                                     !.was = status[c], !.to = to]]
  /\ ApiOnly /\ UNCHANGED <<rows, history>>

\* The edit k makes of c.
Edit(k, c, to) ==
  /\ status' = [status EXCEPT ![c] = to]
  /\ edition' = [edition EXCEPT ![c] = @ + 1]
  /\ version' = [version EXCEPT ![c] = IF to = "approved" THEN @ + 1 ELSE @]
  /\ approved' = IF to = "approved" THEN [approved EXCEPT ![c] = edition[c] + 1] ELSE approved
  /\ IF to = "approved" THEN Then(k, c, version[c] + 1, "create") ELSE Done(k)

\* Mutant of UpdateWrite: the UPDATE does not compare the status with the one read.
UpdateWriteAnyStatus(k) ==
  /\ call[k].pc = "update"
  /\ Edit(k, call[k].camp, call[k].to)
  /\ ApiOnly
  /\ UNCHANGED <<external, flag, left, confirmed, stale, asked, starts, content>>

\* update: the UPDATE, conditional on the status read.
UpdateWrite(k) ==
  /\ call[k].pc = "update"
  /\ IF status[call[k].camp] = call[k].was THEN Edit(k, call[k].camp, call[k].to)
     ELSE Done(k) /\ UNCHANGED <<status, edition, version, approved>>
  /\ ApiOnly
  /\ UNCHANGED <<external, flag, left, confirmed, stale, asked, starts, content>>

\* approve, reject and remove: each one UPDATE or DELETE conditional on the status.
Approve(k) ==
  /\ Begin(k)
  /\ \E c \in Campaigns :
       /\ status[c] = "pending_approval"
       /\ status' = [status EXCEPT ![c] = "approved"]
       /\ version' = [version EXCEPT ![c] = @ + 1]
       /\ approved' = [approved EXCEPT ![c] = edition[c]]
       /\ Then(k, c, version[c] + 1, "create")
  /\ ApiOnly /\ UNCHANGED <<external, flag, edition, confirmed, stale, asked, starts, content>>
Refuse(k) ==
  /\ Begin(k)
  /\ \E c \in Campaigns :
       \/ status[c] = "pending_approval" /\ status' = [status EXCEPT ![c] = "rejected"]
       \/ status[c] \in {"draft", "rejected"} /\ status' = [status EXCEPT ![c] = "deleted"]
  /\ ApiOnly /\ UNCHANGED <<version, external, flag, edition, call, history>>

\* activate, pause and the archive of a campaign that is on the platform: conditional on
\* the status and version read, so the read is no step of its own.
Request(k, c, a) ==
  /\ status[c] \in EXPECTED[a] /\ (a = "archive" => external[c] # 0)
  /\ version' = [version EXCEPT ![c] = @ + 1]
  /\ flag' = [flag EXCEPT ![c] = FALSE]
  /\ Then(k, c, version[c] + 1, a)
Activate(k) ==
  /\ Begin(k)
  /\ \E c \in Campaigns : Request(k, c, "activate") /\ asked' = [asked EXCEPT ![c] = @ + 1]
  /\ ApiOnly
  /\ UNCHANGED <<status, external, edition, confirmed, stale, starts, approved, content>>
Stop(k) ==
  /\ Begin(k)
  /\ \E c \in Campaigns, a \in {"pause", "archive"} : Request(k, c, a)
  /\ ApiOnly /\ UNCHANGED <<status, external, edition, history>>

\* retry (of an unconfirmed campaign with confirmNotCreated), and the archive of a campaign
\* that never got to the platform: what they read.
AgainRead(k) ==
  /\ Begin(k)
  /\ \E c \in Campaigns, p \in {"retry", "bury"} :
       /\ status[c] \in {"failed", "unconfirmed"} /\ external[c] = 0
       /\ call' = [call EXCEPT ![k] = [NoCall EXCEPT !.pc = p, !.camp = c, !.was = status[c]]]
  /\ ApiOnly /\ UNCHANGED <<rows, history>>

\* Mutant of RetryWrite: the UPDATE does not compare the status with the one read.
RetryWriteAnyStatus(k) ==
  LET c == call[k].camp IN
  /\ call[k].pc = "retry"
  /\ status' = [status EXCEPT ![c] = "approved"]
  /\ version' = [version EXCEPT ![c] = @ + 1]
  /\ flag' = [flag EXCEPT ![c] = FALSE]
  /\ Then(k, c, version[c] + 1, "create")
  /\ confirmed' = IF call[k].was = "unconfirmed" THEN [confirmed EXCEPT ![c] = @ + 1] ELSE confirmed
  /\ ApiOnly /\ UNCHANGED <<external, edition, left, stale, asked, starts, approved, content>>

\* retry: the UPDATE, conditional on the status read (and on nothing else).
RetryWrite(k) ==
  LET c == call[k].camp IN
  /\ call[k].pc = "retry"
  /\ IF status[c] = call[k].was
     THEN /\ status' = [status EXCEPT ![c] = "approved"]
          /\ version' = [version EXCEPT ![c] = @ + 1]
          /\ flag' = [flag EXCEPT ![c] = FALSE]
          /\ Then(k, c, version[c] + 1, "create")
          /\ confirmed' = IF status[c] = "unconfirmed" THEN [confirmed EXCEPT ![c] = @ + 1] ELSE confirmed
          /\ stale' = IF status[c] = "failed" /\ external[c] # 0 THEN [stale EXCEPT ![c] = @ + 1] ELSE stale
     ELSE Done(k) /\ UNCHANGED <<status, version, flag, confirmed, stale>>
  /\ ApiOnly /\ UNCHANGED <<external, edition, left, asked, starts, approved, content>>

BuryWrite(k) ==
  LET c == call[k].camp IN
  /\ call[k].pc = "bury"
  /\ status' = IF status[c] = call[k].was THEN [status EXCEPT ![c] = "archived"] ELSE status
  /\ Done(k)
  /\ ApiOnly /\ UNCHANGED <<version, external, flag, edition, left, history>>

Enqueue(k) ==
  /\ call[k].pc = "enqueue"
  /\ queue' = With(queue, call[k].camp, call[k].num, call[k].action, 1)
  /\ Done(k)
  /\ UNCHANGED <<rows, worker, orphans, sync, platform, left, history>>
\* The API dies between its commit and the enqueue, or Redis refuses it.
EnqueueLost(k) ==
  /\ call[k].pc = "enqueue"
  /\ left > 0 /\ left' = left - 1
  /\ Done(k)
  /\ ApiOnly /\ UNCHANGED <<rows, history>>

-----------------------------------------------------------------------------
(* ads-writer.ts and campaign-state.ts *)

Goto(w, p) == worker' = [worker EXCEPT ![w].pc = p]
End(w) == worker' = [worker EXCEPT ![w] = Idle] /\ queue' = Ended(w)
\* The rest of an action of a worker that only moves on.
Moves == UNCHANGED <<rows, queue, call, orphans, sync, left>>
\* The rest of an action that writes the row.
Writes == UNCHANGED <<edition, call, orphans, sync, platform, left, history>>
\* w's row is at the version w claimed, and (for a creation) still being created.
Mine(w) == version[worker[w].camp] = worker[w].mine
MineCreating(w) == Mine(w) /\ status[worker[w].camp] = "creating"
Object(w) == <<worker[w].camp, external[worker[w].camp]>>

StartJob(w) ==
  /\ worker[w].pc = "idle"
  /\ \E j \in queue :
       /\ j.st = "waiting"
       /\ queue' = Marked(queue, j.camp, j.num, "active")
       /\ worker' = [worker EXCEPT ![w] =
            [Idle EXCEPT !.pc = "claim", !.camp = j.camp, !.num = j.num, !.action = j.action,
                         !.attempt = j.attempt, !.held = TRUE]]
  /\ UNCHANGED <<rows, call, orphans, sync, platform, left, history>>

\* AdCampaignState.claim; a job that finds nothing to claim is done.
Claim(w) ==
  LET c == worker[w].camp
      to == IF worker[w].action = "create" THEN "creating" ELSE status[c]
  IN
  /\ worker[w].pc = "claim"
  /\ IF status[c] \in EXPECTED[worker[w].action] /\ version[c] = worker[w].num
     THEN /\ status' = [status EXCEPT ![c] = to]
          /\ version' = [version EXCEPT ![c] = @ + 1]
          /\ worker' = [worker EXCEPT ![w].pc = "prepare", ![w].mine = version[c] + 1,
                                      ![w].was = to, ![w].copy = edition[c]]
          /\ UNCHANGED queue
     ELSE End(w) /\ UNCHANGED <<status, version>>
  /\ Writes /\ UNCHANGED <<external, flag>>

\* Where a decision leads: a creation's outcome is written to its status, that of a
\* change to its error.
Catch(w, kind, sent) ==
  LET decision == Decide(kind, worker[w].attempt, sent, worker[w].fresh)
      creates  == worker[w].action = "create"
  IN
  CASE decision = "retry" -> Goto(w, IF creates THEN "requeue" ELSE "enqueue")
    [] decision \in {"fail", "revoked"} -> Goto(w, IF creates THEN "failed" ELSE "error")
    [] decision = "unconfirmed" -> Goto(w, IF creates THEN "unconfirmed" ELSE "flag")
    [] decision = "refresh_token" -> worker' = [worker EXCEPT ![w].pc = "prepare", ![w].fresh = TRUE]

\* run, create, changeStatus up to the call: the account, the media, the ceiling and the
\* draft are checked again and a token is fetched.
Prepare(w) ==
  /\ worker[w].pc = "prepare"
  /\ \/ /\ worker[w].action = "create" \/ external[worker[w].camp] # 0
        /\ Goto(w, "send")
     \/ Goto(w, IF worker[w].action = "create" THEN "failed" ELSE "error")
     \/ \E kind \in {"rate_limited", "transient", "invalid_request"} : Catch(w, kind, FALSE)
  /\ Moves /\ UNCHANGED <<platform, history>>

\* The call takes effect: an object is created, paused, or the recorded one's status is
\* set, which an archived object refuses, and a rejected one too, but for its archive.
Create(w) ==
  LET o == <<worker[w].camp, worker[w].mine>> IN
  /\ worker[w].action = "create"
  /\ platform' = [p \in DOMAIN platform \cup {o} |-> IF p = o THEN "paused" ELSE platform[p]]
  /\ content' = [p \in DOMAIN content \cup {o} |-> IF p = o THEN worker[w].copy ELSE content[p]]
  /\ UNCHANGED starts
SetStatus(w) ==
  /\ worker[w].action # "create"
  /\ Object(w) \in DOMAIN platform
  /\ platform[Object(w)] \in {"active", "paused", "in_review"}
       \cup (IF worker[w].action = "archive" THEN {"rejected"} ELSE {})
  /\ \E st \in REPORTED[worker[w].action] : platform' = [platform EXCEPT ![Object(w)] = st]
  /\ starts' = IF worker[w].action = "activate" THEN [starts EXCEPT ![worker[w].camp] = @ + 1] ELSE starts
  /\ UNCHANGED content
Effect(w) == (Create(w) \/ SetStatus(w)) /\ UNCHANGED <<confirmed, stale, asked, approved>>

\* createCampaign, setStatus or archiveCampaign.  An answer that cannot tell leaves open
\* whether it took effect.
Send(w) ==
  /\ worker[w].pc = "send"
  /\ \/ Effect(w) /\ Goto(w, IF worker[w].action = "create" THEN "created" ELSE "changed")
     \/ /\ \E kind \in {"auth", "rate_limited", "invalid_request", "transient"} : Catch(w, kind, TRUE)
        /\ UNCHANGED <<platform, history>>
     \/ /\ \E kind \in {"unknown_outcome", "internal"} : Catch(w, kind, TRUE)
        /\ Effect(w) \/ UNCHANGED <<platform, history>>
  /\ Moves

\* Mutant of WriteCreation: an external id is recorded whatever came of the creation.
WriteCreationNamed(w) ==
  LET c == worker[w].camp
      p == worker[w].pc
  IN
  /\ p \in {"created", "failed", "unconfirmed"}
  /\ IF MineCreating(w)
     THEN /\ status' = [status EXCEPT ![c] = IF p = "created" THEN "paused" ELSE p]
          /\ external' = [external EXCEPT ![c] = worker[w].mine]
          /\ flag' = [flag EXCEPT ![c] = FALSE]
     ELSE UNCHANGED <<status, external, flag>>
  /\ End(w) /\ Writes /\ UNCHANGED version

\* created, failed, unconfirmed: only while the row is being created at w's version.
WriteCreation(w) ==
  LET c == worker[w].camp
      p == worker[w].pc
  IN
  /\ p \in {"created", "failed", "unconfirmed"}
  /\ IF MineCreating(w)
     THEN /\ status' = [status EXCEPT ![c] = IF p = "created" THEN "paused" ELSE p]
          /\ external' = IF p = "created" THEN [external EXCEPT ![c] = worker[w].mine] ELSE external
          /\ flag' = [flag EXCEPT ![c] = FALSE]
     ELSE UNCHANGED <<status, external, flag>>
  /\ End(w) /\ Writes /\ UNCHANGED version

\* requeueCreate.
Requeue(w) ==
  /\ worker[w].pc = "requeue"
  /\ IF MineCreating(w)
     THEN /\ status' = [status EXCEPT ![worker[w].camp] = "approved"]
          /\ Goto(w, "enqueue") /\ UNCHANGED queue
     ELSE End(w) /\ UNCHANGED status
  /\ Writes /\ UNCHANGED <<version, external, flag>>

\* The retry carries the version w claimed.
EnqueueRetry(w) ==
  /\ worker[w].pc = "enqueue"
  /\ worker' = [worker EXCEPT ![w] = Idle]
  /\ queue' = With(Ended(w), worker[w].camp, worker[w].mine, worker[w].action, worker[w].attempt + 1)
  /\ UNCHANGED <<rows, call, orphans, sync, platform, left, history>>

\* statusApplied, and statusError: the status stays and an error explains.
WriteChange(w) ==
  LET c == worker[w].camp IN
  /\ worker[w].pc \in {"changed", "error"}
  /\ status' = IF Mine(w) /\ worker[w].pc = "changed"
               THEN [status EXCEPT ![c] = TARGET[worker[w].action]] ELSE status
  /\ flag' = IF Mine(w) THEN [flag EXCEPT ![c] = FALSE] ELSE flag
  /\ End(w) /\ Writes /\ UNCHANGED <<version, external>>

\* unconfirmedStatus: the flag, then one read of the platform, whose failure ends it.
WriteFlag(w) ==
  /\ worker[w].pc = "flag"
  /\ flag' = IF Mine(w) THEN [flag EXCEPT ![worker[w].camp] = TRUE] ELSE flag
  /\ Goto(w, "ask")
  /\ Writes /\ UNCHANGED <<queue, status, version, external>>
Ask(w) ==
  /\ worker[w].pc = "ask"
  /\ \/ worker' = [worker EXCEPT ![w].pc = "tell", ![w].seen = platform[Object(w)]] /\ UNCHANGED queue
     \/ End(w)
  /\ UNCHANGED <<rows, call, orphans, sync, platform, left, history>>

-----------------------------------------------------------------------------
(* reconcile.ts and ads-sync.ts *)

\* nextStatus for a row in status was: whether it has passed its end is left open.
NextStatus(was, answer) ==
  CASE answer \in {"active", "paused"} -> {answer, "completed"}
    [] answer = "archived" -> {"archived"}
    [] answer = "rejected" -> {"failed"}
    [] answer = "in_review" -> {was}

\* Mutant of Reconcile: the UPDATE compares neither the version nor the status.
ReconcileAnyRow(c, ver, was, flagged, answer, confirms) ==
  \E next \in NextStatus(was, answer) :
    status' = [status EXCEPT ![c] = next] /\ flag' = [flag EXCEPT ![c] = FALSE]

\* reconcileStatus for campaign c, read at version ver with status was: the flag is
\* cleared unless the answer contradicts the change that was tried.
Reconcile(c, ver, was, flagged, answer, confirms) ==
  IF version[c] = ver /\ status[c] = was
  THEN \E next \in NextStatus(was, answer) :
         /\ status' = [status EXCEPT ![c] = next]
         /\ flag' = IF answer = "rejected" THEN [flag EXCEPT ![c] = FALSE]
                    ELSE IF flagged THEN [flag EXCEPT ![c] = next \notin confirms]
                    ELSE flag
  ELSE UNCHANGED <<status, flag>>

Tell(w) ==
  /\ worker[w].pc = "tell"
  /\ Reconcile(worker[w].camp, worker[w].mine, worker[w].was, TRUE, worker[w].seen,
               {TARGET[worker[w].action]})
  /\ End(w) /\ Writes /\ UNCHANGED <<version, external>>

\* Mutant of SyncAsk: only campaigns thought to be spending are read.
SyncAskActive ==
  /\ sync.pc = "idle"
  /\ \E c \in Campaigns :
       /\ external[c] # 0 /\ status[c] = "active"
       /\ sync' = [NoSync EXCEPT !.pc = "tell", !.camp = c, !.ver = version[c], !.was = status[c],
                                 !.flag = flag[c], !.seen = platform[<<c, external[c]>>]]
  /\ UNCHANGED <<rows, queue, worker, call, orphans, platform, left, history>>

\* syncAccount: a live campaign's row, the platform's answer for it, and the write.  The row
\* and the answer are read in one step: whoever writes the row between them is found by
\* the comparison of the version and status, and the answer is the older of the two.
SyncAsk ==
  /\ sync.pc = "idle"
  /\ \E c \in Campaigns :
       /\ external[c] # 0 /\ status[c] \in {"paused", "active"}
       /\ sync' = [NoSync EXCEPT !.pc = "tell", !.camp = c, !.ver = version[c], !.was = status[c],
                                 !.flag = flag[c], !.seen = platform[<<c, external[c]>>]]
  /\ UNCHANGED <<rows, queue, worker, call, orphans, platform, left, history>>
SyncTell ==
  /\ sync.pc = "tell"
  /\ Reconcile(sync.camp, sync.ver, sync.was, sync.flag, sync.seen, CampaignStatus)
  /\ sync' = NoSync
  /\ UNCHANGED <<version, external, edition, queue, worker, call, orphans, platform, left, history>>

\* Somebody works in the platform's ads manager, or the platform reviews the campaign.
AdsManager ==
  /\ left > 0 /\ left' = left - 1
  /\ \E o \in DOMAIN platform, st \in PlatformStatus :
       /\ platform[o] \in {"active", "paused", "in_review"} /\ st # platform[o]
       /\ platform' = [platform EXCEPT ![o] = st]
  /\ UNCHANGED <<rows, queue, worker, call, orphans, sync, history>>

-----------------------------------------------------------------------------
(* Failures *)

Fault == left > 0 /\ left' = left - 1

\* A query or queue call outside the writer's try fails: the processor throws.
CallFails(w) ==
  /\ \/ worker[w].pc \in {"claim", "failed", "unconfirmed", "requeue", "enqueue", "error", "flag", "tell"}
     \/ worker[w].pc = "prepare" /\ ~ worker[w].fresh
  /\ Fault /\ End(w)
  /\ UNCHANGED <<rows, call, orphans, sync, platform, history>>
\* One inside it fails and is caught: before the call, or when its success is recorded.
TryFails(w) ==
  /\ worker[w].pc \in {"prepare", "created", "changed"}
  /\ Fault /\ Catch(w, "internal", worker[w].pc # "prepare")
  /\ UNCHANGED <<rows, queue, call, orphans, sync, platform, history>>
\* The worker process dies; its job stays active.
Crash(w) ==
  /\ worker[w].pc # "idle"
  /\ Fault /\ worker' = [worker EXCEPT ![w] = Idle]
  /\ UNCHANGED <<rows, queue, call, orphans, sync, platform, history>>
\* The worker is blocked for longer than its lock lasts, and then goes on.
LoseLock(w) ==
  /\ worker[w].held
  /\ Fault /\ worker' = [worker EXCEPT ![w].held = FALSE]
  /\ UNCHANGED <<rows, queue, call, orphans, sync, platform, history>>
\* BullMQ's stalled check: a job whose lock expired is delivered again or given up.
RecoverStalled ==
  /\ \E j \in queue :
       /\ j.st = "active"
       /\ \A w \in Workers : ~ (worker[w].held /\ worker[w].camp = j.camp /\ worker[w].num = j.num)
       /\ queue' \in {Marked(queue, j.camp, j.num, "waiting"), Finished(queue, j.camp, j.num)}
  /\ UNCHANGED <<rows, worker, call, orphans, sync, platform, left, history>>
\* Redis comes back empty.
RedisLoss ==
  /\ queue # {}
  /\ Fault
  /\ queue' = {} /\ worker' = [w \in Workers |-> [worker[w] EXCEPT !.held = FALSE]]
  /\ UNCHANGED <<rows, call, orphans, sync, platform, history>>

-----------------------------------------------------------------------------
(* maintenance.ts *)

\* Somebody has approved campaign c and is about to enqueue its job.
Handing(c) == \/ \E k \in Calls : call[k].pc = "enqueue" /\ call[k].camp = c
              \/ \E w \in Workers : worker[w].pc = "enqueue" /\ worker[w].camp = c
\* sweepApprovedCampaigns reads the rows approved for a while, also when the last sweep ended
\* early; spending a move, it finds one whose enqueuer is slower than that.  SweepEnsure
\* does ensureAdsWrite for one of them, which replaces a finished job.
SweepRead ==
  /\ orphans' = {<<c, version[c]>> : c \in {d \in Campaigns : status[d] = "approved" /\ ~ Handing(d)}}
  /\ UNCHANGED <<rows, queue, worker, call, sync, platform, left, history>>
SweepEarly ==
  /\ Fault
  /\ \E c \in Campaigns : /\ status[c] = "approved" /\ Handing(c)
                          /\ orphans' = orphans \cup {<<c, version[c]>>}
  /\ UNCHANGED <<rows, queue, worker, call, sync, platform, history>>

SweepEnsure ==
  /\ \E o \in orphans :
       /\ orphans' = orphans \ {o}
       /\ queue' = With({j \in queue : ~ (j.camp = o[1] /\ j.num = o[2] /\ j.st = "finished")},
                        o[1], o[2], "create", 1)
  /\ UNCHANGED <<rows, worker, call, sync, platform, left, history>>

\* Some worker is creating campaign c.
AtWork(c) == \E w \in Workers : /\ worker[w].pc \notin {"idle", "claim"}
                                /\ worker[w].camp = c /\ worker[w].action = "create"
\* The campaigns left in creating, those of early included although a worker is at them.
Recovered(st, early) ==
  [c \in Campaigns |-> IF st[c] = "creating" /\ (~ AtWork(c) \/ c \in early) THEN "unconfirmed" ELSE st[c]]

\* recoverStuck, one UPDATE; spending a fault, it finds the worker slower than it waits.
RecoverStuck ==
  /\ status' = Recovered(status, {})
  /\ flag' = [c \in Campaigns |-> flag[c] /\ status'[c] = status[c]]
  /\ UNCHANGED <<version, external, edition, queue, worker, call, orphans, sync, platform, left, history>>
RecoverEarly ==
  /\ Fault
  /\ \E c \in Campaigns : /\ status[c] = "creating" /\ AtWork(c)
                          /\ status' = Recovered(status, {c})
  /\ flag' = [c \in Campaigns |-> flag[c] /\ status'[c] = status[c]]
  /\ UNCHANGED <<version, external, edition, queue, worker, call, orphans, sync, platform, history>>

-----------------------------------------------------------------------------
CampaignsParameters == Campaigns # {} /\ MaxMoves \in Nat

Each(x) == [c \in Campaigns |-> x]
Paused(st) == {c \in Campaigns : st[c] = "paused"}

\* A campaign has yet to be written, awaits its approval, was approved by an API that died
\* before it enqueued the job, or has been created: its request was version 1, its claim 2.
Init ==
  /\ status \in [Campaigns -> {"unused", "pending_approval", "approved", "paused"}]
  /\ version = [c \in Campaigns |->
                  CASE status[c] = "approved" -> 1 [] status[c] = "paused" -> 2 [] OTHER -> 0]
  /\ external = [c \in Campaigns |-> IF status[c] = "paused" THEN 2 ELSE 0]
  /\ platform = [o \in Paused(status) \X {2} |-> "paused"]
  /\ content = [o \in Paused(status) \X {2} |-> 0]
  /\ flag = Each(FALSE) /\ edition = Each(0)
  /\ queue = {} /\ orphans = {} /\ sync = NoSync
  /\ worker = [w \in Workers |-> Idle] /\ call = [k \in Calls |-> NoCall]
  /\ left = MaxMoves
  /\ confirmed = Each(0) /\ stale = Each(0) /\ asked = Each(0) /\ starts = Each(0)
  /\ approved = Each(0)

CallBegins(k) ==
  \/ CreateCampaign(k) \/ UpdateRead(k) \/ Approve(k) \/ Refuse(k)
  \/ Activate(k) \/ Stop(k) \/ AgainRead(k)
CallContinues(k) == UpdateWrite(k) \/ RetryWrite(k) \/ BuryWrite(k) \/ Enqueue(k)
WorkerStep(w) ==
  \/ StartJob(w) \/ Claim(w) \/ Prepare(w) \/ Send(w) \/ WriteCreation(w) \/ Requeue(w)
  \/ EnqueueRetry(w) \/ WriteChange(w) \/ WriteFlag(w) \/ Ask(w) \/ Tell(w)
WorkerFault(w) == CallFails(w) \/ TryFails(w) \/ Crash(w) \/ LoseLock(w)
SyncStep == SyncAsk \/ SyncTell

Next ==
  \/ \E k \in Calls : CallBegins(k) \/ CallContinues(k) \/ EnqueueLost(k)
  \/ \E w \in Workers : WorkerStep(w) \/ WorkerFault(w)
  \/ SyncStep \/ AdsManager
  \/ RecoverStalled \/ RedisLoss
  \/ SweepRead \/ SweepEarly \/ SweepEnsure \/ RecoverStuck \/ RecoverEarly

Spec == Init /\ [][Next]_vars

\* The worker loop, BullMQ's stalled check, the sync and the repeatable maintenance tasks
\* keep running, and a request that has begun ends; nothing is assumed of people or faults.
Fairness ==
  /\ \A k \in Calls : WF_vars(CallContinues(k))
  /\ \A w \in Workers : WF_vars(WorkerStep(w))
  /\ WF_vars(SyncStep) /\ WF_vars(RecoverStalled) /\ WF_vars(RecoverStuck)
  /\ WF_vars(SweepRead) /\ WF_vars(SweepEnsure)

FairSpec == Spec /\ Fairness

-----------------------------------------------------------------------------
(* Properties *)

Objects == Campaigns \X (Nat \ {0})

\* Every variable keeps its type; what a row records exists on the platform.
CampaignsTypeOK ==
  /\ status \in [Campaigns -> CampaignStatus \cup {"unused", "deleted"}]
  /\ version \in [Campaigns -> Nat] /\ external \in [Campaigns -> Nat]
  /\ flag \in [Campaigns -> BOOLEAN] /\ edition \in [Campaigns -> Nat]
  /\ queue \subseteq Jobs /\ orphans \subseteq Campaigns \X Nat
  /\ worker \in [Workers -> WorkerStates] /\ call \in [Calls -> Requests] /\ sync \in SyncStates
  /\ DOMAIN platform \subseteq Objects /\ \A o \in DOMAIN platform : platform[o] \in PlatformStatus
  /\ \A c \in Campaigns : external[c] # 0 => <<c, external[c]>> \in DOMAIN platform

\* The objects made of campaign c.
Made(c) == {o \in DOMAIN platform : o[1] = c}
\* The creations that may still make one, or hand the campaign back.
MayCreate(c) == {w \in Workers : /\ worker[w].camp = c /\ worker[w].action = "create"
                                 /\ worker[w].pc \in {"prepare", "send", "failed", "requeue"}}
\* What users are told is not on the platform: it will be created, or can be unasked.
Uncreated(c) == \/ status[c] \in EDITABLE \cup {"unused", "approved"}
                \/ status[c] = "failed" /\ external[c] = 0

\* "Never twice" (ads-writer.ts, invariant 2): what exists, the attempts that may still
\* make or hand back an object, and the creation the status allows never exceed the one
\* asked for, plus a confirmed retry each, plus the retries that were written over a
\* campaign created since they read it (which retry() does not compare).
CreationBudget ==
  \A c \in Campaigns :
    Cardinality(Made(c)) + Cardinality(MayCreate(c)) + (IF Uncreated(c) THEN 1 ELSE 0)
      <= 1 + confirmed[c] + stale[c]

\* Approval is of what was approved: whatever is edited, approved and claimed at once, an
\* object on the platform was made from the edition an admin approved.
CreatedAsApproved ==
  \A o \in DOMAIN platform : content[o] = approved[o[1]]

\* "Nothing spends without a person" (ads-writer.ts, invariant 1), and "exactly one job
\* per request can call the platform" (campaign-state.ts:29): the spend is started at most
\* once for every activation an admin asked for, whatever is delivered twice or retried.
StartedAsAsked == \A c \in Campaigns : starts[c] <= asked[c]

\* An archive is the end (no request starts from it): an answer of the platform that was on
\* its way to the sync when the campaign was archived does not bring it back.
SyncNeverRevives ==
  [][\A c \in Campaigns : status[c] = "archived" /\ sync' # sync => status'[c] = "archived"]_vars

\* A campaign on its way to the platform comes to an end its users see.
UnderWay(c) == status[c] \in {"approved", "creating"}

\* "The platform is the truth for a created campaign" (reconcile.ts:9): once people leave
\* it alone, a live campaign's status is what the platform has, unless that has it in
\* review (which says neither), and an unconfirmed change is answered, through crashes,
\* lost jobs and answers nobody got.
InStep(c) == status[c] \in {"paused", "active"}
               => platform[<<c, external[c]>>] \in {status[c], "in_review"} /\ ~ flag[c]
StatusesAgree == \A c \in Campaigns : <>[]InStep(c)
=============================================================================
