---------------------------- MODULE MCSettles ----------------------------
(***************************************************************************)
(* What must eventually happen, in the publishing pipeline, the replies,   *)
(* the ad campaigns, the credentials and the AI work.  A behaviour is of   *)
(* one part, chosen at the start: the others stay in their initial states, *)
(* and only the processes of that part are fair.                           *)
(***************************************************************************)
EXTENDS Publishing

CONSTANTS t1, ch1, r1, a1, g1, run1

VARIABLES
  part,
  \* Replies
  rStatus, rAttempts, rThread, rQueue, rWorker, rCall, rOrphans, rOps, rFaults, rLive, rConfirmed,
  \* Campaigns
  aStatus, aVersion, aExternal, aFlag, aEdition, aQueue, aWorker, aCall, aOrphans, aSync,
  aPlatform, aLeft, aConfirmed, aStale, aAsked, aStarts, aApproved, aContent,
  \* Credentials
  kRow, kLock, kGood, kSerial, kNear, kJobs, kWorker, kConnect, kLeft, kLost, kLate,
  \* Generations
  gStatus, gKind, gPaid, gMedia, gLibrary, gObjects, gJob, gSerial, gWorker, gRequest, gFaults,
  gSpent, gMissed, gTwice, gUnsure, gOverwritten,
  \* ResearchRuns
  uStatus, uCost, uLedger, uJob, uWorker, uRequest, uFaults, uSpent, uMissed, uExcused, uSwept

gVars == <<gStatus, gKind, gPaid, gMedia, gLibrary, gObjects, gJob, gSerial, gWorker, gRequest,
           gFaults, gSpent, gMissed, gTwice, gUnsure, gOverwritten>>
uVars == <<uStatus, uCost, uLedger, uJob, uWorker, uRequest, uFaults, uSpent, uMissed, uExcused, uSwept>>
rVars == <<rStatus, rAttempts, rThread, rQueue, rWorker, rCall, rOrphans, rOps, rFaults,
           rLive, rConfirmed>>
aVars == <<aStatus, aVersion, aExternal, aFlag, aEdition, aQueue, aWorker, aCall, aOrphans, aSync,
           aPlatform, aLeft, aConfirmed, aStale, aAsked, aStarts, aApproved, aContent>>
kVars == <<kRow, kLock, kGood, kSerial, kNear, kJobs, kWorker, kConnect, kLeft, kLost, kLate>>

AllOnOne   == [t \in Targets |-> ch1]
OneChannel == {ch1}

Reply == INSTANCE Replies WITH
  Replies <- {r1}, MaxOps <- 2, MaxFaults <- 2,
  status <- rStatus, attempts <- rAttempts, thread <- rThread, queue <- rQueue, worker <- rWorker,
  call <- rCall, orphans <- rOrphans, ops <- rOps, faults <- rFaults, live <- rLive,
  confirmed <- rConfirmed
Campaign == INSTANCE Campaigns WITH
  Campaigns <- {a1}, MaxMoves <- 1,
  status <- aStatus, version <- aVersion, external <- aExternal, flag <- aFlag,
  edition <- aEdition, queue <- aQueue, worker <- aWorker, call <- aCall, orphans <- aOrphans,
  sync <- aSync, platform <- aPlatform, left <- aLeft, confirmed <- aConfirmed, stale <- aStale,
  asked <- aAsked, starts <- aStarts, approved <- aApproved,
  content <- aContent
Credential == INSTANCE Credentials WITH
  AdAccounts <- {}, Rotating <- {ch1}, MaxMoves <- 4,
  row <- kRow, lock <- kLock, good <- kGood, serial <- kSerial, near <- kNear, jobs <- kJobs,
  worker <- kWorker, connect <- kConnect, left <- kLeft, lost <- kLost, late <- kLate

Generation == INSTANCE Generations WITH
  Generations <- {g1}, Kinds <- {"carousel", "video"}, MaxCalls <- 1, MaxFaults <- 1,
  status <- gStatus, kind <- gKind, paid <- gPaid, media <- gMedia, library <- gLibrary,
  objects <- gObjects, job <- gJob, serial <- gSerial, worker <- gWorker, request <- gRequest,
  faults <- gFaults, spent <- gSpent, missed <- gMissed, twice <- gTwice, unsure <- gUnsure,
  overwritten <- gOverwritten
Research == INSTANCE ResearchRuns WITH
  Runs <- {run1}, MaxFaults <- 1,
  status <- uStatus, cost <- uCost, ledger <- uLedger, job <- uJob, worker <- uWorker,
  request <- uRequest, faults <- uFaults, spent <- uSpent, missed <- uMissed,
  excused <- uExcused, swept <- uSwept

AllInit ==
  /\ part \in {"post", "reply", "campaign", "credential", "generation", "research"}
  /\ Generation!GenerationsInit /\ Research!ResearchInit
  /\ Init /\ Reply!Init /\ Credential!Init
  /\ Campaign!Init
  /\ part # "campaign" => aStatus[a1] = "unused"

\* The other parts stay as they are.
Rest ==
  /\ UNCHANGED part
  /\ part # "post" => UNCHANGED vars
  /\ part # "reply" => UNCHANGED rVars
  /\ part # "campaign" => UNCHANGED aVars
  /\ part # "credential" => UNCHANGED kVars
  /\ part # "generation" => UNCHANGED gVars
  /\ part # "research" => UNCHANGED uVars

AllNext ==
  /\ Rest
  /\ \/ part = "post" /\ Next
     \/ part = "reply" /\ Reply!Next
     \/ part = "campaign" /\ Campaign!Next
     \/ part = "credential" /\ Credential!Next
     \/ part = "generation" /\ Generation!GenerationsNext
     \/ part = "research" /\ Research!ResearchNext

\* The fairness of each component (its Fairness), in the behaviours that are of it.
PostFair == \A w \in Workers : WF_vars(part = "post" /\ WorkerStep(w))
PostMaintained ==
  /\ WF_vars(part = "post" /\ RecoverStalled)
  /\ WF_vars(part = "post" /\ SweepRead) /\ WF_vars(part = "post" /\ SweepEnsure)
  /\ WF_vars(part = "post" /\ RecoverRead) /\ WF_vars(part = "post" /\ RecoverWrite)
ReplyFair == \A w \in Workers : WF_rVars(part = "reply" /\ Reply!WorkerStep(w))
ReplyMaintained ==
  /\ WF_rVars(part = "reply" /\ Reply!RecoverStalled) /\ WF_rVars(part = "reply" /\ Reply!RecoverStuck)
  /\ WF_rVars(part = "reply" /\ Reply!SweepRead) /\ WF_rVars(part = "reply" /\ Reply!SweepEnsure)
CampaignFair ==
  /\ \A k \in Calls : WF_aVars(part = "campaign" /\ Campaign!CallContinues(k))
  /\ \A w \in Workers : WF_aVars(part = "campaign" /\ Campaign!WorkerStep(w))
CampaignMaintained ==
  /\ WF_aVars(part = "campaign" /\ Campaign!SyncStep)
  /\ WF_aVars(part = "campaign" /\ Campaign!RecoverStalled)
  /\ WF_aVars(part = "campaign" /\ Campaign!RecoverStuck)
  /\ WF_aVars(part = "campaign" /\ Campaign!SweepRead)
  /\ WF_aVars(part = "campaign" /\ Campaign!SweepEnsure)
CredentialFair ==
  /\ \A w \in Workers : WF_kVars(part = "credential" /\ Credential!WorkerStep(w))
  /\ WF_kVars(part = "credential" /\ Credential!ScheduleRefresh)
AIFair ==
  /\ \A w \in Workers : WF_gVars(part = "generation" /\ Generation!WorkerStep(w))
  /\ \A w \in Workers : WF_uVars(part = "research" /\ Research!WorkerStep(w))
AIMaintained ==
  /\ WF_gVars(part = "generation" /\ Generation!RecoverStuck)
  /\ WF_uVars(part = "research" /\ Research!RecoverStuck)

AllFair ==
  /\ AllInit /\ [][AllNext]_<<vars, rVars, aVars, kVars, gVars, uVars, part>>
  /\ PostFair /\ PostMaintained /\ ReplyFair /\ ReplyMaintained
  /\ CampaignFair /\ CampaignMaintained /\ CredentialFair /\ AIFair /\ AIMaintained

\* A reply that is to be sent, a campaign that the worker is to create or change, a generation and
\* a research run come to an end their users see, whatever is lost on the way (reply-sender.ts,
\* invariant 2; ads-writer.ts; ai-media.ts; crawl.ts; maintenance.ts).  A behaviour is of one part,
\* and a part of one of these, so the four are one formula.
UnderWay ==
  Reply!UnderWay(r1) \/ Campaign!UnderWay(a1) \/ Generation!UnderWay(g1) \/ Research!UnderWay(run1)
WorkSettles == UnderWay ~> ~ UnderWay

\* The status a campaign shows comes to agree with the platform's, once nobody acts
\* (ads-sync.ts).
StatusesAgree == Campaign!StatusesAgree

\* A token about to expire is refreshed, or its channel asks for a reconnection
\* (maintenance.ts, channel-tokens.ts).
RefreshedInTime == Credential!RefreshedInTime
=============================================================================
