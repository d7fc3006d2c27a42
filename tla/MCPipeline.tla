----------------------------- MODULE MCPipeline -----------------------------
(***************************************************************************)
(* The safety of what a post goes through: the organization's members, the *)
(* media library, the API and the publishing workers, the roll-up's        *)
(* transactions, the tokens and the adapters' calls, the comments it gets; *)
(* and of the ad campaigns.  A behaviour takes the steps of one part,      *)
(* chosen at the start; the others stay in an initial state.               *)
(***************************************************************************)
EXTENDS Publishing, TLC

CONSTANTS
  t1, ch1, w1, w2, w3,
  \* PostTransactions: the post's targets, the database sessions
  Rollups, Backends, MaxTx,
  \* Credentials
  AdAccounts, Rotating, TokenMoves,
  \* ProviderCalls
  Providers, MaxMedia, CallChecks, CallAttempts,
  \* Campaigns
  Campaigns, CampaignCalls, WriterAttempts, CampaignMoves,
  \* Organizations
  Users, Creator, Invitations, MemberRequests, MaxRequests,
  \* MediaLibrary
  FileRequests, FileMoves,
  \* InboxSync
  Items, Batches, Mentions, MaxRead, MaxAge, MaxClock, MaxItemsAndRuns

VARIABLES
  part,
  \* PostTransactions
  txPost, txStatus, tx, txLeft,
  \* Credentials
  kRow, kLock, kGood, kSerial, kNear, kJobs, kWorker, kConnect, kLeft, kLost, kLate,
  \* ProviderCalls
  item, phase, todo, cPending, attempt, refreshed, check, visible,
  \* Campaigns
  aStatus, aVersion, aExternal, aFlag, aEdition, aQueue, aWorker, aCall, aOrphans, aSync,
  aPlatform, aLeft, aConfirmed, aStale, aAsked, aStarts, aApproved, aContent,
  \* Organizations
  oDeleted, role, invitation, oRequest, oLeft, oRaced, admits, together,
  \* MediaLibrary
  mStatus, mObject, mLink, mUsed, mRequest, mLeft, mReplaced, mRaced, mLeftover,
  \* InboxSync
  iClock, place, said, indexed, iRow, cursor, iWorker, skipped, beyond, decided

iVars == <<iClock, place, said, indexed, iRow, cursor, iWorker, skipped, beyond, decided>>
oVars == <<oDeleted, role, invitation, oRequest, oLeft, oRaced, admits, together>>
mVars == <<mStatus, mObject, mLink, mUsed, mRequest, mLeft, mReplaced, mRaced, mLeftover>>
txVars == <<txPost, txStatus, tx, txLeft>>
kVars == <<kRow, kLock, kGood, kSerial, kNear, kJobs, kWorker, kConnect, kLeft, kLost, kLate>>
callVars == <<item, phase, todo, cPending, attempt, refreshed, check, visible>>
aVars == <<aStatus, aVersion, aExternal, aFlag, aEdition, aQueue, aWorker, aCall, aOrphans, aSync,
           aPlatform, aLeft, aConfirmed, aStale, aAsked, aStarts, aApproved, aContent>>

NoChannel == {}
AllOnOne  == [t \in Targets |-> ch1]

\* The roll-up of one post's targets, statement by statement.
Statements == INSTANCE PostTransactions WITH
  Targets <- Rollups, Sessions <- Backends, post <- txPost, status <- txStatus, left <- txLeft

\* The tokens of the channels and of ad accounts.
Credential == INSTANCE CredentialsProofs WITH
  MaxMoves <- TokenMoves,
  row <- kRow, lock <- kLock, good <- kGood, serial <- kSerial, near <- kNear, jobs <- kJobs,
  worker <- kWorker, connect <- kConnect, left <- kLeft, lost <- kLost, late <- kLate

\* The calls of one post or reply, on every publishing platform.
Adapters == INSTANCE ProviderCalls WITH
  MaxChecks <- CallChecks, MaxAttempts <- CallAttempts, pending <- cPending

\* Campaigns, their workers and the requests at them.
Campaign == INSTANCE CampaignsProofs WITH
  Calls <- CampaignCalls, MaxAttempts <- WriterAttempts, MaxMoves <- CampaignMoves,
  status <- aStatus, version <- aVersion, external <- aExternal, flag <- aFlag,
  edition <- aEdition, queue <- aQueue, worker <- aWorker, call <- aCall, orphans <- aOrphans,
  sync <- aSync, platform <- aPlatform, left <- aLeft, confirmed <- aConfirmed, stale <- aStale,
  asked <- aAsked, starts <- aStarts, approved <- aApproved,
  content <- aContent

\* An organization and its members; one file of its library; and the comments it gets.
Organization == INSTANCE Organizations WITH
  Requests <- MemberRequests, deleted <- oDeleted, request <- oRequest, left <- oLeft, raced <- oRaced
Library == INSTANCE MediaLibrary WITH
  Requests <- FileRequests, MaxMoves <- FileMoves,
  status <- mStatus, object <- mObject, link <- mLink, used <- mUsed, request <- mRequest,
  left <- mLeft, replaced <- mReplaced, raced <- mRaced, leftover <- mLeftover
Inbox == INSTANCE InboxSync WITH clock <- iClock, row <- iRow, worker <- iWorker

\* What those modules ask of their constants.
ASSUME PartsParameters ==
  Organization!OrganizationsParameters /\ Library!MediaBounds /\ Inbox!InboxSyncParameters
  /\ Credential!CredentialsParameters /\ Campaign!CampaignsParameters
  /\ Statements!TransactionsParameters /\ Adapters!CallsParameters
  /\ {CallAttempts, WriterAttempts} \subseteq Nat \ {0}

\* A bound: the comments there are, and the runs that read them at once.
ItemsAndRuns ==
  Cardinality({n \in Items : said[n] # Inbox!Never}) + Cardinality({w \in Workers : ~ Inbox!At(w, "idle")})

\* Items have numbers, and differ in nothing else: the first is said first.
SaidInOrder == \A i, j \in Items : i < j => said[i] <= said[j]

AllInit ==
  /\ part \in {"post", "rollup", "credential", "calls", "campaign", "members", "media", "inbox"}
  /\ Init
  /\ Statements!Init /\ t1 \in DOMAIN txStatus /\ (part # "rollup" => DOMAIN txStatus = {t1})
  /\ Credential!Init
  /\ Adapters!CallsInit /\ (part # "calls" => item.provider = "reddit" /\ ~ item.reply)
  /\ Campaign!Init /\ (part # "campaign" => \A a \in Campaigns : aStatus[a] = "unused")
  /\ Organization!OrganizationsInit /\ (part # "members" => \A u \in Users \ {Creator} : role[u] = "none")
  /\ Library!MediaInit
  /\ Inbox!InboxSyncInit /\ (\E s \in IF part = "inbox" THEN Inbox!Streams ELSE Batches : place = [n \in Items |-> s])

AllNext ==
  /\ UNCHANGED part
  /\ \/ part = "post" /\ Next /\ UNCHANGED <<txVars, kVars, callVars, aVars, oVars, mVars, iVars>>
     \/ part = "rollup" /\ Statements!Next /\ UNCHANGED <<vars, kVars, callVars, aVars, oVars, mVars, iVars>>
     \/ part = "credential" /\ Credential!Next /\ UNCHANGED <<vars, txVars, callVars, aVars, oVars, mVars, iVars>>
     \/ part = "calls" /\ Adapters!CallsNext /\ UNCHANGED <<vars, txVars, kVars, aVars, oVars, mVars, iVars>>
     \/ part = "campaign" /\ Campaign!Next /\ UNCHANGED <<vars, txVars, kVars, callVars, oVars, mVars, iVars>>
     \/ part = "members" /\ Organization!OrganizationsNext
          /\ UNCHANGED <<vars, txVars, kVars, callVars, aVars, mVars, iVars>>
     \/ part = "media" /\ Library!MediaNext
          /\ UNCHANGED <<vars, txVars, kVars, callVars, aVars, oVars, iVars>>
     \/ part = "inbox" /\ Inbox!InboxSyncNext /\ (ItemsAndRuns <= MaxItemsAndRuns /\ SaidInOrder)'
          /\ UNCHANGED <<vars, txVars, kVars, callVars, aVars, oVars, mVars>>
     \/ part \notin {"post", "rollup"}  \* all there was to do is done
          /\ UNCHANGED <<vars, txVars, kVars, callVars, aVars, oVars, mVars, iVars>>

AllSpec == AllInit /\ [][AllNext]_<<vars, txVars, kVars, callVars, aVars, oVars, mVars, iVars, part>>

\* Workers are interchangeable.
Symmetric == Permutations({w1, w2})

-----------------------------------------------------------------------------
(* The properties of each component, stated and explained in its module; those of the post *)
(* itself are Publishing's own.                                                            *)

\* Every variable of the other parts keeps its type.
TypesOK ==
  /\ part = "rollup" => Statements!TypeOK
  /\ part = "credential" => Credential!CredentialsTypeOK
  /\ part = "calls" => Adapters!CallsTypeOK
  /\ part = "campaign" => Campaign!CampaignsTypeOK
  /\ part = "members" => Organization!OrganizationsTypeOK
  /\ part = "media" => Library!MediaTypeOK
  /\ part = "inbox" => Inbox!InboxSyncTypeOK

\* A post with one target agrees with it whenever no transaction is open.
OneTargetAgrees == part = "rollup" => Statements!OneTargetAgrees

\* Only `schedule` and `update` take the locks in the order that makes workers deadlock.
WorkersDeadlockOnlyWithPostFirst == part = "rollup" => Statements!WorkersDeadlockOnlyWithPostFirst

\* The token a row stores is the one its platform accepts (channel-tokens.ts).
HoldsCurrentToken == part = "credential" => Credential!HoldsCurrentToken
\* Users are asked to reconnect only when it is needed (channel-tokens.ts, ad-tokens.ts).
ReauthMeansReconnect == part = "credential" => Credential!ReauthMeansReconnect
\* A token wiped by a disconnect comes back only with a connection.
WipedStaysWiped == Credential!WipedStaysWiped

\* Each adapter, call by call, sends as SendOnce promises.
CallsKeepPromise == Adapters!CallsKeepPromise

\* An organization keeps an owner, and an invitation lets one user in (organizations.service.ts).
MembersKept == part = "members" => Organization!MembersKept
\* A file that counts as ready is there, as declared (media.service.ts).
FilesKept == part = "media" => Library!FilesKept
\* No comment or mention is passed over but by a rejected batch or a bounded read, and none read
\* again undoes what users made of it (engagement-processor.ts, syncChannel).
NothingSkipped == part = "inbox" => Inbox!NothingSkipped

\* A campaign exists once on its platform, plus once for every retry a user confirmed and
\* every one written over a creation (campaign-state.ts, ads-writer.ts).
CreationBudget == part = "campaign" => Campaign!CreationBudget
\* What is created is what was approved last, and the spend starts no more often than people
\* asked for (ads.campaigns.service.ts, update and approve; ads-writer.ts, changeStatus).
SpentAsAsked == part = "campaign" => Campaign!CreatedAsApproved /\ Campaign!StartedAsAsked
\* The sync brings back nothing people have taken down (reconcile.ts).
SyncNeverRevives == Campaign!SyncNeverRevives
=============================================================================
