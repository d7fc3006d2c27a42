SPECIFICATION AllSpec
CONSTANTS
  t1 = t1
  ch1 = ch1
  w1 = w1
  w2 = w2
  w3 = w3
  Targets = {t1}
  Channels = {ch1}
  ChannelOf <- AllOnOne
  Containers <- NoChannel
  Workers = {w1, w2}
  Calls = {"first"}
  Operations = {"create", "unschedule", "retry", "remove"}
  MaxAttempts = 2
  MaxChecks = 1
  MaxTries = 1
  MaxOps = 2
  MaxFaults = 1
  Rollups = {t1, t2, t3}
  Backends = {w1, w2, w3}
  MaxTx = 3
  AdAccounts = {account}
  Rotating = {ch1}
  TokenMoves = 4
  Providers = {"facebook", "instagram", "threads", "linkedin", "x", "youtube", "reddit"}
  MaxMedia = 3
  CallChecks = 3
  CallAttempts = 3
  Campaigns = {a1}
  CampaignCalls = {c1, c2}
  WriterAttempts = 1
  CampaignMoves = 2
  Users = {"creator", "colleague"}
  Creator = "creator"
  Invitations = {"first", "second"}
  MemberRequests = {w1, w2}
  MaxRequests = 3
  FileRequests = {w1, w2, w3}
  FileMoves = 7
  Items = {1, 2}
  Batches = {"posts"}
  Mentions = {"mentions"}
  MaxRead = 1
  MaxAge = 1
  MaxClock = 2
  MaxItemsAndRuns = 3
SYMMETRY Symmetric
INVARIANTS
  TypeOK OneOwner PublishedOnce UnsentIsUnsent Accounting PostAgreesUnlessCanceled
  TypesOK OneTargetAgrees WorkersDeadlockOnlyWithPostFirst
  HoldsCurrentToken ReauthMeansReconnect MembersKept FilesKept NothingSkipped
  CreationBudget SpentAsAsked
PROPERTIES FreshVersion WipedStaysWiped CallsKeepPromise SyncNeverRevives
