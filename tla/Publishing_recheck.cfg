SPECIFICATION Spec
CONSTANTS
  t1 = t1
  t2 = t2
  ch1 = ch1
  Targets = {t1}
  Channels = {ch1}
  ChannelOf <- AllOnOne
  Containers <- OneChannel
  Workers = {w1, w2}
  Calls = {c1}
  Operations = {"create"}
  MaxAttempts = 1
  MaxChecks = 1
  MaxTries = 2
  MaxOps = 1
  MaxFaults = 1
SYMMETRY Symmetric
INVARIANTS PublishedOnce
