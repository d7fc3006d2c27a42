SPECIFICATION Spec
CONSTANTS
  t1 = t1
  t2 = t2
  ch1 = ch1
  Targets = {t1}
  Channels = {ch1}
  ChannelOf <- AllOnOne
  Containers <- NoChannel
  Workers = {w1, w2}
  Calls = {c1, c2}
  Operations = {"create", "retry"}
  MaxAttempts = 1
  MaxChecks = 1
  MaxTries = 1
  MaxOps = 3
  MaxFaults = 0
PROPERTIES PublishedIsFinal
