SPECIFICATION AllFair
CONSTANTS
  t1 = t1
  ch1 = ch1
  r1 = r1
  a1 = a1
  g1 = g1
  run1 = run1
  Targets = {t1}
  Channels = {ch1}
  ChannelOf <- AllOnOne
  Containers <- OneChannel
  Workers = {w1}
  Calls = {c1}
  Operations = {"create"}
  MaxAttempts = 2
  MaxChecks = 2
  MaxTries = 2
  MaxOps = 1
  MaxFaults = 1
CHECK_DEADLOCK FALSE
PROPERTIES Settles WorkSettles StatusesAgree RefreshedInTime
