SPECIFICATION ChecksSpec
CONSTANTS
  Tasks = {"seo"}
  Batches = {m1}
  Items = {i1, i2}
  Jobs = {"weekly"}
  MaxAttempts = 2
  Budget = 6
  MaxFaults = 0
CHECK_DEADLOCK FALSE
INVARIANT PaidIsBilled
