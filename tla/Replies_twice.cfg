SPECIFICATION Spec
CONSTANTS
  Replies = {r1, r2}
  Workers = {w1}
  Calls = {c1, c2}
  MaxAttempts = 1
  MaxOps = 3
  MaxFaults = 0
SYMMETRY Symmetric
INVARIANTS OneInFlight
