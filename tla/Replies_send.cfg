SPECIFICATION Spec
CONSTANTS
  Replies = {r1}
  Workers = {w1, w2}
  Calls = {c1, c2}
  MaxAttempts = 2
  MaxOps = 3
  MaxFaults = 1
SYMMETRY Symmetric
INVARIANTS TypeOK OneSender SentOnce UnsentIsUnsent SendBudget
PROPERTY KeepsPromise
