SPECIFICATION Spec
CONSTANTS
  Targets = {t1, t2}
  Sessions = {s1, s2}
  MaxTx = 4
SYMMETRY Symmetric
INVARIANTS AgreesInTheEnd
