CONSTANTS
  Commands = {c1, c2}
  Minted = {w1, w2}
  Shared = ws
  Psm = psm
  MaxEvents = 1
  MaxRuns = 3
  MaxUpsets = 1
SPECIFICATION Spec
SYMMETRY Symmetry
CHECK_DEADLOCK FALSE
INVARIANT Published
INVARIANT OwnerRetracts
INVARIANT Attributed
