CONSTANTS
  Observations = {o1}
  Memories = {m1, m2}
  MaxPeerEvents = 1
SPECIFICATION Spec
SYMMETRY GcSymmetry
CHECK_DEADLOCK FALSE
INVARIANT ProvenanceKept
INVARIANT NoRevival
INVARIANT MarkOnLog
INVARIANT SharedKept
