CONSTANTS
  Procs = {p1, p2, p3}
  Agents = {a1, a2}
  Tasks = {t1, t2}
  NoAgent = NoAgent
  NoTask = NoTask
  NoProc = NoProc
  MaxSessions = 3
  MaxOps = 4
  MaxKills = 1
  MaxAges = 1
SPECIFICATION Spec
CHECK_DEADLOCK FALSE
SYMMETRY SessionsSymmetry
INVARIANT SessionsInv
INVARIANT OnePointer
INVARIANT ClaimedOnce
INVARIANT PointersMatch
