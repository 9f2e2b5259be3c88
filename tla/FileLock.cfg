CONSTANTS
  Procs = {p1, p2, p3}
  NoProc = NoProc
  Horizon = 1
  MaxBody = 2
  MaxCalls = 2
  MaxCrashes = 1
SPECIFICATION LockFairSpec
CHECK_DEADLOCK FALSE
INVARIANT LockInv
PROPERTY Progress
