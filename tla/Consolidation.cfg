CONSTANTS
  Observations = {o1}
  Runs = {r1, r2}
  NoProc = NoProc
  Killed = Killed
  MaxTurns = 1
  MaxBatches = 2
  MaxFaults = 1
SPECIFICATION FairSpec
CHECK_DEADLOCK FALSE
INVARIANT DistillInv
INVARIANT DistilledOnce
INVARIANT NothingSkipped
INVARIANT RoutedOnce
PROPERTY EventuallyDistilled
