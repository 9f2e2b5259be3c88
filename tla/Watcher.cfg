CONSTANTS
  Watchers = {w1, w2}
  NoLock = NoLock
  MaxFailures = 2
  MaxTick = 1
  MaxStarts = 2
  MaxKills = 1
SPECIFICATION FairSpec
CHECK_DEADLOCK FALSE
INVARIANT WatcherInv
INVARIANT LostBounded
PROPERTY SessionBound
