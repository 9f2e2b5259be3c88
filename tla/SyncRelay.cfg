CONSTANTS
  a = a
  b = b
  pusha = pusha
  pulla = pulla
  pushb = pushb
  pullb = pullb
  NoEvent = NoEvent
  NoProc = NoProc
  NoState = NoState
  Replicas = {a, b}
  Home <- MCHome
  Events = {e1, e2}
  Pushers = {pusha, pushb}
  Pullers = {pullb}
  Hub = FALSE
  MaxRelay = 2
  MaxFaults = 1
SPECIFICATION Spec
SYMMETRY EventSymmetry
CHECK_DEADLOCK FALSE
INVARIANT SyncInv
INVARIANT PushWatermarkSound
INVARIANT PullWatermarkSound
PROPERTY HistoryKept
PROPERTY AbstractSpec
