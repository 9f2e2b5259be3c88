CONSTANTS
  a = a
  b = b
  pusha = pusha
  pulla = pulla
  pushb = pushb
  pullb = pullb
  NoEvent = NoEvent
  NoProc = NoProc
  NoState = NoState
  Replicas = {a, b}
  Home <- MCHome
  Events = {e1}
  Pushers = {pusha}
  Pullers = {pulla, pullb}
  Hub = TRUE
  MaxRelay = 2
  MaxFaults = 1
SPECIFICATION FairSpec
CHECK_DEADLOCK FALSE
PROPERTY Delivery
