SPECIFICATION MCSpec
CONSTANTS
  Setters = {"M", "R"}
  CALL = call
  RELEASED = one
  NULL = null
  QueueSize = 4
  MaxTouchPoint = 2
  TouchIds = {"t1"}
  Records = {"k1"}
  RightIsTwo = TRUE
  DataSize = 3
  CacheSize = 2
INVARIANTS IrqCallInOnePlace FingerHeldOnce ArrivesInOrder
PROPERTIES ReleaseReturnsCall ChangeReachesGuest DataReachesGuest RemoveReturns
CHECK_DEADLOCK FALSE
