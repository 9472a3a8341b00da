\* One call more than the ring holds.
SPECIFICATION FairSpec
CONSTANTS
  Calls = {c1, c2, c3}
  CallBufSize = 3
  WaitCanFail = FALSE
  NULL = NULL
PROPERTIES PopWakesUp
CHECK_DEADLOCK FALSE
