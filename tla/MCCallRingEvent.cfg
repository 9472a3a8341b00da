\* Two calls for the one usable slot of a ring of two: D finds it full.
SPECIFICATION FairRingSpec
CONSTANTS
  Calls = {c1, c2}
  CallBufSize = 2
  WaitCanFail = TRUE
  NULL = NULL
  Waiters = {"D", "H"}
  Setters = {"D_set", "H_set"}
  NOBODY = "nobody"
  ManualReset = FALSE
  Micros <- MCMicros
  Millis <- MCMillis
INVARIANTS FreedContextIsDrained
PROPERTIES ImplementsFifo ImplementsEvent QueuedCallIsHandled SignalIsTaken
\* The system may stop: after the end call or a shutdown both threads rest.
CHECK_DEADLOCK FALSE
