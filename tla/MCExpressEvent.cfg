\* What the comment on wait_event says of its result.
SPECIFICATION EventSpec
CONSTANTS
  Waiters = {w1, w2}
  Setters = {s1}
  NOBODY = "nobody"
  ManualReset = FALSE
  Micros = {0, 999000}
  Millis = {1, 295}
INVARIANTS ResultTellsTimeout
CHECK_DEADLOCK FALSE
