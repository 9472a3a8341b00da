SPECIFICATION MCSpec
CONSTANTS
  D = d1
  NOBODY = none
  Decoders = {d1}
  Workers = {w1}
  Gbuffers = {"b1"}
  GuestBufs = {"g1", "g2"}
  Inputs = {"i1", "i2"}
  MaxLost = 1
  CallbackLen = 2
  MaxHeld = 1
INVARIANTS BufferAnsweredOnce RestsWithoutWork WorkerUsesLiveGbuffer FrameIsFreedOrLost
PROPERTIES CallIsFinished BufferComesBack
CHECK_DEADLOCK FALSE
