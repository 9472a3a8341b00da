SPECIFICATION MCSpec
CONSTANTS
  NoBuf = none
  Gbuffers = {g1, g2}
  VirtDevs = {1, 2}
  PhyDevs = {1}
  MAX_FLOW_SIZE = 3
  DstLen = 3
INVARIANTS PaintedIsNotDrawn
PROPERTIES FrameIsShown ReaderIsInFlow
\* Nothing is left to do when there is no window or the machine shuts down,
\* or when a NULL flow was used.
CHECK_DEADLOCK FALSE
