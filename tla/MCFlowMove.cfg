\* One gbuffer, two devices and the table of the code: there are six flows
\* to tell apart, and 32 entries.
SPECIFICATION FlowSpec
CONSTANTS
  Gbuffers = {g1}
  VirtDevs = {1, 2}
  PhyDevs = {}
  MAX_FLOW_SIZE = 32
  DstLen = 16
PROPERTIES MoveKeepsReaders
CHECK_DEADLOCK FALSE
