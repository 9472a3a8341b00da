SPECIFICATION FairLifeSpec
CONSTANTS
  Calls = {1, 2, 3, 4, 5}
  Threads = {d, h1}
  D = d
  QueueSize = 3
  CallBufSize = 2
  NULL = NULL
INVARIANT EachCallInOnePlace
INVARIANT QueueFitsOneHandler
PROPERTY ImplementsService
PROPERTY CallsComeBack
