\* Two threads that wait for one id, as the comment at express_sync.c:134 has it.
SPECIFICATION SyncSpec
CONSTANTS
  Signallers = {"s1"}
  SyncWaiters = {"w1", "w2"}
  Ids = {1}
  IdsOf <- MCIdsOf
  MaxFence = 1
  MaxReset = 0
INVARIANTS FenceWaitedOnce
