SPECIFICATION SyncFairSpec
CONSTANTS
  Signallers = {"s1", "s2"}
  SyncWaiters = {"w1", "w2"}
  Ids = {1, 2}
  IdsOf <- MCIdsOf
  MaxFence = 1
  MaxReset = 1
INVARIANTS LaterWaitSkips
PROPERTIES OnlyGuestClears SignalEndsWait
