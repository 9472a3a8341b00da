SPECIFICATION MCSpec
CONSTANTS
  Streams <- MCStreams
  Lists <- MCLists
  Cut <- MCCut
  Beyond = {0, 3}
  MAX_PARA_NUM = 2
  PageSize = 3
  Calls = {sync, async, ctrl}
  Sync = {sync, ctrl}
  Ctrl = {ctrl}
  ReleaseLimit = 2
  Threads = {t1, t2, t3}
  INIT_CACHE_SIZE = 1
  MaxNum = 4
INVARIANTS DeliveredIsIntact ElementInOnePlace ExchangeIsExact ExclusionUntilRaced
INVARIANTS SlotHeldOnce RemainDoesNotDrift
PROPERTIES AllAreDelivered RunsInOrderThenReleases AllAreRun
PROPERTIES SubmittedIsDistributed SyncReleaseIsAnnounced
