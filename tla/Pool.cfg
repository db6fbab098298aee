SPECIFICATION FairSpec
CONSTANTS
  N = 3
  worker_concurrency = 2
  read_count = 2
  MaxTroubles = 2
INVARIANTS TypeOK DispatchNeverWaits NoSlotLeaks
PROPERTIES FetchedIsStarted StopEnds EntryIsServed
CHECK_DEADLOCK FALSE
