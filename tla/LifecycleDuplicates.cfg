SPECIFICATION Spec
CONSTANTS
  Jobs = {j1}
  Malformed = {}
  Workers = {w1}
  SlotLimit = 1
  MaxRetries = 1
  Outcomes = {"COMPLETED"}
  Faults = {"redis", "stall", "slotTTL"}
  MaxDeliveries = 2
  MaxTroubles = 1
  MaxDeletes = 1
INVARIANTS
  NothingLost
  CancelledBeforePickupNeverRuns
PROPERTY
  KeepsPromise
CHECK_DEADLOCK FALSE
