SPECIFICATION Spec
CONSTANTS
  Jobs = {j1, j2}
  Malformed = {j2}
  Workers = {w1}
  SlotLimit = 1
  MaxRetries = 1
  Outcomes = {"COMPLETED"}
  Faults = {"cancelTTL", "recordTTL"}
  MaxDeliveries = 1
  MaxTroubles = 1
  MaxDeletes = 1
INVARIANTS
  QuotaHonoured
  StreamIsUnfinishedWork
CHECK_DEADLOCK FALSE
