SPECIFICATION Spec
CONSTANTS
  Jobs = {j1}
  Malformed = {}
  Workers = {w1, w2}
  SlotLimit = 1
  MaxRetries = 1
  Outcomes = {"COMPLETED", "KILLED"}
  Faults = {"cancelTTL"}
  MaxDeliveries = 1
  MaxTroubles = 0
  MaxDeletes = 1
INVARIANT
  CancelledBeforePickupNeverRuns
SYMMETRY WorkerSymmetry
CHECK_DEADLOCK FALSE
