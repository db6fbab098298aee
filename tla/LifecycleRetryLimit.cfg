SPECIFICATION Spec
CONSTANTS
  Jobs = {j1}
  Malformed = {}
  Workers = {w1, w2}
  SlotLimit = 1
  MaxRetries = 1
  Outcomes = {"COMPLETED", "KILLED"}
  Faults = {"crash"}
  MaxDeliveries = 2
  MaxTroubles = 1
  MaxDeletes = 0
INVARIANT
  NotRerunBeyondRetries
SYMMETRY WorkerSymmetry
CHECK_DEADLOCK FALSE
