SPECIFICATION FairSpec
CONSTANTS
  Jobs = {j1}
  Malformed = {}
  Workers = {w1, w2}
  SlotLimit = 1
  MaxRetries = 1
  Outcomes = {"COMPLETED", "KILLED"}
  Faults = {"crash", "docker"}
  MaxDeliveries = 3
  MaxTroubles = 2
  MaxDeletes = 1
INVARIANTS
  TypeOK
  DeadLettersAreSpent
  SettledRecordAgrees
  SettledHoldsNoSlot
  NoDoubleProcessing
  RunsBounded
PROPERTY
  EventuallyFinished
CHECK_DEADLOCK FALSE
