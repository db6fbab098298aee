SPECIFICATION Spec
CONSTANTS
  Deliveries = 2
  Language = "python"
  TimeoutField = 0
  MaxOutput = 3
  Texts <- MCTexts
  ExitCodes = {0, 137}
  Faults = {"crash"}
  MaxTroubles = 1
  Step = 150
INVARIANT CompletedMeansRan
CHECK_DEADLOCK FALSE
