SPECIFICATION FairSpec
CONSTANTS
  Deliveries = 2
  Language = "java"
  TimeoutField = 0
  MaxOutput = 3
  Texts <- MCTexts
  ExitCodes = {137}
  Faults = {"crash", "outage", "start", "command", "output", "workdir"}
  MaxTroubles = 1
  Step = 240
INVARIANTS TypeOK NothingRunsUnsupervised OomIsNotOurKill SamplerEndsWithRun TruncationIsReported
PROPERTIES ReaperSparesActive ExecuteEnds LeftoversGo
CHECK_DEADLOCK FALSE
