SPECIFICATION FairSpec
CONSTANTS
  Calls = {c1, c2, c3}
  Threshold = 3
  Cooldown = 3
INVARIANTS
  TypeOK
  ClosedBelowThreshold
PROPERTY
  RecoversWithRedis
