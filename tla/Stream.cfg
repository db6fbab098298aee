SPECIFICATION FairSpec
CONSTANTS
  Conns = {c1}
  User = u
  Address = a
  Users = {u}
  Addresses = {a}
  behind = behind
  ahead = ahead
  Replicas = {behind, ahead}
  Skew <- MCSkew
  MaxSkew = 1
  WINDOW = 3
  UserLimit = 2
  PremiumLimit = 2
  SlotLimit = 1
  MaxTime = 3
  MaxRequests = 2
  MaxTroubles = 1
INVARIANTS TypeOK EarlyOutputIsHeard SlidingWindow RetryIsExact
PROPERTIES ClosedIsUncounted StreamEnds VanishedIsDropped SubscriberIsClosed
CHECK_DEADLOCK FALSE
