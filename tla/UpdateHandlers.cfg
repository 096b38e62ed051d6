SPECIFICATION FairSpec
CONSTANTS
  Sessions = {p1, p2}
  Kinds <- LongKinds
  PoolSize = 3
  None = None
  MaxUpdates = 2
  MaxMessages = 3
INVARIANTS
  TypeOK
  OnlyKnownCircles
  MenuIsFound
PROPERTIES
  UpdatesEnd
CHECK_DEADLOCK FALSE
