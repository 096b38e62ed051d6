SPECIFICATION FairSpec
CONSTANTS
  Sessions = {p1}
  Kinds <- Toggles
  PoolSize = 3
  None = None
  MaxUpdates = 1
  MaxMessages = 1
PROPERTIES
  ToggleEnds
CHECK_DEADLOCK FALSE
