CONSTANTS
  p1 = p1
  p2 = p2
  t1 = t1
  t2 = t2
  None = None
  Sessions <- TwoSessions
  Topics <- TwoTopics
  Kinds <- AllKinds
  Intervals = {1}
  RetryWait = 1
  Encrypted <- FullPolicy
  MaxTime = 1
  MaxOps = 2
SPECIFICATION FairSpec
INVARIANTS
  TypeOK
  UnracedScheduleMatches
PROPERTIES
  RemovedStaysRemoved
  UnracedPauseSticks
  SessionsEnd
CHECK_DEADLOCK FALSE
