CONSTANTS
  s1 = s1
  s2 = s2
  t1 = t1
  t2 = t2
  None = None
  Schedulers <- MCSchedulers
  Topics <- TwoTopics
  DueTimes = {0}
  Lease = 1
  ClaimLimit = 2
  MaxTime = 1
  MaxEdits = 1
SPECIFICATION FairSpec
INVARIANTS
  OneLiveHolder
PROPERTIES
  ImplementsLeaseTable
  ClaimEnds
CHECK_DEADLOCK FALSE
