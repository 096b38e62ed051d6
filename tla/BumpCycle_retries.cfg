CONSTANTS
  t1 = t1
  t2 = t2
  t3 = t3
  None = None
  Topics <- TwoTopics
  BatchSize = 2
  ClaimLimit = 2
  Lease = 2
  Interval = 1
  Schedule <- TwoDelays
  Answers = {"success", "retry"}
  RetryAfter = {1}
  MaxTime = 3
  MaxEdits = 1
  MaxFaults = 1
SPECIFICATION FairSpec
PROPERTIES
  InDoubtWaitsForLease
  RetriesFollowSchedule
  JobsInDoubtAreSettled
  DueIsServed
CHECK_DEADLOCK FALSE
