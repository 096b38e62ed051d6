CONSTANTS
  t1 = t1
  t2 = t2
  t3 = t3
  None = None
  Topics <- ThreeTopics
  BatchSize = 2
  ClaimLimit = 3
  Lease = 2
  Interval = 1
  Schedule <- TwoDelays
  Answers = {"success", "forbidden", "error"}
  RetryAfter = {}
  MaxTime = 3
  MaxEdits = 2
  MaxFaults = 1
SPECIFICATION Spec
SYMMETRY Symmetry
INVARIANTS
  TypeOK
  NoLeaseLeftBehind
  NoBatchAfterRejection
CHECK_DEADLOCK FALSE
