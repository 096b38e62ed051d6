CONSTANTS
  p1 = p1
  p2 = p2
  p3 = p3
  j1 = j1
  None = None
  Omitted = Omitted
  Callers = {p1, p2, p3}
  Jobs = {j1}
  Statuses = {200, 403, 429, 503}
  Waits = {2}
SPECIFICATION ClientFairSpec
INVARIANTS
  RespectsLimit
  SuccessIsReal
PROPERTIES
  CallsEnd
