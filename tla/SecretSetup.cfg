SPECIFICATION Spec
CONSTANTS
  p1 = p1
  p2 = p2
  pwA = pwA
  pwB = pwB
  None = none
  Sessions <- MCSessions
  Passwords <- MCPasswords
  MaxThrottle = 2
  MaxTime = 2
  MaxOps = 4
  MaxRestarts = 1
SYMMETRY MCSymmetry
INVARIANTS
  TypeOK
  EnvelopeOpens
  UnorphanedDataReadable
  UnracedPasswordSticks
  LockoutBounded
CHECK_DEADLOCK FALSE
