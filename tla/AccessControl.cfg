SPECIFICATION Spec
CONSTANTS
  Sessions = {p1, p2}
  Owner = owner
  Others = {u1}
  Names = {n1}
  NameEncrypted = FALSE
  None = None
  MaxUpdates = 3
  MaxRenames = 1
  MaxRestarts = 1
INVARIANTS
  AdminsWereNamed
  NoCircularWait
PROPERTIES
  UnracedNameKept
  TrustedAreAdmins
  ImplementsRegister
SYMMETRY SessionSymmetry
CHECK_DEADLOCK FALSE
