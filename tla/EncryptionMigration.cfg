CONSTANTS
  d1 = d1
  d2 = d2
  w1 = w1
  None = None
  Drivers <- MCDrivers
  Writers = {w1}
  Tables <- ThreeTables
  Singles = {1}
  Ids = {1}
  Policies <- FullOrNone
  BatchSize = 1
  MaxStarts = 1
  MaxWrites = 1
  MaxFaults = 1
SPECIFICATION Spec
SYMMETRY Symmetry
INVARIANTS
  TypeOK
  UntouchedFormsMatchPolicy
PROPERTIES
  CursorMovesOn
CHECK_DEADLOCK FALSE
