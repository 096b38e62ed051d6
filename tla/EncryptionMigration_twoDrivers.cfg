CONSTANTS
  d1 = d1
  d2 = d2
  w1 = w1
  None = None
  Drivers <- MCDrivers
  Writers = {}
  Tables <- ThreeTables
  Singles = {1}
  Ids = {1}
  Policies <- FullOrNone
  BatchSize = 1
  MaxStarts = 1
  MaxWrites = 0
  MaxFaults = 0
SPECIFICATION Spec
SYMMETRY Symmetry
INVARIANTS
  FormsMatchPolicy
CHECK_DEADLOCK FALSE
