SPECIFICATION Spec
CONSTANTS
  a = a
  b = b
  Waits = {w1}
  Kinds <- MCKinds
  Filters <- MCFilters
  Limit = 2
  MaxSeq = 4
  MaxEpoch = 2
SYMMETRY Symmetry
INVARIANTS
  WaitIsComplete
PROPERTIES
  VerdictIsRight
CHECK_DEADLOCK FALSE
