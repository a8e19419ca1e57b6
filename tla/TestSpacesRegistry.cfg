SPECIFICATION Spec
CONSTANTS
  Spaces = {s1, s2}
  Bots = {b1}
  DefaultBots = {b1}
  Main = Main
  Free = Free
  Orphan = Orphan
  NoRow = NoRow
  MaxQueue = 1
  MaxEdits = 1
  MaxRestarts = 0
  MaxFaults = 0
SYMMETRY Symmetry
INVARIANTS
  RegistryAgrees
  OccupationIsCurrent
CHECK_DEADLOCK FALSE
