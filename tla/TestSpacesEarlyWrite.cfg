SPECIFICATION Spec
CONSTANTS
  Spaces = {s1}
  Bots = {b1}
  DefaultBots = {b1}
  Main = Main
  Free = Free
  Orphan = Orphan
  NoRow = NoRow
  MaxQueue = 1
  MaxEdits = 1
  MaxRestarts = 1
  MaxFaults = 0
PROPERTIES
  MainRowReadBeforeWritten
CHECK_DEADLOCK FALSE
