SPECIFICATION FairSpec
CONSTANTS
  Spaces = {s1}
  Bots = {b1}
  DefaultBots = {}
  Main = Main
  Free = Free
  Orphan = Orphan
  NoRow = NoRow
  MaxQueue = 2
  MaxEdits = 1
  MaxRestarts = 1
  MaxFaults = 1
INVARIANTS
  ActiveRunsItsScene
  
PROPERTIES
  UnreadIsNotOverwritten
  DeletedSpaceFreesItsBots
CHECK_DEADLOCK FALSE
