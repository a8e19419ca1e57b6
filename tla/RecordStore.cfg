SPECIFICATION FairSpec
CONSTANTS
  Records = {1, 2, 3}
  None = None
  Sizes = {1, 2}
  MaxRecords = 2
  MaxBytes = 3
  PageSize = 1
  MaxRounds = 2
  MaxQueue = 2
  MaxRestarts = 2
  MaxFaults = 1
  MaxReads = 1
CONSTRAINT Bounded
INVARIANTS
  IndexMirrorsRows
  ReadsAreSound
PROPERTIES
  NumbersAreKept
  AppendsSettle
  ImplementsLog
  ReadTerminates
CHECK_DEADLOCK FALSE
