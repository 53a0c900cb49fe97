SPECIFICATION FairSpec
CONSTANTS
  j1 = j1
  j2 = j2
  Jobs = {j1, j2}
  Menu <- OneHelper
  OnProgress <- OwnListener
  LogTail = 1
  CanStop = TRUE
  MaxEvents = 0
  MaxFiles <- SomeFiles
  MaxLosses = 1
CHECK_DEADLOCK FALSE
INVARIANTS
  FramesInOrder
PROPERTIES
  JobsSettle
