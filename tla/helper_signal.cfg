SPECIFICATION Spec
CONSTANTS
  j1 = j1
  j2 = j2
  Jobs = {j1, j2}
  Menu <- OneHelper
  OnProgress <- OwnListener
  LogTail = 1
  CanStop = TRUE
  MaxEvents = 1
  MaxFiles <- OneFile
  MaxLosses = 0
INVARIANT
  AbortedNeverReturns
CHECK_DEADLOCK FALSE
