SPECIFICATION Spec
CONSTANTS
  j1 = j1
  j2 = j2
  Jobs = {j1, j2}
  Menu <- EachOnce
  OnProgress <- OwnListener
  LogTail = 1
  CanStop = TRUE
  MaxEvents = 1
  MaxFiles <- OneFile
  MaxLosses = 0
INVARIANT
  NotInterrupted
CHECK_DEADLOCK FALSE
