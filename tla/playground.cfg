SPECIFICATION FairSpec
CONSTANTS
  MaxLoads = 2
  MaxTasks = 4
  Menu = {"upload", "delete", "rename", "dir", "refresh", "run", "folder"}
  MayFail = TRUE
CHECK_DEADLOCK FALSE
INVARIANTS
  ShowsAtRest
  LogsAgree
PROPERTIES
  PageComesBack
