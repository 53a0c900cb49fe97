CONSTANTS
  MaxCalls = 2
  MaxWorkers = 1
  Signals <- OneSignal
  NoSignal = "none"
  CanShare = TRUE
  OnNode = TRUE
  Jspi = FALSE
  MaxEvents = 0
  Menu <- LifecycleMenu
SPECIFICATION Spec
CHECK_DEADLOCK FALSE
INVARIANTS
  LoadedMeansCore
