CONSTANTS
  MaxCalls = 3
  MaxWorkers = 2
  Signals <- OneSignal
  NoSignal = "none"
  CanShare = TRUE
  OnNode = TRUE
  Jspi = FALSE
  MaxEvents = 0
  Menu <- LifecycleMenu
SPECIFICATION FairSpec
CHECK_DEADLOCK FALSE
INVARIANTS
  NothingLost
  AnswersOwnCalls
  FailureHitsOwnCalls
PROPERTIES
  KeepsLedger
  EveryCallSettles
  AbortFreesWorker
