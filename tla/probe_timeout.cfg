CONSTANTS
  MaxCalls = 2
  MaxWorkers = 1
  Signals <- OneSignal
  NoSignal = "none"
  CanShare = TRUE
  OnNode = FALSE
  Jspi = TRUE
  MaxEvents = 0
  Menu <- EndlessProbeMenu
SPECIFICATION FairSpec
CHECK_DEADLOCK FALSE
PROPERTIES
  ProbeTimeoutStops
