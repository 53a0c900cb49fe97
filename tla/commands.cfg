CONSTANTS
  MaxCalls = 4
  MaxWorkers = 2
  Signals <- OneSignal
  NoSignal = "none"
  CanShare = TRUE
  OnNode = FALSE
  Jspi = TRUE
  MaxEvents = 1
  Menu <- CommandMenu
SPECIFICATION Spec
CHECK_DEADLOCK FALSE
INVARIANTS
  OneCommandInOrder
  StoppedByOwnSignal
  RepliesAgree
  NoStrayReply
  LoadsAgree
