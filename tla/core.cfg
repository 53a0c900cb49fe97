SPECIFICATION FairSpec
CONSTANTS
  Builds = {"jspi", "sync"}
  Fibers = {f1, f2}
  Main = Main
  f1 = f1
  f2 = f2
  CallerResets = TRUE
  MaxArgs = 1
  MaxDepth = 1
  MaxCommands = 3
CHECK_DEADLOCK FALSE
INVARIANTS
  StackPointerIsOwn
  ControlAgrees
  ExitCodeIsOwn
PROPERTIES
  ControlMovesOn
