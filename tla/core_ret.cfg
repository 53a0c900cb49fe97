SPECIFICATION Spec
CONSTANTS
  Builds = {"jspi"}
  Fibers = {f1}
  Main = Main
  f1 = f1
  CallerResets = FALSE
  MaxArgs = 1
  MaxDepth = 1
  MaxCommands = 2
INVARIANTS
  ExitCodeIsOwn
CHECK_DEADLOCK FALSE
