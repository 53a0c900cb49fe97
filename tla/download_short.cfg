SPECIFICATION Spec
CONSTANTS
  OnNode = TRUE
  MaxBytes = 4
INVARIANT
  CompleteOrRejected
CHECK_DEADLOCK FALSE
