SPECIFICATION FairSpec
CONSTANTS
  OnNode = TRUE
  MaxBytes = 4
CHECK_DEADLOCK FALSE
INVARIANTS
  BodyReturned
  ProgressAgrees
  FallbackHasCause
PROPERTIES
  Settles
