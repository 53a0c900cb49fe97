SPECIFICATION FairSpec
CONSTANT Manifest <- ThreeTests
CHECK_DEADLOCK FALSE
INVARIANTS
  Accounted
PROPERTIES
  ReportIsTrue
  KeepsWatch
  RunEnds
