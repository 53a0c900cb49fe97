CONSTANTS
  PFIBER_MAX = 2
  m1 = m1
  c1 = c1
  Mutexes = {m1}
  Conds = {c1}
  Onces = {}
  NULL = NULL
  MaxEpoch = 2
  MaxNow = 1
SPECIFICATION Spec
CHECK_DEADLOCK FALSE
INVARIANTS
  FullMeansAlive
