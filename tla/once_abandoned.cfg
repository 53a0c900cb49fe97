CONSTANTS
  PFIBER_MAX = 1
  m1 = m1
  c1 = c1
  o1 = o1
  Mutexes = {m1}
  Conds = {c1}
  Onces = {o1}
  NULL = NULL
  MaxEpoch = 3
  MaxNow = 1
SPECIFICATION Spec
CHECK_DEADLOCK FALSE
INVARIANTS
  OnceWaitsForAnInitializer
