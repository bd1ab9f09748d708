SPECIFICATION Spec
CONSTANTS
  Threads = {t1, t2, t3}
  Tids = {i1, i2}
  Keys = {k1, k2}
  None = None
  MaxAccess = 2
CHECK_DEADLOCK FALSE
INVARIANTS
  InitialisedByItself
