SPECIFICATION MCSpec
CONSTANTS
  Contenders = {t1, t2, t3, t4}
  Nobody = Nobody
  LockCalls = 2
  Threads = {t1, t2, t3}
  RW_WRITER = 8
  MaxCalls = 2
CHECK_DEADLOCK FALSE
INVARIANTS
  MutualExclusion
  MutexWakes
  WriterExcludes
  StateCounts
  NoLostWakeup
PROPERTIES
  ImplementsLock
  LocksReturn
