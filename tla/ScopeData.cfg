SPECIFICATION Spec
CONSTANTS
  Children = {c1, c2}
CHECK_DEADLOCK FALSE
INVARIANTS
  DataOutlivesThreads
