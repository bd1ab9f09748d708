SPECIFICATION Spec
CONSTANTS
  Targets = {"macos", "linux", "linux32"}
  SEC = 4
  US = 2
  MAX = 2
  WORD = 4
  Never = Never
CHECK_DEADLOCK FALSE
INVARIANTS
  SleepsAtLeast
