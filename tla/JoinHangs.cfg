SPECIFICATION Spec
CONSTANTS
  Children = {s1}
  Targets = {"linux", "macos", "macos_x86"}
CHECK_DEADLOCK FALSE
PROPERTIES
  JoinWaitsForThread
