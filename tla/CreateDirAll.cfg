SPECIFICATION FsSpec
CONSTANTS
  Threads = {t1}
  Nobody = Nobody
  Letters = {"a"}
  MaxArg = 2
  MaxPath = 5
  MaxDepth = 3
  Batch = 2
  Fds = {3, 4}
  NoFd = NoFd
  Errors = {"EMFILE", "ECONNREFUSED"}
  Addrs = {"v4", "v6"}
  Lists <- AddrLists
  MaxCalls = 1
  Bad = Bad
  Ports = {1, 2}
  Cuts = {0, 3}
  MaxDup = 1
  MaxFaults = 1
  Callers = {t1}
  KeyOrder <- MCOrder
  Values <- MCValues
  Envp <- MCEnvp
  Default <- MCDefault
  Bins = {"usr", "bin", "", "itself"}
  Nul <- MCNul
  Requests <- MCRequests
  Unset = Unset
  Keep = Keep
  EnvCalls = 2
  TimeoutTargets = {"macos", "linux", "linux32"}
  ClockTargets = {"linux", "linux32", "macos", "macos_x86"}
  SEC = 4
  US = 2
  MAX = 2
  WORD = 4
  Never = Never
  FREQ = 3
  MaxTime = 9
CHECK_DEADLOCK FALSE
INVARIANTS
  OkMeansDirectory
