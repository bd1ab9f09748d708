SPECIFICATION Spec
CONSTANTS
  Keys = {k1, k2, k3}
  Values = {v1, v2}
  None = None
  Hashes = {0, 3}
  MinCap = 2
  MaxCap = 8
  SetCap = 4
  Threads = {t1, t2}
  Null = Null
  Junk = Junk
  NumClasses = 2
  GRAN = 4
  ARENA = 4
  MemSize = 8
  MaxLive = 2
  Nobody = Nobody
  B = 3
  LEN = 2
  KEYS = 2
  MaxMsg = 5
CHECK_DEADLOCK FALSE
INVARIANTS
  TablesSound
  BlocksSound
  OneHash
PROPERTIES
  ImplementsMap
