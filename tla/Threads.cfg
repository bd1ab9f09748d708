SPECIFICATION MCSpec
CONSTANTS
  None = None
  SeqSize = 9
  Producers = {p1, p2}
  Consumers = {c1, c2, c3}
  MaxNotify = 2
  Meeting = {t1, t2, t3, t4}
  N = 3
  MaxWaits = 2
  Senders = {s1, s2}
  Receiver = r
  First = s1
  MaxSend = 2
  MaxRecv = 3
  Nobody = Nobody
  SeqLimit = 9
  Callers = {t1, t2, t3}
  Absent = Absent
  Ops = {"get", "set", "get_or_init"}
  Tids = {i1, i2}
  Keys = {k1, k2}
  MaxAccess = 2
  Owner = o
  Others = {u1, u2}
  MaxParks = 4
  MaxUnparks = 3
  Children = {s1, s2}
  Targets = {"linux", "macos", "macos_x86"}
  Scoped = {c1, c2, c3}
  MaxSpawns = 2
CHECK_DEADLOCK FALSE
INVARIANTS
  NoLostNotify
  Rendezvous
  Delivers
  OnceSafe
  ThreadLocal
  TokenIsUnseenUnpark
  PacketSafe
  NothingLeaks
  ScopeSafe
  OwnReply
PROPERTIES
  CondvarsWake
  CallsReturn
