SPECIFICATION Spec
CONSTANTS
  A = A
  Input <- MCInput
  Text <- MCText
  Shapes <- MCShapes
  FileBytes = {7, 8}
  NL = NL
  CR = CR
  Bad = Bad
  None = None
  ReaderCaps = {1, 2, 3}
  ReadSizes = {1, 3}
  TMP = 2
  WriterCaps = {0, 2, 3}
  WriteSizes = {1, 2, 4}
  MaxBytes = 6
  MaxErrors = 2
  MaxFailures = 2
  MaxInterrupts = 2
  Threads = {t1, t2}
  Nobody = Nobody
  Printers = {t1, t2}
  Free = Free
  Length = 2
  MaxCalls = 2
  Children = {c1, c2}
  Fds = {0, 1, 2, 3, 4, 5, 6, 7, 8, 9, 10}
  PipeCap = 1
  MaxIgnored = 1
  Talkers = {c1}
  Filters = {c1}
  CAP = 3
  Lead = Lead
  Cont = Cont
  Wants = {2, 4}
  MaxFails = 1
  MaxReads = 1
  SIGN = 6
  Words = {4, 12}
  MaxLen = 3
  MaxIo = 2
  Total = 5
  BUF = 2
CHECK_DEADLOCK FALSE
INVARIANTS
  ReaderExact
  WriterExact
  PrintsWhole
  PipesWired
  OutputComplete
  LinesWhole
  CursorIsFile
  TransferExact
PROPERTIES
  WaitingReturns
