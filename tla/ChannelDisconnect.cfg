SPECIFICATION Spec
CONSTANTS
  Senders = {s1, s2}
  Receiver = r
  First = s1
  None = None
  SeqSize = 8
  MaxSend = 1
  MaxRecv = 2
CHECK_DEADLOCK FALSE
PROPERTIES
  DisconnectWakes
