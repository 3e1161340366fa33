SPECIFICATION FairSpec
CONSTANTS
  Servers = {p1, p2}
  QueueLength = 1
  NThreads = 2
  MaxMsgs = 2
  MaxSignals = 1
CHECK_DEADLOCK FALSE
INVARIANTS TypeOK Accounted
PROPERTIES SendReturns QueueClosed
