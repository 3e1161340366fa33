SPECIFICATION FairSpec
CONSTANTS
  Servers = {p1}
  QueueLength = 1
  NThreads = 1
  MaxMsgs = 1
  MaxSignals = 0
CHECK_DEADLOCK FALSE
PROPERTIES OrphanEnds
