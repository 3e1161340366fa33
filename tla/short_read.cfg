SPECIFICATION Spec
CONSTANTS
  PACKET_LENGTH = 4
  Requests = {6, 9}
  MaxRequests = 2
CHECK_DEADLOCK FALSE
INVARIANTS HandledWereSent
