SPECIFICATION FairSpec
CONSTANTS
  Items = {x, y}
  Lists <- ShortLists
  NoList = NoList
CHECK_DEADLOCK FALSE
INVARIANTS TypeOK OneInFlight ReceivedInOrder Inv
PROPERTIES NotServedOn AllOrNothing ServerLeaves ClientReturns
