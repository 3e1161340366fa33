SPECIFICATION HallSpec
CONSTANTS
  INITIAL_CAPACITY = 2
  Rows <- SeatNumbers
  Results <- ListResults
  NoRow = NoRow
  MaxFailures = 2
  HALL_ROWS = 2
  HALL_COLS = 3
  MAX_SEATS = 7
  PACKET_LENGTH = 9
INVARIANTS CancelledByZero
