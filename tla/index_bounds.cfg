SPECIFICATION Spec
CONSTANTS
  Sessions = {s1}
  Movies = {m1}
  Turnos = {k1}
  Clients = {ana}
  Seats = {a1}
  Options <- AllOptions
  InitialDBs <- Nothing
  MaxOps = 1
  MaxFaults = 0
CHECK_DEADLOCK FALSE
INVARIANTS IndexInBounds
