SPECIFICATION FairSpec
CONSTANTS
  Sessions = {s1, s2}
  Movies = {m1}
  Turnos = {k1}
  Clients = {ana}
  Seats = {a1}
  Options <- AllOptions
  InitialDBs <- EmptyOrShowing
  MaxOps = 2
  MaxFaults = 2
CHECK_DEADLOCK FALSE
PROPERTIES RequestAnswered
