SPECIFICATION Spec
CONSTANTS
  Sessions = {s1, s2}
  Movies = {m1}
  Turnos = {k1}
  Clients = {ana, beto}
  Seats = {a1, a2}
  Options <- CustomerOptions
  InitialDBs <- ShowingOrSold
  MaxOps = 3
  MaxFaults = 2
SYMMETRY Symmetry
CHECK_DEADLOCK FALSE
INVARIANTS TypeOK DatabaseSound NoTicketLost NoPhantomTicket ErrorsTruthful ListCurrent
