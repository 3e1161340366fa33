SPECIFICATION Spec
CONSTANTS
  Sessions = {s1, s2}
  Movies = {m1, m2}
  Turnos = {k1, k2}
  Clients = {ana}
  Seats = {a1}
  Options <- CatalogueOptions
  InitialDBs <- OneSold
  MaxOps = 4
  MaxFaults = 1
SYMMETRY Symmetry
CHECK_DEADLOCK FALSE
INVARIANTS DatabaseSound HandlesNeverRebound ErrorsTruthful
