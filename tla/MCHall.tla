------------------------------- MODULE MCHall -------------------------------
(* An instance of Hall for TLC: lists of up to five rows, some repeated.   *)
EXTENDS Hall

ListResults == UNION {[1..n -> {0, 1}] : n \in 0..5}
SeatNumbers == 0..5
=============================================================================
