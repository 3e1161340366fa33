----------------------------- MODULE MCTransfer -----------------------------
(***************************************************************************)
(* Instances of Transfer for TLC.                                          *)
(***************************************************************************)
EXTENDS Transfer

ShortLists == UNION {[1..n -> Items] : n \in 0..3}
=============================================================================
