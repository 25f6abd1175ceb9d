------------------------------ MODULE MCGolden ------------------------------
(* Small instances of the golden image for TLC. *)
EXTENDS Golden

CONSTANTS w1, w2

LiveGolden == {"stale", "good"}
=============================================================================
