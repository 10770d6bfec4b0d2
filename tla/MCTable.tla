------------------------------ MODULE MCTable ------------------------------
(***************************************************************************)
(* The table with two refreshes that may overlap.                          *)
(***************************************************************************)
EXTENDS TableHistory

CONSTANTS c1, c2, p1, p2, k1, k2, byPid, byName
=============================================================================
