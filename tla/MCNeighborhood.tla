--------------------------- MODULE MCNeighborhood ---------------------------
(***************************************************************************)
(* Constants for checking Neighborhood with TLC.                           *)
(***************************************************************************)
EXTENDS Neighborhood

CONSTANTS p1, p2, p3
=============================================================================
