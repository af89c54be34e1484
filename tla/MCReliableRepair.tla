--------------------------- MODULE MCReliableRepair ---------------------------
(***************************************************************************)
(* Instances of ReliableRepair for TLC: every transaction goes to the same *)
(* destination, the case in which transactions can be confused.            *)
(***************************************************************************)
EXTENDS ReliableRepair

CONSTANT c  \* the one destination

MCDestOf == [t \in Sends |-> c]
=============================================================================
