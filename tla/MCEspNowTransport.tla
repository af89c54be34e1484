-------------------------- MODULE MCEspNowTransport --------------------------
(***************************************************************************)
(* Constants for checking EspNowTransport with TLC.                        *)
(***************************************************************************)
EXTENDS EspNowTransport

CONSTANT n1

\* The frames go to a neighbor, to all, and to the neighbor again.
TestDestOf == [f \in Frames |-> IF f = 2 THEN Broadcast ELSE n1]
=============================================================================
