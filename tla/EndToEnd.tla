------------------------------- MODULE EndToEnd -------------------------------
(***************************************************************************)
(* Reliable DATA seen from its two ends: the application at the            *)
(* destination receives a packet at most once, and the application at the  *)
(* source hears DELIVERED only for a packet that was received.  A packet   *)
(* may well be received after its source has given up.                     *)
(***************************************************************************)
EXTENDS Naturals

CONSTANT Packets

VARIABLES
  verdict,   \* what the source knows of each packet
  received   \* how often the destination's application received it

Init ==
  /\ verdict = [p \in Packets |-> "none"]
  /\ received = [p \in Packets |-> 0]

Start(p) ==
  /\ verdict[p] = "none"
  /\ verdict' = [verdict EXCEPT ![p] = "open"]
  /\ UNCHANGED received

Receive(p) ==
  /\ verdict[p] # "none"
  /\ received[p] = 0
  /\ received' = [received EXCEPT ![p] = 1]
  /\ UNCHANGED verdict

Finish(p) ==
  /\ verdict[p] = "open"
  /\ \E v \in {"FAILED"} \cup (IF received[p] > 0 THEN {"DELIVERED"} ELSE {}) :
       verdict' = [verdict EXCEPT ![p] = v]
  /\ UNCHANGED received

Next == \E p \in Packets : Start(p) \/ Receive(p) \/ Finish(p)

Spec == Init /\ [][Next]_<<verdict, received>>
=============================================================================
