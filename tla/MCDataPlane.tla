------------------------------ MODULE MCDataPlane ------------------------------
(***************************************************************************)
(* Instances of DataPlane for TLC: a and b send each other packets, which  *)
(* have the same sequence number, through relays that forget.              *)
(***************************************************************************)
EXTENDS DataPlane

CONSTANTS a, b, r, s, p, q

MCSourceOf == [x \in Packets |-> IF x = p THEN a ELSE b]
MCDestOf   == [x \in Packets |-> IF x = p THEN b ELSE a]
MCSeqOf    == [x \in Packets |-> 1]

\* Any neighbor may be the next hop: routes change and may form loops.
MCTowardAny == [n \in Nodes |-> [d \in Nodes |-> IF n = d THEN {} ELSE Nodes \ {n}]]

\* From a over r and s to b.  On the way to b, s may send back to r: a loop
\* between the relays.  To a, s has a direct link.
MCTowardLoop ==
  [n \in Nodes |-> [d \in Nodes |->
     CASE n = d  -> {}
       [] n = a  -> {r}
       [] n = b  -> {s}
       [] n = r  -> {IF d = a THEN a ELSE s}
       [] OTHER  -> IF d = b THEN {b, r} ELSE {a}]]

\* The data plane of the relay s starts anew once, in the middle of anything.
MCRelayResets == [n \in Nodes |-> IF n = s THEN 1 ELSE 0]
MCNoResets    == [n \in Nodes |-> 0]
=============================================================================
