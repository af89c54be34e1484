--------------------------- MODULE MCRoutingNetwork ---------------------------
(***************************************************************************)
(* An instance of RoutingNetwork for TLC: n1, n2 and n3 hear each other    *)
(* and n4 is out of reach.  One transmission of n1 and one of n2 fails: n1 *)
(* repairs n3, and n2 repairs n3 or looks for n4 in vain.                  *)
(***************************************************************************)
EXTENDS RoutingNetwork

CONSTANTS n1, n2, n3, n4

MCSelect == [n \in Nodes |-> [x \in Nodes |-> {n1, n2, n3} \ {n}]]

Via(hop, seq, metric) == [hop |-> hop, seq |-> seq, metric |-> metric,
                          active |-> TRUE, learned |-> NoRequest]

\* The routes to n3 were installed at different times.
MCFirstRoutes ==
  [n \in Nodes |-> [x \in Nodes |->
     CASE n = n1 /\ x = n3 -> Via(n2, 1, 2)
       [] n = n2 /\ x = n3 -> Via(n3, 2, 1)
       [] n = n2 /\ x = n4 -> Via(n4, 1, 1)
       [] OTHER -> NoRoute]]

MCMaxFailures == [n \in Nodes |-> IF n \in {n1, n2} THEN 1 ELSE 0]
=============================================================================
