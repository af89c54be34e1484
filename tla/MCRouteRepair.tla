----------------------------- MODULE MCRouteRepair -----------------------------
(***************************************************************************)
(* Two destinations and two neighbors for model checking module            *)
(* RouteRepair.                                                            *)
(***************************************************************************)
EXTENDS RouteRepair

CONSTANTS d1, d2, h1, h2
=============================================================================
