-------------------------- MODULE MCNodeLifecycle --------------------------
(* Two services, one of them behind the data plane. *)
EXTENDS NodeLifecycle

MCServices == <<"discovery", "application">>
MCDataTypes == {"application"}
=============================================================================
