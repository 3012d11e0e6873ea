---------------------------- MODULE MCDeployView ----------------------------
(* DeployView for TLC. *)
EXTENDS DeployView

\* drive has four stages, each the same three steps; two show their order.
TwoStages == <<"starting", "registering_route">>
=============================================================================
