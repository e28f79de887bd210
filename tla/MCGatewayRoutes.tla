--------------------------- MODULE MCGatewayRoutes ---------------------------
(* GatewayRoutes for TLC: a viewer and an operator who were granted one host *)
(* of two, and an administrator.                                             *)
EXTENDS GatewayRoutes, TLC

CONSTANTS h1, h2

Viewer   == [role |-> "viewer", hosts |-> {h1}]
Operator == [role |-> "operator", hosts |-> {h1}]
Admin    == [role |-> "admin", hosts |-> {}]
MCUsers  == {Viewer, Operator, Admin}
Symmetry == Permutations(Requests)
=============================================================================
