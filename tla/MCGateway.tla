------------------------------ MODULE MCGateway ------------------------------
(***************************************************************************)
(* The instances of the gateway that the two configurations check.         *)
(***************************************************************************)
EXTENDS GatewayLifecycle
=============================================================================
