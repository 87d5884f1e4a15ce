------------------------------ MODULE MCBridge ------------------------------
(***************************************************************************)
(* TLC instances of BridgeConnection.                                      *)
(***************************************************************************)
EXTENDS BridgeConnection, TLC
=============================================================================
