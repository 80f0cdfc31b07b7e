--------------------------- MODULE MCBridgeServer ---------------------------
(***************************************************************************)
(* Instances of BridgeServer for TLC.                                      *)
(***************************************************************************)
EXTENDS BridgeServer

MCUpdates == {"info", "temp"}
=============================================================================
