---------------------------- MODULE MCBridgeRpc ----------------------------
(* One printer object is enough: subscriptions are never compared. *)
EXTENDS BridgeRpc

MCObjects == {"print_stats"}
=============================================================================
