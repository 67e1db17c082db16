---------------------------- MODULE MCPeerRefresh ----------------------------
(* Two nodes that may take over each other's address, and two objects of    *)
(* the API server.                                                          *)
EXTENDS PeerRefresh, TLC

CONSTANTS n1, n2, i1, i2, i3

MCInitialNodes == n1 :> i1 @@ n2 :> i2
MCInitialSlice == {i2}
=============================================================================
