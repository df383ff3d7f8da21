---------------------------- MODULE MCPeerNetwork ----------------------------
(* A seed, and a peer that may change its squad and may relay.             *)
EXTENDS PeerNetwork

CONSTANTS p1, s1
=============================================================================
