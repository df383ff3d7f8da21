----------------------------- MODULE MCPeerStore -----------------------------
(* Model checking of PeerStore: two ordinary peers and one seed peer.      *)
EXTENDS PeerStore, TLC

\* Ordinary peers are interchangeable.
Symmetry == Permutations(Peer \ Seed)
=============================================================================
