-------------------------- MODULE MCPeerCollection --------------------------
(* PeerCollection on a few peer addresses.                                 *)
EXTENDS PeerCollection, TLC

CONSTANTS p1, p2, p3

\* Addresses are interchangeable: the code compares them for equality only.
PeerSymmetry == Permutations(Peers)
=============================================================================
