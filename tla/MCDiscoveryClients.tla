------------------------- MODULE MCDiscoveryClients -------------------------
(* The instance of DiscoveryClients for TLC. *)
EXTENDS DiscoveryClients
CONSTANTS c1, c2, A, B

\* Two peers, one connection each.
TwoPeers == {<<A, c1>>, <<B, c2>>}
=============================================================================
