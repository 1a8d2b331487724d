------------------------- MODULE MCDiscoveryServer -------------------------
(* Instances of DiscoveryServer for TLC. *)
EXTENDS DiscoveryServer
CONSTANTS c1, c2, A, B

\* Two peers, one connection each.
TwoPeers == {<<A, c1>>, <<B, c2>>}
\* One peer that registers again from a second connection while the server
\* still holds the first.
Reconnect == {<<A, c1>>, <<A, c2>>}
\* A connection that registers two peers.
TwoOnOne == {<<A, c1>>, <<B, c1>>}
=============================================================================
