------------------------- MODULE MCDiscoveryClient -------------------------
(* The instance of DiscoveryClient for TLC. *)
EXTENDS DiscoveryClient
CONSTANTS g1, c1, c2
=============================================================================
