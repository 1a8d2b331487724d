-------------------------- MODULE MCConnectionPool --------------------------
(* The instance of ConnectionPool for TLC. *)
EXTENDS ConnectionPool
CONSTANTS p1, p2, c1, c2, g1, g2
=============================================================================
