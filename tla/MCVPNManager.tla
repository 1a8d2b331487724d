---------------------------- MODULE MCVPNManager ----------------------------
(* The instance of VPNManager for TLC: a /29 in a space of 16 addresses. *)
EXTENDS VPNManager
CONSTANTS p1, p2, p3
=============================================================================
