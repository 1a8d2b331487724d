--------------------------- MODULE MCNATTraversal ---------------------------
(* The instance of NATTraversal for TLC: a peer that is looked for at two  *)
(* addresses, of which one answers, a stranger that punches too, one       *)
(* caller of GetPublicAddress and two STUN servers.                        *)
EXTENDS NATTraversal
CONSTANTS A, a1, a2, a3, s1, s2, q1

TwoAddresses == {<<A, a1>>, <<A, a2>>}
TwoServers   == <<s1, s2>>
PublicAddr   == [ip |-> <<203, 0, 113, 7>>, port |-> 51000]

\* "PUNCH:" and an address; an answer with a SOFTWARE attribute of five bytes,
\* which is padded, before the address; one with four bytes before it and six
\* bytes, which are padded, after it.
PunchData == PunchPrefix \o <<49, 48, 46, 48, 46, 48, 46, 50, 58, 53, 51, 50, 49, 48>>
Software(n) == Attribute(32802, [i \in 1..n |-> 83])
Arrivals ==
  {[from |-> a1, data |-> PunchData], [from |-> a3, data |-> PunchData],
   [from |-> s1, data |-> Response(Software(5) \o MappedTo(PublicAddr))],
   [from |-> s2, data |-> Response(Software(4) \o MappedTo(PublicAddr) \o Software(6))]}

\* The hypothesis of the theorem PortIsPublic of NATTraversalProofs.
ASSUME InstanceAnswers == ServersAnswer
=============================================================================
