----------------------------- MODULE MCPackets -----------------------------
(* The instance of Packets for TLC: packets of both versions and of every  *)
(* type, to every kind of destination, and some that are rejected.         *)
EXTENDS Packets

Local == <<10, 0, 0, 2>>
IPv4(protocol, source, dest) ==
  <<69, 0, 0, 20, 18, 52, 64, 0, 64, protocol, 171, 205>> \o source \o dest
IPv6(nextHeader, source, dest) == <<96, 0, 0, 0, 0, 0, nextHeader, 64>> \o source \o dest

V6(first, last) == [i \in 1..16 |-> IF i = 1 THEN first ELSE IF i = 16 THEN last ELSE i]
Mapped          == <<0, 0, 0, 0, 0, 0, 0, 0, 0, 0, 255, 255, 10, 0, 0, 2>>
Peer            == <<10, 0, 0, 3>>

\* A header whose words sum up to 2^17 - 1: its carry carries.
TwoCarries == <<69, 0, 0, 0, 0, 0, 0, 0, 64, 6, 0, 0, 0, 0, 0, 0, 255, 255, 122, 250>>

SomePackets ==
  {IPv4(1, Peer, <<255, 255, 255, 255>>), IPv4(6, Peer, Local),
   IPv4(17, Peer, <<224, 0, 0, 251>>), IPv4(47, Local, Peer), TwoCarries,
   IPv6(58, V6(254, 3), V6(255, 1)), IPv6(17, V6(32, 3), Mapped)}
Rejected ==
  {SubSeq(TwoCarries, 1, 19), SubSeq(IPv6(6, V6(32, 3), V6(32, 2)), 1, 39),
   [i \in 1..20 |-> 80]}
SomeTTLs == {-1, 0, 1, 63, 64, 127, 254, 255, 256}
Mixed == SomePackets \cup Rejected
=============================================================================
