------------------------------ MODULE Packets ------------------------------
(***************************************************************************)
(* The packets of the VPN (internal/vpn/packet.go): one packet after the   *)
(* other is parsed and given to the handler of its type, which may call    *)
(* SetTTL and CalculateChecksum on it.  Both write into p.Data, and        *)
(* p.Source and p.Dest are slices of p.Data: here, the positions of their  *)
(* first and last byte.  data[1] is p.Data[0].                             *)
(***************************************************************************)
EXTENDS Integers, Sequences

CONSTANTS
  Arrivals,   \* what ProcessPacket is called with, sequences of bytes
  TTLs,       \* what SetTTL is called with
  LocalIP,    \* what IsLocalTraffic is called with
  NoPacket,   \* an error instead of a packet
  NoChecksum

Byte == 0..255
IsUint16(n) == n \in Nat /\ n <= 65535

ASSUME PacketAssumption ==
  /\ Arrivals \subseteq Seq(Byte)
  /\ TTLs \subseteq Int
  /\ NoChecksum \notin Nat

VARIABLES
  data,      \* p.Data
  packet,    \* the other fields of p
  checksum,  \* the result of CalculateChecksum for the data as they are
  arrived    \* history: the data as they arrived

vars == <<data, packet, checksum, arrived>>

-----------------------------------------------------------------------------
(* Parsing. *)

TypeOf(protocol, other) ==
  CASE protocol = 1  -> "ICMP"
    [] protocol = 6  -> "TCP"
    [] protocol = 17 -> "UDP"
    [] OTHER         -> other

parseIPv4Packet(d) ==
  [type |-> TypeOf(d[10], "IPv4"), source |-> <<13, 16>>, dest |-> <<17, 20>>]

parseIPv6Packet(d) ==
  IF Len(d) < 40
    THEN NoPacket
    ELSE [type |-> TypeOf(d[7], "IPv6"), source |-> <<9, 24>>, dest |-> <<25, 40>>]

parsePacket(d) ==
  IF Len(d) < 20 THEN NoPacket
  ELSE IF d[1] \div 16 = 4 THEN parseIPv4Packet(d)
  ELSE IF d[1] \div 16 = 6 THEN parseIPv6Packet(d)
  ELSE NoPacket

Slice(d, s) == SubSeq(d, s[1], s[2])

\* net.IP.Equal: an IPv4 address and the IPv6 address it is mapped to are equal.
To16(ip) ==
  IF Len(ip) = 4 THEN <<0, 0, 0, 0, 0, 0, 0, 0, 0, 0, 255, 255>> \o ip ELSE ip

IsLocalTraffic(dest) == To16(dest) = To16(LocalIP)
IsBroadcast(dest)    == dest = <<255, 255, 255, 255>>
IsMulticast(dest)    == IF Len(dest) = 4 THEN dest[1] \in 224..239 ELSE dest[1] = 255

Verdict(d) ==
  LET dest == Slice(d, packet.dest)
  IN  <<IsLocalTraffic(dest), IsBroadcast(dest), IsMulticast(dest)>>

-----------------------------------------------------------------------------
(* The checksum. *)

Word(d, i) == 256 * d[i] + d[i + 1]

\* The words of the first twenty bytes.
HeaderSum(d) ==
  Word(d, 1) + Word(d, 3) + Word(d, 5) + Word(d, 7) + Word(d, 9)
    + Word(d, 11) + Word(d, 13) + Word(d, 15) + Word(d, 17) + Word(d, 19)

Carry(sum) == IF sum > 65535 THEN (sum % 65536) + (sum \div 65536) ELSE sum

\* Mutant: the carry of the carry is left out.
FoldedOnce(sum) == Carry(sum) % 65536

\* Ten words leave no carry after two rounds of the loop (FoldedIsWord).
Folded(sum) == Carry(Carry(sum))

-----------------------------------------------------------------------------
TypeOK ==
  /\ data \in Seq(Byte)
  /\ packet # NoPacket =>
       /\ packet.type \in {"ICMP", "TCP", "UDP", "IPv4", "IPv6"}
       /\ packet.dest[2] <= Len(data)
  /\ checksum # NoChecksum => IsUint16(checksum)
  /\ arrived \in Arrivals

\* The first packet.
Init ==
  /\ arrived \in Arrivals
  /\ data = arrived
  /\ packet = parsePacket(arrived)
  /\ checksum = NoChecksum

ProcessPacket(d) ==
  /\ arrived' = d
  /\ data' = d
  /\ packet' = parsePacket(d)
  /\ checksum' = NoChecksum

\* Mutant: the value is not checked.
SetTTLUnchecked(ttl) ==
  /\ packet # NoPacket
  /\ data' = [data EXCEPT ![9] = ttl]
  /\ checksum' = NoChecksum
  /\ UNCHANGED <<packet, arrived>>

\* Mutant: the byte after the TTL, counted from one, is set.
SetTTLNext(ttl) ==
  /\ packet # NoPacket
  /\ ttl \in Byte
  /\ data' = [data EXCEPT ![10] = ttl]
  /\ checksum' = NoChecksum
  /\ UNCHANGED <<packet, arrived>>

SetTTL(ttl) ==
  /\ packet # NoPacket
  /\ ttl \in Byte
  /\ data' = [data EXCEPT ![9] = ttl]
  /\ checksum' = NoChecksum
  /\ UNCHANGED <<packet, arrived>>

\* Mutant: the bytes after the checksum, counted from one, are cleared.
CalculateChecksumNext ==
  /\ packet # NoPacket
  /\ data' = [data EXCEPT ![12] = 0, ![13] = 0]
  /\ checksum' = 65535 - Folded(HeaderSum(data'))
  /\ UNCHANGED <<packet, arrived>>

\* Mutant: everything from the checksum to the end of the header is cleared.
CalculateChecksumToEnd ==
  /\ packet # NoPacket
  /\ data' = [i \in DOMAIN data |-> IF i \in 11..20 THEN 0 ELSE data[i]]
  /\ checksum' = 65535 - Folded(HeaderSum(data'))
  /\ UNCHANGED <<packet, arrived>>

\* The checksum in the data is cleared, whatever the version, and not replaced.
CalculateChecksum ==
  /\ packet # NoPacket
  /\ data' = [data EXCEPT ![11] = 0, ![12] = 0]
  /\ checksum' = 65535 - Folded(HeaderSum(data'))
  /\ UNCHANGED <<packet, arrived>>

Next ==
  \/ \E d \in Arrivals : ProcessPacket(d)
  \/ \E ttl \in TTLs : SetTTL(ttl)
  \/ CalculateChecksum

Spec == Init /\ [][Next]_vars

-----------------------------------------------------------------------------
(* The checksum of an IPv4 header without options is right: once it is in  *)
(* its place the words of the header sum up to zero in the arithmetic of   *)
(* RFC 1071, modulo 2^16 - 1, and not to zero itself, whatever carries     *)
(* CalculateChecksum meets.                                                *)
ChecksumVerifies ==
  checksum # NoChecksum /\ data[1] = 69 =>
    LET sum == HeaderSum([data EXCEPT ![11] = checksum \div 256, ![12] = checksum % 256])
    IN  sum > 0 /\ sum % 65535 = 0

(* What SetTTL and CalculateChecksum write into the data under the slices  *)
(* leaves the addresses of an IPv4 packet alone.  (In an IPv6 packet both  *)
(* write into p.Source.)                                                   *)
SourceKept ==
  packet # NoPacket /\ data[1] \div 16 = 4 =>
    Slice(data, packet.source) = Slice(arrived, packet.source)

(* In packets of both versions they leave the destination alone: what      *)
(* IsLocalTraffic, IsBroadcast and IsMulticast say of a packet does not    *)
(* depend on what a handler has done to it before.                         *)
VerdictKept == packet # NoPacket => Verdict(data) = Verdict(arrived)

(* A packet that is written back and processed again goes to the same      *)
(* handler.                                                                *)
HandlerKept == parsePacket(data) = packet
=============================================================================
