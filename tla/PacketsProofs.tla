--------------------------- MODULE PacketsProofs ---------------------------
(* Type correctness of Packets, the checksum of every header, and that no  *)
(* call on a packet changes its addresses or its handler.                  *)
EXTENDS Packets, SequenceTheorems, TLAPS

Header(d) == d \in Seq(Byte) /\ Len(d) >= 20

\* Two rounds of carrying leave a word, and subtract a multiple of 2^16 - 1.
LEMMA FoldedIsWord ==
  ASSUME NEW sum \in Nat, sum <= 655350
  PROVE  /\ IsUint16(Folded(sum))
         /\ \E k \in Nat : sum - Folded(sum) = 65535 * k
<1> DEFINE q == sum \div 65536
           once == Carry(sum)
           r == once \div 65536
<1>1. /\ q \in Nat
      /\ once \in Nat /\ once <= 65544
      /\ once = sum \/ once = sum - 65535 * q
  BY SMT DEF Carry
<1>2. /\ r \in Nat
      /\ IsUint16(Carry(once))
      /\ Carry(once) = once \/ Carry(once) = once - 65535 * r
  BY SMT, <1>1 DEF Carry, IsUint16
<1>3. Folded(sum) = Carry(once)
  BY SMT DEF Folded
<1> HIDE DEF once
<1>4. sum - Carry(once) \in {0, 65535 * q, 65535 * r, 65535 * (q + r)}
  BY SMT, <1>1, <1>2
<1>5. 0 \in Nat /\ q \in Nat /\ r \in Nat /\ q + r \in Nat
  BY SMT, <1>1, <1>2
<1> HIDE DEF q, r
<1>6. \E k \in Nat : sum - Carry(once) = 65535 * k
  BY SMT, <1>4, <1>5
<1> QED BY SMT, <1>2, <1>3, <1>6

LEMMA BytesMakeWord ==
  ASSUME NEW a \in Byte, NEW b \in Byte
  PROVE  IsUint16(256 * a + b) /\ 256 * a + b \in Int
BY DEF Byte, IsUint16

LEMMA HeaderSumBound ==
  ASSUME NEW d, Header(d)
  PROVE  /\ \A i \in 1..20 : d[i] \in Byte
         /\ HeaderSum(d) \in Nat /\ HeaderSum(d) <= 655350
<1>1. \A i \in 1..20 : d[i] \in Byte
  BY SMT DEF Header
<1>2. ASSUME NEW i \in 1..19 PROVE IsUint16(Word(d, i))
  <2>1. d[i] \in Byte /\ d[i + 1] \in Byte
    BY SMT, <1>1
  <2>2. Word(d, i) = 256 * d[i] + d[i + 1]
    BY Zenon DEF Word
  <2> QED BY <2>1, <2>2, BytesMakeWord
<1> HIDE DEF Word
<1>3. HeaderSum(d) \in Nat /\ HeaderSum(d) <= 655350
  BY SMT, <1>2 DEF HeaderSum, IsUint16
<1> QED BY SMT, <1>1, <1>3

\* The words with the checksum in its place, when its place was empty.
LEMMA ChecksumAdds ==
  ASSUME NEW d, Header(d), d[11] = 0, d[12] = 0, NEW ck \in Nat, IsUint16(ck)
  PROVE  HeaderSum([d EXCEPT ![11] = ck \div 256, ![12] = ck % 256])
         = HeaderSum(d) + ck
<1> DEFINE e == [d EXCEPT ![11] = ck \div 256, ![12] = ck % 256]
<1>1. \A i \in 1..20 : d[i] \in Byte
  BY HeaderSumBound
<1>0. \A i \in 1..20 : i \in DOMAIN d
  BY DEF Header
<1>2. /\ e[11] = ck \div 256 /\ e[12] = ck % 256
      /\ \A i \in 1..20 : i # 11 /\ i # 12 => e[i] = d[i]
  BY <1>0
<1> HIDE DEF e
<1>3. Word(e, 11) = ck /\ Word(d, 11) = 0
  BY <1>2 DEF Word, IsUint16
<1>4. ASSUME NEW i \in 1..19, i # 10, i # 11, i # 12
      PROVE  Word(e, i) = Word(d, i) /\ Word(d, i) \in Int
  <2>0. i \in 1..20 /\ i + 1 \in 1..20 /\ i + 1 # 11 /\ i + 1 # 12
    BY SMT, <1>4
  <2>1. /\ e[i] = d[i] /\ e[i + 1] = d[i + 1]
        /\ d[i] \in Byte /\ d[i + 1] \in Byte
    BY Zenon, <1>1, <1>2, <1>4, <2>0
  <2>2. /\ Word(d, i) = 256 * d[i] + d[i + 1]
        /\ Word(e, i) = 256 * e[i] + e[i + 1]
    BY Zenon DEF Word
  <2> QED BY <2>1, <2>2, BytesMakeWord
<1> HIDE DEF Word
<1>5. HeaderSum(e) = HeaderSum(d) + ck
  BY <1>3, <1>4 DEF HeaderSum, IsUint16
<1> QED BY <1>5 DEF e

-----------------------------------------------------------------------------
\* The data and the packet still belong together: only the TTL and the checksum
\* of what arrived have been written to.
Untouched ==
  /\ Len(data) = Len(arrived)
  /\ \A i \in 1..Len(data) : i \notin {9, 11, 12} => data[i] = arrived[i]
  /\ packet = parsePacket(arrived)

ChecksumIsOfData ==
  checksum # NoChecksum =>
    /\ packet # NoPacket
    /\ data[11] = 0 /\ data[12] = 0
    /\ checksum = 65535 - Folded(HeaderSum(data))

IInv == TypeOK /\ Untouched /\ ChecksumIsOfData

LEMMA Parsed ==
  ASSUME NEW d \in Seq(Byte), parsePacket(d) # NoPacket
  PROVE  LET p == parsePacket(d) IN
         /\ Len(d) >= 20
         /\ p.type \in {"ICMP", "TCP", "UDP", "IPv4", "IPv6"}
         /\ \/ p.source = <<13, 16>> /\ p.dest = <<17, 20>>
            \/ p.source = <<9, 24>> /\ p.dest = <<25, 40>> /\ Len(d) >= 40
         /\ d[1] \div 16 = 4 => p.source = <<13, 16>>
         /\ p.dest[2] <= Len(d)
BY DEF parsePacket, parseIPv4Packet, parseIPv6Packet, TypeOf

LEMMA PacketHeader ==
  ASSUME IInv, packet # NoPacket
  PROVE  Header(data)
BY Parsed, PacketAssumption DEF IInv, TypeOK, Untouched, Header

LEMMA ArrivalInv ==
  ASSUME NEW d \in Arrivals
  PROVE  d \in Seq(Byte) /\ (parsePacket(d) # NoPacket =>
           /\ parsePacket(d).type \in {"ICMP", "TCP", "UDP", "IPv4", "IPv6"}
           /\ parsePacket(d).dest[2] <= Len(d))
BY Parsed, PacketAssumption

LEMMA InitIInv == Init => IInv
BY ArrivalInv DEF Init, IInv, TypeOK, Untouched, ChecksumIsOfData

LEMMA StepIInv == IInv /\ [Next]_vars => IInv'
<1> SUFFICES ASSUME IInv, [Next]_vars PROVE IInv' OBVIOUS
<1>1. ASSUME NEW d \in Arrivals, ProcessPacket(d) PROVE IInv'
  BY <1>1, ArrivalInv DEF ProcessPacket, IInv, TypeOK, Untouched, ChecksumIsOfData
<1>2. ASSUME NEW ttl \in TTLs, SetTTL(ttl) PROVE IInv'
  <2>1. Header(data) /\ 9 \in 1..Len(data)
    BY <1>2, PacketHeader DEF SetTTL, Header
  <2>2. data' \in Seq(Byte) /\ Len(data') = Len(data)
    BY <1>2, <2>1 DEF SetTTL, Header
  <2>3. \A i \in 1..Len(data) : i # 9 => data'[i] = data[i]
    BY <1>2, <2>1 DEF SetTTL, Header
  <2> QED BY <1>2, <2>2, <2>3 DEF SetTTL, IInv, TypeOK, Untouched, ChecksumIsOfData
<1>3. CASE CalculateChecksum
  <2>1. Header(data) /\ 11 \in 1..Len(data) /\ 12 \in 1..Len(data)
    BY <1>3, PacketHeader DEF CalculateChecksum, Header
  <2>2. data' \in Seq(Byte) /\ Len(data') = Len(data)
    BY <1>3, <2>1 DEF CalculateChecksum, Header, Byte
  <2>3. /\ data'[11] = 0 /\ data'[12] = 0
        /\ \A i \in 1..Len(data) : i \notin {11, 12} => data'[i] = data[i]
    BY <1>3, <2>1 DEF CalculateChecksum, Header
  <2>4. Header(data')
    BY <2>1, <2>2 DEF Header
  <2>5. IsUint16(checksum')
    <3>1. IsUint16(Folded(HeaderSum(data')))
      BY <2>4, HeaderSumBound, FoldedIsWord
    <3> QED BY SMT, <1>3, <3>1 DEF CalculateChecksum, IsUint16
  <2> QED BY <1>3, <2>2, <2>3, <2>5
          DEF CalculateChecksum, IInv, TypeOK, Untouched, ChecksumIsOfData
<1>4. CASE UNCHANGED vars
  BY <1>4 DEF vars, IInv, TypeOK, Untouched, ChecksumIsOfData
<1> QED BY <1>1, <1>2, <1>3, <1>4 DEF Next

LEMMA IInvInvariant == Spec => []IInv
BY InitIInv, StepIInv, PTL DEF Spec

-----------------------------------------------------------------------------
\* The data stay bytes and the packet's slices stay inside them.
THEOREM PacketTypes == Spec => []TypeOK
<1>1. IInv => TypeOK BY DEF IInv
<1> QED BY IInvInvariant, <1>1, PTL

LEMMA Verifies == IInv => ChecksumVerifies
<1> DEFINE t == HeaderSum([data EXCEPT ![11] = checksum \div 256, ![12] = checksum % 256])
<1> SUFFICES ASSUME IInv, checksum # NoChecksum
             PROVE  t > 0 /\ t % 65535 = 0
  BY DEF ChecksumVerifies
<1> DEFINE s == HeaderSum(data)
<1>1. /\ Header(data) /\ data[11] = 0 /\ data[12] = 0
      /\ checksum = 65535 - Folded(s) /\ IsUint16(checksum)
  BY PacketHeader DEF IInv, TypeOK, ChecksumIsOfData
<1>2. s \in Nat /\ s <= 655350
  BY SMT, <1>1, HeaderSumBound
<1>3. t = s + checksum
  BY <1>1, ChecksumAdds DEF IsUint16
<1> HIDE DEF s, t
<1>4. PICK k \in Nat : s - Folded(s) = 65535 * k
  BY SMT, <1>2, FoldedIsWord
<1>5. s + checksum = 65535 * (k + 1)
  BY SMT, <1>1, <1>2, <1>4, FoldedIsWord DEF IsUint16
<1>6. 65535 * (k + 1) > 0 /\ (65535 * (k + 1)) % 65535 = 0
  BY SMT
<1> QED BY <1>3, <1>5, <1>6

\* For every packet, of any length and contents, and after any calls of SetTTL.
THEOREM ChecksumCorrect == Spec => []ChecksumVerifies
<1> QED BY IInvInvariant, Verifies, PTL

LEMMA SlicesKept ==
  ASSUME IInv, packet # NoPacket
  PROVE  /\ Slice(data, packet.dest) = Slice(arrived, packet.dest)
         /\ data[1] \div 16 = 4 => Slice(data, packet.source) = Slice(arrived, packet.source)
<1>1. /\ data \in Seq(Byte) /\ arrived \in Seq(Byte)
      /\ Len(data) = Len(arrived) /\ Len(data) >= 20
      /\ data[1] = arrived[1]
  BY PacketHeader, PacketAssumption DEF IInv, TypeOK, Untouched, Header
<1>2. ASSUME NEW m \in 13..Len(data), NEW n \in m..Len(data)
      PROVE  SubSeq(data, m, n) = SubSeq(arrived, m, n)
  <2>1. \A i \in m..n : data[i] = arrived[i]
    BY <1>1, <1>2 DEF IInv, Untouched
  <2> QED BY <1>1, <1>2, <2>1, SubSeqProperties
<1>3. /\ \/ packet.source = <<13, 16>> /\ packet.dest = <<17, 20>>
         \/ packet.dest = <<25, 40>> /\ Len(data) >= 40
      /\ data[1] \div 16 = 4 => packet.source = <<13, 16>>
  BY <1>1, Parsed DEF IInv, Untouched
<1>4. CASE packet.dest = <<17, 20>> /\ packet.source = <<13, 16>>
  BY <1>1, <1>2, <1>4 DEF Slice
<1>5. CASE packet.dest = <<25, 40>> /\ Len(data) >= 40
  <2>1. Slice(data, packet.dest) = Slice(arrived, packet.dest)
    BY <1>1, <1>2, <1>5 DEF Slice
  <2>2. packet.source = <<13, 16>> => Slice(data, packet.source) = Slice(arrived, packet.source)
    BY <1>1, <1>2 DEF Slice
  <2> QED BY <1>3, <2>1, <2>2
<1> QED BY <1>3, <1>4, <1>5

\* p.Source and p.Dest are slices of the data that SetTTL and CalculateChecksum
\* write to, and neither reaches the addresses of an IPv4 packet.
THEOREM SourceNeverChanges == Spec => []SourceKept
<1>1. IInv => SourceKept BY SlicesKept DEF SourceKept
<1> QED BY IInvInvariant, <1>1, PTL

\* The destination of packets of both versions is out of their reach.
THEOREM VerdictNeverChanges == Spec => []VerdictKept
<1>1. IInv => VerdictKept BY SlicesKept DEF VerdictKept, Verdict
<1> QED BY IInvInvariant, <1>1, PTL

\* Neither reaches the version, the protocol or the next header, either.
THEOREM HandlerNeverChanges == Spec => []HandlerKept
<1>1. IInv => HandlerKept
  <2> SUFFICES ASSUME IInv PROVE parsePacket(data) = parsePacket(arrived)
    BY DEF IInv, Untouched, HandlerKept
  <2>1. Len(data) = Len(arrived) /\ Len(data) \in Nat
    BY PacketAssumption DEF IInv, TypeOK, Untouched
  <2>2. CASE Len(data) < 20
    BY <2>1, <2>2 DEF parsePacket
  <2>3. CASE Len(data) >= 20
    <3>1. 1 \in 1..Len(data) /\ 7 \in 1..Len(data) /\ 10 \in 1..Len(data)
      BY <2>1, <2>3
    <3>2. \A i \in 1..Len(data) : i \notin {9, 11, 12} => data[i] = arrived[i]
      BY DEF IInv, Untouched
    <3>3. data[1] = arrived[1]
      BY <3>1, <3>2
    <3>4. data[7] = arrived[7]
      BY <3>1, <3>2
    <3>5. data[10] = arrived[10]
      BY <3>1, <3>2
    <3>6. parseIPv4Packet(data) = parseIPv4Packet(arrived)
      BY <3>5 DEF parseIPv4Packet
    <3>7. parseIPv6Packet(data) = parseIPv6Packet(arrived)
      BY <2>1, <3>4 DEF parseIPv6Packet
    <3> QED BY <2>1, <3>3, <3>6, <3>7 DEF parsePacket
  <2> QED BY <2>1, <2>2, <2>3
<1> QED BY IInvInvariant, <1>1, PTL
=============================================================================
