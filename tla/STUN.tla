-------------------------------- MODULE STUN --------------------------------
(***************************************************************************)
(* The part of STUN in internal/peer/nat_traversal.go: what is read from a *)
(* datagram, a sequence of bytes, as the answer to a binding request.      *)
(***************************************************************************)
EXTENDS Naturals, Sequences

CONSTANT NoAddress   \* an error: the datagram holds no address

Byte == 0..255
Word == 0..65535

\* Exclusive or of two bytes, bit by bit: w is the weight of the bit.
Bit(n, w) == (n \div w) % 2
XorBit(a, b, w) == IF Bit(a, w) # Bit(b, w) THEN w ELSE 0
Xor(a, b) ==
  XorBit(a, b, 1) + XorBit(a, b, 2) + XorBit(a, b, 4) + XorBit(a, b, 8)
    + XorBit(a, b, 16) + XorBit(a, b, 32) + XorBit(a, b, 64) + XorBit(a, b, 128)

\* binary.BigEndian.Uint16 of the two bytes after the first n.
Uint16(data, n) == 256 * data[n + 1] + data[n + 2]

BindingResponse  == 257   \* 0x0101
XorMappedAddress == 32    \* 0x0020

\* Mutant: the port is decoded with the other half of the magic cookie.
ParseWithLowCookie(data) ==
  IF Len(data) < 8 \/ data[2] # 1
    THEN NoAddress
    ELSE [port |-> 256 * Xor(data[3], 164) + Xor(data[4], 66),
          ip   |-> [i \in 1..4 |-> Xor(data[4 + i], 33)]]

\* The port is decoded with the first half of the magic cookie 0x2112A442, and
\* all four bytes of the IP with its first byte.
parseXORMappedAddress(data) ==
  IF Len(data) < 8 \/ data[2] # 1
    THEN NoAddress
    ELSE [port |-> 256 * Xor(data[3], 33) + Xor(data[4], 18),
          ip   |-> [i \in 1..4 |-> Xor(data[4 + i], 33)]]

\* The padding of an attribute to a multiple of four bytes is not skipped.
AttrLen(data, offset)    == Uint16(data, offset + 2)
NextOffset(data, offset) == offset + 4 + AttrLen(data, offset)

\* The attributes are searched for the first XOR-MAPPED-ADDRESS.
Search(data) ==
  LET from[offset \in Nat] ==
        IF offset + 4 >= Len(data) THEN NoAddress
        ELSE IF Uint16(data, offset) # XorMappedAddress THEN from[NextOffset(data, offset)]
        ELSE IF NextOffset(data, offset) > Len(data) THEN NoAddress
        ELSE parseXORMappedAddress(SubSeq(data, offset + 5, NextOffset(data, offset)))
  IN  from

IsBindingResponse(data) == Len(data) >= 20 /\ Uint16(data, 0) = BindingResponse

parseSTUNResponse(data) ==
  IF IsBindingResponse(data) THEN Search(data)[20] ELSE NoAddress

-----------------------------------------------------------------------------
(* The other side: what a STUN server sends (RFC 5389). *)

Cookie == <<33, 18, 164, 66>>
Zeros(n) == [i \in 1..n |-> 0]
Padded(n) == n + ((4 - (n % 4)) % 4)
Attribute(type, value) ==
  <<type \div 256, type % 256, Len(value) \div 256, Len(value) % 256>>
    \o value \o Zeros(Padded(Len(value)) - Len(value))
MappedTo(address) ==
  <<0, XorMappedAddress, 0, 8, 0, 1,
    Xor(address.port \div 256, Cookie[1]), Xor(address.port % 256, Cookie[2]),
    Xor(address.ip[1], Cookie[1]), Xor(address.ip[2], Cookie[2]),
    Xor(address.ip[3], Cookie[3]), Xor(address.ip[4], Cookie[4])>>
Response(attributes) ==
  <<1, 1, Len(attributes) \div 256, Len(attributes) % 256>>
    \o Cookie \o Zeros(12) \o attributes

IsMapped(data, offset) == Uint16(data, offset) = XorMappedAddress
Carries(data, offset, address) ==
  offset + 12 <= Len(data) /\ SubSeq(data, offset + 1, offset + 12) = MappedTo(address)

\* The attributes begin at starts, the last of which is the end, and every
\* XOR-MAPPED-ADDRESS is the address.  Of the attributes before the first one,
\* only the last may need padding, which is zero, and then no attribute follows.
IsAnswer(data, starts, address) ==
  /\ data \in Seq(Byte)
  /\ 20 \in starts /\ starts \subseteq 20..Len(data)
  /\ \A o \in starts \ {Len(data)} :
       LET len == AttrLen(data, o)
           end == o + 4 + Padded(len)
       IN  /\ o + 4 <= Len(data)
           /\ end \in starts
           /\ \A x \in starts : x <= o \/ x >= end
           /\ IsMapped(data, o) => Carries(data, o, address)
           /\ \/ IsMapped(data, o)
              \/ len % 4 = 0
              \/ \E x \in starts : x < o /\ IsMapped(data, x)
              \/ /\ end + 12 = Len(data)
                 /\ Carries(data, end, address)
                 /\ \A i \in (o + 5 + len)..end : data[i] = 0
=============================================================================
