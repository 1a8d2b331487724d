------------------------- MODULE NATTraversalProofs -------------------------
(* Type correctness of NATTraversal, that only a peer that has punched is  *)
(* marked reachable, and that a query returns the port of the public       *)
(* address, which rests on what Search finds in the answer of a server.    *)
EXTENDS NATTraversal, Integers, WellFoundedInduction, TLAPS

\* What lies between a datagram on the wire and the mark in the entry: a punch
\* that is waiting, or that a goroutine has read, has arrived.
PunchesArrived ==
  /\ \A m \in inbox : IsPunch(m.data) => m.from \in punched
  /\ \A p \in MayPunch : pc[p] = "punched" => p[2] \in punched

IInv == TypeOK /\ PunchesArrived /\ ReachableHasPunched

LEMMA InitIInv == Init => IInv
BY NATAssumption
   DEF Init, IInv, TypeOK, Routines, Labels, PunchesArrived, ReachableHasPunched

\* What a read does, whatever is made of the datagram.
LEMMA ReceiveKeeps ==
  ASSUME IInv, NEW m \in inbox, Receive(m)
  PROVE  /\ m \in Datagrams
         /\ inbox' \in SUBSET Datagrams /\ inbox' \subseteq inbox
         /\ open' = open /\ deadline' = deadline
BY DEF IInv, TypeOK, Receive

LEMMA TypeStep == IInv /\ [Next]_vars => TypeOK'
<1> SUFFICES ASSUME IInv, [Next]_vars PROVE TypeOK' OBVIOUS
<1> USE DEF IInv, TypeOK, Routines, Labels, Goto
<1>1. ASSUME NEW p \in MayPunch, StartHolePunch(p) PROVE TypeOK'
  BY <1>1, NATAssumption DEF StartHolePunch, socket, queries
<1>2. ASSUME NEW p \in MayPunch, PerformHolePunch(p) PROVE TypeOK'
  BY <1>2 DEF PerformHolePunch, entries, socket, queries
<1>3. ASSUME NEW p \in MayPunch, Listen(p) PROVE TypeOK'
  BY <1>3 DEF Listen, SetReadDeadline, entries, socket, queries
<1>4. ASSUME NEW p \in MayPunch, ReadPunch(p) PROVE TypeOK'
  BY <1>4, ReceiveKeeps DEF ReadPunch, ReadError, entries, socket, queries
<1>5. ASSUME NEW p \in MayPunch, MarkReachable(p) PROVE TypeOK'
  BY <1>5, NATAssumption DEF MarkReachable, socket, queries
<1>6. ASSUME NEW p \in MayPunch, TenSecondsPass(p) PROVE TypeOK'
  BY <1>6 DEF TenSecondsPass, entries, socket, queries
<1>7. ASSUME NEW q \in Queries, GetPublicAddress(q) PROVE TypeOK'
  BY <1>7 DEF GetPublicAddress, entries, socket
<1>8. ASSUME NEW q \in Queries, QuerySTUNServer(q) PROVE TypeOK'
  <2>1. Len(Servers) \in Nat /\ next[q] \in 0..Len(Servers) + 1
    BY NATAssumption
  <2>2. CASE Goto(q, "idle") /\ UNCHANGED <<socket, next, asked>>
    BY <1>8, <2>2 DEF QuerySTUNServer, entries, socket
  <2>3. CASE next[q] <= Len(Servers) /\ SetReadDeadline /\ Goto(q, "wait")
             /\ UNCHANGED <<open, inbox, next>>
    <3>0. pc[q] = "ask"
      BY <1>8 DEF QuerySTUNServer
    <3>1. next[q] # 0 /\ next[q] <= Len(Servers)
      BY <2>3, <3>0
    <3> QED BY <1>8, <2>3, <3>1 DEF QuerySTUNServer, SetReadDeadline, entries
  <2>4. CASE next[q] <= Len(Servers) /\ TryNext(q) /\ UNCHANGED <<socket, pc, asked>>
    <3>1. /\ next' \in [Queries -> 0..Len(Servers) + 1]
          /\ \A r \in Queries \ {q} : next'[r] = next[r]
          /\ next'[q] # 0
      BY <2>1, <2>4 DEF TryNext
    <3>2. pc'[q] # "wait"
      BY <1>8, <2>4 DEF QuerySTUNServer
    <3> QED BY <1>8, <2>4, <3>1, <3>2 DEF QuerySTUNServer, entries, socket
  <2> QED BY <1>8, <2>1, <2>2, <2>3, <2>4 DEF QuerySTUNServer
<1>9. ASSUME NEW q \in Queries, ReadAnswer(q) PROVE TypeOK'
  <2>1. /\ pc' \in [Routines -> Labels]
        /\ pc'[q] # "wait"
        /\ \A r \in Queries \ {q} : pc'[r] = pc[r]
        /\ DOMAIN found' = Queries
    BY <1>9 DEF ReadAnswer
  <2>a. pc[q] = "wait"
    BY <1>9 DEF ReadAnswer
  <2>b. next[q] \in 0..Len(Servers) + 1 /\ next[q] # 0 /\ next[q] <= Len(Servers)
    BY <2>a
  <2>2. Len(Servers) \in Nat /\ next[q] + 1 \in 0..Len(Servers) + 1 /\ next[q] + 1 # 0
    BY SMT, <2>b, NATAssumption
  <2>3. next' = next \/ next' = [next EXCEPT ![q] = next[q] + 1]
    BY <1>9 DEF ReadAnswer, TryNext
  <2>4. /\ next' \in [Queries -> 0..Len(Servers) + 1]
        /\ \A r \in Queries \ {q} : next'[r] = next[r]
        /\ next'[q] # 0
    BY <2>b, <2>2, <2>3
  <2>5. /\ inbox' \in SUBSET Datagrams
        /\ open' = open /\ deadline' = deadline
    BY <1>9, ReceiveKeeps DEF ReadAnswer, ReadError, socket
  <2> QED BY <1>9, <2>1, <2>4, <2>5 DEF ReadAnswer, entries
<1>10. ASSUME NEW m \in Datagrams, Arrive(m) PROVE TypeOK'
  BY <1>10 DEF Arrive, entries, queries
<1>11. CASE DeadlinePasses
  BY <1>11 DEF DeadlinePasses, entries, queries
<1>12. CASE Close
  BY <1>12 DEF Close, entries, queries
<1>13. CASE UNCHANGED vars
  BY <1>13 DEF vars, entries, socket, queries
<1> QED BY <1>1, <1>2, <1>3, <1>4, <1>5, <1>6, <1>7, <1>8, <1>9, <1>10, <1>11, <1>12, <1>13
        DEF Next, Punch

LEMMA PunchStep == IInv /\ [Next]_vars => PunchesArrived' /\ ReachableHasPunched'
<1> DEFINE Goal == PunchesArrived' /\ ReachableHasPunched'
<1> SUFFICES ASSUME IInv, [Next]_vars PROVE Goal OBVIOUS
<1> USE DEF IInv, PunchesArrived, ReachableHasPunched
<1>a. pc \in [Routines -> Labels]
  BY DEF TypeOK
<1> USE DEF Routines
\* A step that delivers nothing, marks nothing and does not take p to "punched".
<1>0. ASSUME inbox' \subseteq inbox, reachable' \subseteq reachable, punched' = punched,
             \A p \in MayPunch : pc'[p] = "punched" => pc[p] = "punched"
      PROVE  Goal
  BY <1>0 DEF LookedFor
<1>1. ASSUME NEW p \in MayPunch, StartHolePunch(p) PROVE Goal
  BY <1>0, <1>1, <1>a DEF StartHolePunch, Goto, socket, queries
<1>2. ASSUME NEW p \in MayPunch, PerformHolePunch(p) PROVE Goal
  BY <1>0, <1>2, <1>a DEF PerformHolePunch, Goto, entries, socket, queries
<1>3. ASSUME NEW p \in MayPunch, Listen(p) PROVE Goal
  BY <1>0, <1>3, <1>a DEF Listen, Goto, entries, socket, queries
<1>4. ASSUME NEW p \in MayPunch, ReadPunch(p) PROVE Goal
  <2>1. CASE ReadError /\ Goto(p, "listen")
    BY <1>0, <1>4, <2>1, <1>a DEF ReadPunch, ReadError, Goto, entries, socket, queries
  <2>2. ASSUME NEW m \in inbox, Receive(m),
               Goto(p, IF m.from = p[2] /\ IsPunch(m.data) THEN "punched" ELSE "listen")
        PROVE  Goal
    <3>1. /\ inbox' \subseteq inbox
          /\ reachable' = reachable /\ punched' = punched
      BY <1>4, <2>2, ReceiveKeeps DEF ReadPunch, entries
    <3>2. \A r \in MayPunch : pc'[r] = "punched" => r[2] \in punched'
      BY <2>2, <3>1, <1>a DEF Goto
    <3> QED BY <3>1, <3>2 DEF LookedFor
  <2> QED BY <1>4, <2>1, <2>2 DEF ReadPunch
<1>5. ASSUME NEW p \in MayPunch, MarkReachable(p) PROVE Goal
  <2>1. p[2] \in LookedFor(p[1]) /\ p[2] \in punched
    BY <1>5 DEF MarkReachable, LookedFor
  <2>2. /\ reachable' \subseteq reachable \cup {p[1]}
        /\ inbox' = inbox /\ punched' = punched
    BY <1>5 DEF MarkReachable, socket
  <2>3. \A r \in MayPunch : pc'[r] = "punched" => pc[r] = "punched"
    BY <1>5, <1>a DEF MarkReachable, Goto
  <2> QED BY <2>1, <2>2, <2>3 DEF LookedFor
<1>6. ASSUME NEW p \in MayPunch, TenSecondsPass(p) PROVE Goal
  BY <1>0, <1>6 DEF TenSecondsPass, entries, socket
<1>7. ASSUME NEW q \in Queries, GetPublicAddress(q) PROVE Goal
  BY <1>0, <1>7, <1>a DEF GetPublicAddress, Goto, entries, socket
<1>8. ASSUME NEW q \in Queries, QuerySTUNServer(q) PROVE Goal
  BY <1>0, <1>8, <1>a DEF QuerySTUNServer, Goto, entries, socket
<1>9. ASSUME NEW q \in Queries, ReadAnswer(q) PROVE Goal
  <2>1. inbox' \subseteq inbox
    BY <1>9, ReceiveKeeps DEF ReadAnswer, ReadError, socket
  <2>2. \A p \in MayPunch : pc'[p] = "punched" => pc[p] = "punched"
    BY <1>9, <1>a DEF ReadAnswer, Goto
  <2> QED BY <1>0, <1>9, <2>1, <2>2 DEF ReadAnswer, entries
<1>10. ASSUME NEW m \in Datagrams, Arrive(m) PROVE Goal
  <2>1. /\ inbox' = inbox \cup {m}
        /\ punched' = IF IsPunch(m.data) THEN punched \cup {m.from} ELSE punched
        /\ reachable' = reachable /\ pc' = pc
    BY <1>10 DEF Arrive, entries
  <2> QED BY <2>1 DEF LookedFor
<1>11. CASE DeadlinePasses
  BY <1>0, <1>11 DEF DeadlinePasses, entries
<1>12. CASE Close
  BY <1>0, <1>12 DEF Close, entries
<1>13. CASE UNCHANGED vars
  BY <1>0, <1>13 DEF vars, entries, socket
<1> QED BY <1>1, <1>2, <1>3, <1>4, <1>5, <1>6, <1>7, <1>8, <1>9, <1>10, <1>11, <1>12, <1>13
        DEF Next, Punch

LEMMA IInvInvariant == Spec => []IInv
<1>1. IInv /\ [Next]_vars => IInv'
  BY TypeStep, PunchStep DEF IInv
<1> QED BY InitIInv, <1>1, PTL DEF Spec

\* Every variable has its type, for any number of peers, addresses and calls.
THEOREM NATTypes == Spec => []TypeOK
<1>1. IInv => TypeOK BY DEF IInv
<1> QED BY IInvInvariant, <1>1, PTL

\* listenForPunchResponse marks a peer only after a punch has come from an
\* address at which that peer was looked for, whatever arrives at the socket,
\* whoever reads it, and however often the entry is replaced.
THEOREM OnlyPunchedReachable == Spec => []ReachableHasPunched
<1>1. IInv => ReachableHasPunched BY DEF IInv
<1> QED BY IInvInvariant, <1>1, PTL

-----------------------------------------------------------------------------
(* Search, and the exclusive or that hides the address. *)

\* Induction: a set of numbers that is not empty has a least one.
LEMMA Least ==
  ASSUME NEW T \in SUBSET Nat, T # {}
  PROVE  \E n \in T : \A m \in T : n <= m
<1> DEFINE R == OpToRel(<, Nat)
<1>1. IsWellFoundedOn(R, Nat)
  BY NatLessThanWellFounded, Zenon
<1>2. \A x, y \in Nat : <<y, x>> \in R <=> y < x
  BY DEF OpToRel
<1> HIDE DEF R
<1>3. \E x \in T : \A y \in T : ~(<<y, x>> \in R)
  BY <1>1, WFMin, Zenon
<1>4. PICK n \in T : \A m \in T : ~(<<m, n>> \in R)
  BY <1>3
<1>5. ASSUME NEW m \in T PROVE n <= m
  <2>1. m \in Nat /\ n \in Nat /\ ~(m < n)
    BY <1>2, <1>4
  <2> QED BY <2>1
<1> QED BY <1>5

\* The body of Search, with f for what is found from the next attribute on.
MappedAt(data, o) ==
  IF NextOffset(data, o) > Len(data)
    THEN NoAddress
    ELSE parseXORMappedAddress(SubSeq(data, o + 5, NextOffset(data, o)))
At(data, f, o) ==
  IF o + 4 >= Len(data) THEN NoAddress
  ELSE IF Uint16(data, o) # XorMappedAddress THEN f[NextOffset(data, o)]
  ELSE MappedAt(data, o)

Results(data) == {NoAddress} \cup {MappedAt(data, o) : o \in Nat}

LEMMA ByteType == ASSUME NEW b \in Byte PROVE b \in Nat /\ b <= 255
BY DEF Byte

LEMMA Uint16Type ==
  ASSUME NEW data \in Seq(Byte), NEW n \in Nat, n + 2 <= Len(data)
  PROVE  Uint16(data, n) \in Nat /\ Uint16(data, n) <= 65535
<1> DEFINE a == data[n + 1]
           b == data[n + 2]
<1>1. a \in Byte /\ b \in Byte
  OBVIOUS
<1>2. a \in Nat /\ a <= 255 /\ b \in Nat /\ b <= 255
  BY <1>1, ByteType
<1>3. Uint16(data, n) = 256 * a + b
  BY DEF Uint16
<1> HIDE DEF a, b
<1> QED BY <1>2, <1>3

LEMMA NextIsFurther ==
  ASSUME NEW data \in Seq(Byte), NEW o \in Nat, o + 4 < Len(data)
  PROVE  NextOffset(data, o) \in Nat /\ NextOffset(data, o) >= o + 4
<1>1. AttrLen(data, o) \in Nat
  BY Uint16Type DEF AttrLen
<1> QED BY <1>1 DEF NextOffset

LEMMA ResultsType ==
  ASSUME NEW data
  PROVE  NoAddress \in Results(data) /\ \A o \in Nat : MappedAt(data, o) \in Results(data)
BY DEF Results

LEMMA AtType ==
  ASSUME NEW data \in Seq(Byte), NEW f \in [Nat -> Results(data)], NEW o \in Nat
  PROVE  At(data, f, o) \in Results(data)
<1>1. CASE o + 4 >= Len(data)
  BY <1>1, ResultsType DEF At
<1>2. CASE o + 4 < Len(data)
  <2>1. f[NextOffset(data, o)] \in Results(data)
    BY <1>2, NextIsFurther
  <2>2. ~(o + 4 >= Len(data))
    BY <1>2
  <2> QED BY <2>1, <2>2, ResultsType DEF At
<1> QED BY <1>1, <1>2

LEMMA AtLooksAhead ==
  ASSUME NEW data \in Seq(Byte), NEW o \in Nat, NEW f, NEW g,
         \A i \in Nat : i > o => f[i] = g[i]
  PROVE  At(data, f, o) = At(data, g, o)
<1>1. CASE o + 4 >= Len(data)
  BY <1>1 DEF At
<1>2. CASE o + 4 < Len(data)
  <2>1. NextOffset(data, o) \in Nat /\ NextOffset(data, o) > o
    BY <1>2, NextIsFurther
  <2> QED BY <2>1 DEF At
<1> QED BY <1>1, <1>2

\* The function exists: it is built from the end of the data backwards.
SearchedFrom(data, f, k) ==
  \A o \in Nat : o + k >= Len(data) => f[o] = At(data, f, o)

LEMMA SearchGrows ==
  ASSUME NEW data \in Seq(Byte), NEW n \in Nat,
         NEW f \in [Nat -> Results(data)], SearchedFrom(data, f, n)
  PROVE  \E g \in [Nat -> Results(data)] : SearchedFrom(data, g, n + 1)
<1> DEFINE j == Len(data) - (n + 1)
           g == [f EXCEPT ![j] = At(data, f, j)]
<1>1. CASE j \notin Nat
  <2>1. \A o \in Nat : o + (n + 1) >= Len(data) => o + n >= Len(data)
    BY <1>1
  <2> QED BY <2>1 DEF SearchedFrom
<1>2. CASE j \in Nat
  <2>1. /\ g \in [Nat -> Results(data)]
        /\ g[j] = At(data, f, j)
        /\ \A i \in Nat : i # j => g[i] = f[i]
    BY <1>2, AtType
  <2> HIDE DEF g
  <2>2. ASSUME NEW o \in Nat, o >= j PROVE At(data, g, o) = At(data, f, o)
    <3>1. \A i \in Nat : i > o => g[i] = f[i]
      BY <1>2, <2>1, <2>2
    <3> QED BY <3>1, AtLooksAhead
  <2>3. ASSUME NEW o \in Nat, o + (n + 1) >= Len(data) PROVE g[o] = At(data, g, o)
    <3>1. o >= j
      BY <2>3
    <3>2. CASE o = j
      BY <2>1, <2>2, <3>1, <3>2
    <3>3. CASE o # j
      <4>1. o + n >= Len(data)
        BY <3>1, <3>3
      <4>2. f[o] = At(data, f, o)
        BY <4>1 DEF SearchedFrom
      <4> QED BY <2>1, <2>2, <3>1, <3>3, <4>2
    <3> QED BY <3>2, <3>3
  <2> QED BY <2>1, <2>3 DEF SearchedFrom
<1> QED BY <1>1, <1>2

LEMMA SearchExists ==
  ASSUME NEW data \in Seq(Byte)
  PROVE  \E f : f = [o \in Nat |-> At(data, f, o)]
<1> DEFINE Can(k) == \E f \in [Nat -> Results(data)] : SearchedFrom(data, f, k)
           T == {k \in Nat : ~Can(k)}
<1>1. Can(0)
  <2> DEFINE f == [o \in Nat |-> NoAddress]
  <2>1. f \in [Nat -> Results(data)]
    BY ResultsType
  <2>2. SearchedFrom(data, f, 0)
    BY DEF SearchedFrom, At
  <2> QED BY <2>1, <2>2
<1>2. ASSUME NEW n \in Nat, Can(n) PROVE Can(n + 1)
  BY <1>2, SearchGrows
<1> HIDE DEF Can
<1>3. T = {}
  <2> SUFFICES ASSUME T # {} PROVE FALSE
    OBVIOUS
  <2>1. PICK n \in T : \A m \in T : n <= m
    BY Least
  <2>2. n # 0
    BY <1>1
  <2>3. n - 1 \in Nat /\ n - 1 \notin T
    BY <2>1, <2>2
  <2>4. Can((n - 1) + 1)
    BY <1>2, <2>3
  <2> QED BY <2>1, <2>2, <2>4
<1>4. Can(Len(data))
  BY <1>3
<1>5. PICK f \in [Nat -> Results(data)] : SearchedFrom(data, f, Len(data))
  BY <1>4 DEF Can
<1>6. \A o \in Nat : f[o] = At(data, f, o)
  BY <1>5 DEF SearchedFrom
<1>7. f = [o \in Nat |-> At(data, f, o)]
  BY <1>6
<1> QED BY <1>7

\* So Search is what its definition says, at every offset.
LEMMA SearchAt ==
  ASSUME NEW data \in Seq(Byte), NEW o \in Nat
  PROVE  Search(data)[o] = At(data, Search(data), o)
<1>1. Search(data) = CHOOSE f : f = [i \in Nat |-> At(data, f, i)]
  BY DEF Search, At, MappedAt
<1>2. Search(data) = [i \in Nat |-> At(data, Search(data), i)]
  BY <1>1, SearchExists, Zenon
<1> QED BY <1>2, Zenon

\* How bit w changes when it is flipped.
Flip(a, w) == IF Bit(a, w) = 0 THEN w ELSE -w

LEMMA BitsMakeByte ==
  ASSUME NEW a \in Nat, a <= 255
  PROVE  a = XorBit(a, 0, 1) + XorBit(a, 0, 2) + XorBit(a, 0, 4) + XorBit(a, 0, 8)
               + XorBit(a, 0, 16) + XorBit(a, 0, 32) + XorBit(a, 0, 64) + XorBit(a, 0, 128)
BY SMTT(20) DEF XorBit, Bit

LEMMA Xor33Flips ==
  ASSUME NEW a \in Nat, a <= 255
  PROVE  Xor(a, 33) = a + Flip(a, 1) + Flip(a, 32)
<1>1. \A w \in {2, 4, 8, 16, 64, 128} : XorBit(a, 33, w) = XorBit(a, 0, w) /\ XorBit(a, 0, w) \in Int
  BY SMTT(20) DEF XorBit, Bit
<1>2. \A w \in {1, 32} : XorBit(a, 33, w) = XorBit(a, 0, w) + Flip(a, w) /\ XorBit(a, 0, w) \in Int /\ Flip(a, w) \in Int
  BY SMTT(20) DEF XorBit, Bit, Flip
<1> HIDE DEF XorBit, Flip
<1> QED BY <1>1, <1>2, BitsMakeByte, SMTT(20) DEF Xor

LEMMA Flipped33 ==
  ASSUME NEW a \in Nat, a <= 255, NEW x, x = a + Flip(a, 1) + Flip(a, 32)
  PROVE  x \in Nat /\ x <= 255 /\ Flip(x, 1) = -Flip(a, 1) /\ Flip(x, 32) = -Flip(a, 32)
BY SMTT(20) DEF Flip, Bit

LEMMA Xor33Twice ==
  ASSUME NEW a \in Nat, a <= 255 PROVE Xor(Xor(a, 33), 33) = a
<1>1. Flip(a, 1) \in Int /\ Flip(a, 32) \in Int
  BY SMTT(20) DEF Flip
<1> QED BY <1>1, Xor33Flips, Flipped33, SMTT(20)

LEMMA Xor18Flips ==
  ASSUME NEW a \in Nat, a <= 255
  PROVE  Xor(a, 18) = a + Flip(a, 2) + Flip(a, 16)
<1>1. \A w \in {1, 4, 8, 32, 64, 128} : XorBit(a, 18, w) = XorBit(a, 0, w) /\ XorBit(a, 0, w) \in Int
  BY SMTT(20) DEF XorBit, Bit
<1>2. \A w \in {2, 16} : XorBit(a, 18, w) = XorBit(a, 0, w) + Flip(a, w) /\ XorBit(a, 0, w) \in Int /\ Flip(a, w) \in Int
  BY SMTT(20) DEF XorBit, Bit, Flip
<1> HIDE DEF XorBit, Flip
<1> QED BY <1>1, <1>2, BitsMakeByte, SMTT(20) DEF Xor

LEMMA Flipped18 ==
  ASSUME NEW a \in Nat, a <= 255, NEW x, x = a + Flip(a, 2) + Flip(a, 16)
  PROVE  x \in Nat /\ x <= 255 /\ Flip(x, 2) = -Flip(a, 2) /\ Flip(x, 16) = -Flip(a, 16)
BY SMTT(20) DEF Flip, Bit

LEMMA Xor18Twice ==
  ASSUME NEW a \in Nat, a <= 255 PROVE Xor(Xor(a, 18), 18) = a
<1>1. Flip(a, 2) \in Int /\ Flip(a, 16) \in Int
  BY SMTT(20) DEF Flip
<1> QED BY <1>1, Xor18Flips, Flipped18, SMTT(20)

\* A port is its two bytes.
LEMMA PortBytes ==
  ASSUME NEW p \in Nat, p <= 65535
  PROVE  /\ p \div 256 \in Nat /\ p \div 256 <= 255
         /\ p % 256 \in Nat /\ p % 256 <= 255
         /\ p = 256 * (p \div 256) + (p % 256)
BY SMTT(20)

-----------------------------------------------------------------------------
(* What the search finds in the answer of a STUN server. *)

LEMMA SubSeqAt ==
  ASSUME NEW S, NEW s \in Seq(S), NEW m \in Nat, NEW k \in Nat, m + k <= Len(s)
  PROVE  /\ Len(SubSeq(s, m + 1, m + k)) = k
         /\ \A i \in 1..k : SubSeq(s, m + 1, m + k)[i] = s[m + i]
<1>1. SubSeq(s, m + 1, m + k) = [i \in 1..k |-> s[i + m]]
  OBVIOUS
<1> QED BY <1>1

\* The bytes of an address that a server sends.
AddressBytes(data, o, high, low) ==
  /\ data[o + 1] = 0 /\ data[o + 2] = 32 /\ data[o + 3] = 0
  /\ data[o + 4] = 8 /\ data[o + 5] = 0 /\ data[o + 6] = 1
  /\ data[o + 7] = Xor(high, 33) /\ data[o + 8] = Xor(low, 18)

LEMMA TwelveBytes ==
  ASSUME NEW data \in Seq(Byte), NEW o \in Nat, o + 12 <= Len(data)
  PROVE  \A i \in 1..12 : SubSeq(data, o + 1, o + 12)[i] = data[o + i]
BY SubSeqAt

LEMMA MappedBytes ==
  ASSUME NEW data \in Seq(Byte), NEW o \in Nat,
         NEW address, Carries(data, o, address)
  PROVE  /\ o + 12 <= Len(data)
         /\ AddressBytes(data, o, address.port \div 256, address.port % 256)
<1> DEFINE sent == MappedTo(address)
           high == address.port \div 256
           low  == address.port % 256
<1>1. o + 12 <= Len(data)
  BY DEF Carries
<1>2. /\ sent[1] = 0 /\ sent[2] = 32 /\ sent[3] = 0
      /\ sent[4] = 8 /\ sent[5] = 0 /\ sent[6] = 1
      /\ sent[7] = Xor(high, 33) /\ sent[8] = Xor(low, 18)
  BY DEF MappedTo, Cookie, XorMappedAddress
<1> HIDE DEF sent, high, low
<1>3. \A i \in 1..12 : sent[i] = data[o + i]
  BY <1>1, TwelveBytes, Zenon DEF Carries, sent
<1>4. /\ data[o + 1] = sent[1] /\ data[o + 2] = sent[2] /\ data[o + 3] = sent[3]
      /\ data[o + 4] = sent[4] /\ data[o + 5] = sent[5] /\ data[o + 6] = sent[6]
      /\ data[o + 7] = sent[7] /\ data[o + 8] = sent[8]
  BY <1>3
<1>5. AddressBytes(data, o, high, low)
  BY <1>2, <1>4, Zenon DEF AddressBytes
<1> QED BY <1>1, <1>5 DEF high, low

LEMMA MappedPort ==
  ASSUME NEW data \in Seq(Byte), NEW o \in Nat, o + 12 <= Len(data),
         NEW high \in Nat, high <= 255, NEW low \in Nat, low <= 255,
         AddressBytes(data, o, high, low)
  PROVE  MappedAt(data, o).port = 256 * high + low
<1> DEFINE value == SubSeq(data, o + 5, o + 12)
<1> HIDE DEF value
<1>0. /\ data[o + 3] = 0 /\ data[o + 4] = 8 /\ data[o + 6] = 1
      /\ data[o + 7] = Xor(high, 33) /\ data[o + 8] = Xor(low, 18)
  BY DEF AddressBytes
<1>1. NextOffset(data, o) = o + 12
  <2>1. Uint16(data, o + 2) = 256 * data[o + 3] + data[o + 4]
    BY DEF Uint16
  <2> QED BY <1>0, <2>1 DEF NextOffset, AttrLen
<1>2. /\ Len(value) = 8
      /\ value[2] = data[o + 6] /\ value[3] = data[o + 7] /\ value[4] = data[o + 8]
  <2>1. value = SubSeq(data, (o + 4) + 1, (o + 4) + 8)
    BY DEF value
  <2>2. Len(value) = 8 /\ \A i \in 1..8 : value[i] = data[(o + 4) + i]
    BY <2>1, SubSeqAt
  <2> QED BY <2>2
<1>3. MappedAt(data, o) = parseXORMappedAddress(value)
  <2>1. ~(o + 12 > Len(data))
    OBVIOUS
  <2> QED BY <1>1, <2>1, Zenon DEF MappedAt, value
<1>4. Xor(value[3], 33) = high /\ Xor(value[4], 18) = low
  BY <1>0, <1>2, Xor33Twice, Xor18Twice
<1> DEFINE port == 256 * high + low
           ip   == [i \in 1..4 |-> Xor(value[4 + i], 33)]
<1>5. parseXORMappedAddress(value) = [port |-> port, ip |-> ip]
  <2>1. ~(Len(value) < 8 \/ value[2] # 1)
    BY <1>0, <1>2
  <2> QED BY <1>4, <2>1, Zenon DEF parseXORMappedAddress
<1>6. port = 256 * high + low
  OBVIOUS
<1> HIDE DEF port, ip
<1>7. MappedAt(data, o).port = port
  BY <1>3, <1>5
<1> QED BY <1>6, <1>7, Zenon

\* An attribute that is not an address is passed; past the end there is none.
LEMMA Passed ==
  ASSUME NEW data \in Seq(Byte), NEW o \in Nat, o + 4 < Len(data),
         ~IsMapped(data, o)
  PROVE  Search(data)[o] = Search(data)[NextOffset(data, o)]
<1>1. ~(o + 4 >= Len(data))
  OBVIOUS
<1>2. Search(data)[o] = At(data, Search(data), o)
  BY SearchAt
<1> QED BY <1>1, <1>2 DEF At, IsMapped

LEMMA PastTheEnd ==
  ASSUME NEW data \in Seq(Byte), NEW o \in Nat, o + 4 >= Len(data)
  PROVE  Search(data)[o] = NoAddress
BY SearchAt DEF At

LEMMA Stopped ==
  ASSUME NEW data \in Seq(Byte), NEW o \in Nat, o + 4 < Len(data), IsMapped(data, o)
  PROVE  Search(data)[o] = MappedAt(data, o)
<1>1. ~(o + 4 >= Len(data))
  OBVIOUS
<1>2. Search(data)[o] = At(data, Search(data), o)
  BY SearchAt
<1> QED BY <1>1, <1>2 DEF At, IsMapped

\* Where the search goes, from the bytes of the attribute.
LEMMA NextByBytes ==
  ASSUME NEW data \in Seq(Byte), NEW o \in Nat
  PROVE  /\ IsMapped(data, o) <=> 256 * data[o + 1] + data[o + 2] = 32
         /\ NextOffset(data, o) = o + 4 + (256 * data[o + 3] + data[o + 4])
<1>1. Uint16(data, o + 2) = 256 * data[o + 3] + data[o + 4]
  <2>1. data[(o + 2) + 1] = data[o + 3] /\ data[(o + 2) + 2] = data[o + 4]
    OBVIOUS
  <2> QED BY <2>1, Zenon DEF Uint16
<1> QED BY <1>1, Zenon DEF Uint16, IsMapped, XorMappedAddress, NextOffset, AttrLen

\* After padding of one, two or three zero bytes the search is out of step with
\* the attributes, and finds nothing in an address that ends the datagram.
LEMMA OutOfStep ==
  ASSUME NEW data \in Seq(Byte), NEW o \in Nat, NEW pad \in {1, 2, 3},
         o + pad + 12 = Len(data),
         \A i \in 1..pad : data[o + i] = 0,
         data[o + pad + 1] = 0, data[o + pad + 2] = 32, data[o + pad + 3] = 0,
         data[o + pad + 4] = 8
  PROVE  Search(data)[o] = NoAddress
<1>1. data[o + 1] = 0 /\ o + 4 < Len(data)
  OBVIOUS
<1>2. CASE pad = 1
  <2>1. data[o + 2] = 0 /\ data[o + 3] = 32 /\ data[o + 4] = 0
    BY <1>2
  <2>2. ~IsMapped(data, o) /\ NextOffset(data, o) = o + 8196
    <3>1. /\ IsMapped(data, o) <=> 256 * data[o + 1] + data[o + 2] = 32
          /\ NextOffset(data, o) = o + 4 + (256 * data[o + 3] + data[o + 4])
      BY NextByBytes, Zenon
    <3> QED BY <1>1, <2>1, <3>1
  <2> QED BY <1>1, <1>2, <2>2, Passed, PastTheEnd
<1>3. CASE pad = 2
  <2>1. data[o + 2] = 0 /\ data[o + 3] = 0 /\ data[o + 4] = 32
    BY <1>3
  <2>2. ~IsMapped(data, o) /\ NextOffset(data, o) = o + 36
    <3>1. /\ IsMapped(data, o) <=> 256 * data[o + 1] + data[o + 2] = 32
          /\ NextOffset(data, o) = o + 4 + (256 * data[o + 3] + data[o + 4])
      BY NextByBytes, Zenon
    <3> QED BY <1>1, <2>1, <3>1
  <2> QED BY <1>1, <1>3, <2>2, Passed, PastTheEnd
<1>4. CASE pad = 3
  <2>1. /\ data[o + 2] = 0 /\ data[o + 3] = 0 /\ data[o + 4] = 0
        /\ data[o + 5] = 32 /\ data[o + 6] = 0 /\ data[o + 7] = 8
    BY <1>4
  <2>2. ~IsMapped(data, o) /\ NextOffset(data, o) = o + 4
    <3>1. /\ IsMapped(data, o) <=> 256 * data[o + 1] + data[o + 2] = 32
          /\ NextOffset(data, o) = o + 4 + (256 * data[o + 3] + data[o + 4])
      BY NextByBytes, Zenon
    <3> QED BY <1>1, <2>1, <3>1
  <2>3. Search(data)[o] = Search(data)[o + 4]
    BY <1>1, <2>2, Passed
  <2>4. o + 4 \in Nat /\ (o + 4) + 4 < Len(data)
    BY <1>4
  <2>5. data[(o + 4) + 1] = 32 /\ data[(o + 4) + 2] = 0 /\ data[(o + 4) + 3] = 8
    BY <2>1
  <2>6. data[(o + 4) + 4] \in Nat
    <3>1. data[o + 8] \in Byte
      BY <1>4
    <3> QED BY <3>1, ByteType
  <2>7. ~IsMapped(data, o + 4) /\ NextOffset(data, o + 4) >= o + 2056
    <3> DEFINE n == o + 4
    <3>1. /\ IsMapped(data, n) <=> 256 * data[n + 1] + data[n + 2] = 32
          /\ NextOffset(data, n) = n + 4 + (256 * data[n + 3] + data[n + 4])
      BY <2>4, NextByBytes, Zenon
    <3> QED BY <2>5, <2>6, <3>1
  <2>8. NextOffset(data, o + 4) \in Nat
    BY <2>4, NextIsFurther
  <2>9. NextOffset(data, o + 4) + 4 >= Len(data)
    BY <1>4, <2>7, <2>8
  <2> QED BY <2>3, <2>4, <2>7, <2>8, <2>9, Passed, PastTheEnd
<1> QED BY <1>2, <1>3, <1>4

LEMMA PaddedType ==
  ASSUME NEW n \in Nat
  PROVE  /\ Padded(n) \in Nat /\ n <= Padded(n)
         /\ n % 4 = 0 => Padded(n) = n
         /\ n % 4 # 0 => Padded(n) - n \in {1, 2, 3}
         /\ Padded(8) = 8
BY SMTT(30) DEF Padded

\* No address among the attributes before o.
Unmapped(data, starts, o) == \A x \in starts : x < o => ~IsMapped(data, x)

\* One attribute of an answer: the result is known, or is that of the next.
LEMMA OneAttribute ==
  ASSUME NEW data, NEW starts, NEW address, IsAnswer(data, starts, address),
         NEW high \in Nat, high <= 255, NEW low \in Nat, low <= 255,
         high = address.port \div 256, low = address.port % 256,
         NEW o \in starts, Unmapped(data, starts, o)
  PROVE  \/ Search(data)[o] = NoAddress
         \/ Search(data)[o].port = 256 * high + low
         \/ \E e \in starts : /\ e > o /\ Unmapped(data, starts, e)
                              /\ Search(data)[o] = Search(data)[e]
<1> DEFINE len == AttrLen(data, o)
           end == o + 4 + Padded(len)
<1>1. /\ data \in Seq(Byte) /\ Len(data) \in Nat
      /\ \A x \in starts : x \in Nat /\ x <= Len(data)
  BY DEF IsAnswer
<1>2. o \in Nat
  BY <1>1
<1>3. CASE o + 4 >= Len(data)
  BY <1>1, <1>2, <1>3, PastTheEnd
<1>4. CASE o + 4 < Len(data)
  <2>1. o # Len(data)
    BY <1>1, <1>4
  <2>2. /\ end \in starts
        /\ \A x \in starts : x <= o \/ x >= end
        /\ IsMapped(data, o) => Carries(data, o, address)
        /\ \/ IsMapped(data, o)
           \/ len % 4 = 0
           \/ \E x \in starts : x < o /\ IsMapped(data, x)
           \/ /\ end + 12 = Len(data)
              /\ Carries(data, end, address)
              /\ \A i \in (o + 5 + len)..end : data[i] = 0
    BY <2>1, Zenon DEF IsAnswer
  <2>3. len \in Nat
    <3>1. Uint16(data, o + 2) \in Nat
      BY <1>1, <1>2, <1>4, Uint16Type
    <3> QED BY <3>1 DEF AttrLen
  <2>4. NextOffset(data, o) = o + 4 + len
    BY DEF NextOffset
  <2> HIDE DEF len
  <2>5. /\ Padded(len) \in Nat /\ len <= Padded(len)
        /\ len % 4 = 0 => Padded(len) = len
        /\ len % 4 # 0 => Padded(len) - len \in {1, 2, 3}
    BY <2>3, PaddedType
  <2>6. end \in Nat /\ end <= Len(data) /\ end > o
    BY <1>1, <1>2, <2>2, <2>5
  <2>7. CASE IsMapped(data, o)
    <3>1. Carries(data, o, address)
      BY <2>2, <2>7
    <3> HIDE DEF end
    <3>2. o + 12 <= Len(data) /\ AddressBytes(data, o, high, low)
      BY <1>1, <1>2, <3>1, MappedBytes, Zenon
    <3>3. MappedAt(data, o).port = 256 * high + low
      BY <1>1, <1>2, <3>2, MappedPort, SMTT(20)
    <3>4. Search(data)[o] = MappedAt(data, o)
      BY <1>1, <1>2, <1>4, <2>7, Stopped, Zenon
    <3> QED BY <3>3, <3>4, Zenon
  <2>8. CASE ~IsMapped(data, o)
    <3>1. Search(data)[o] = Search(data)[o + 4 + len]
      BY <1>1, <1>2, <1>4, <2>4, <2>8, Passed
    <3>2. ~\E x \in starts : x < o /\ IsMapped(data, x)
      BY DEF Unmapped
    <3>3. CASE len % 4 = 0
      <4>1. Unmapped(data, starts, end)
        <5> SUFFICES ASSUME NEW x \in starts, x < end PROVE ~IsMapped(data, x)
          BY DEF Unmapped
        <5>1. x <= o /\ x \in Nat
          BY <1>1, <2>2, <2>6
        <5>2. x = o \/ x < o
          BY <1>2, <5>1
        <5> QED BY <2>8, <3>2, <5>2
      <4>2. end = o + 4 + len
        BY <2>5, <3>3
      <4> QED BY <2>2, <2>6, <3>1, <4>1, <4>2
    <3>4. CASE len % 4 # 0
      <4> DEFINE pad == Padded(len) - len
                 n   == o + 4 + len
      <4>1. /\ end + 12 = Len(data) /\ Carries(data, end, address)
            /\ \A i \in (o + 5 + len)..end : data[i] = 0
        BY <2>2, <2>8, <3>2, <3>4
      <4>2. /\ n \in Nat /\ pad \in {1, 2, 3} /\ n + pad = end
        BY <1>2, <2>3, <2>5, <3>4
      <4>3. /\ data[end + 1] = 0 /\ data[end + 2] = 32 /\ data[end + 3] = 0
            /\ data[end + 4] = 8
        <5> HIDE DEF end, pad, n
        <5>1. AddressBytes(data, end, high, low)
          BY <1>1, <2>6, <4>1, MappedBytes, Zenon
        <5> QED BY <5>1, Zenon DEF AddressBytes
      <4>4. \A i \in 1..pad : data[n + i] = 0
        BY <1>2, <2>3, <4>1, <4>2
      <4> HIDE DEF pad, n, end
      <4>5. Search(data)[n] = NoAddress
        BY <1>1, <4>1, <4>2, <4>3, <4>4, OutOfStep
      <4> QED BY <3>1, <4>5 DEF n
    <3> QED BY <3>3, <3>4
  <2> QED BY <2>7, <2>8
<1> QED BY <1>1, <1>2, <1>3, <1>4

\* Induction on the distance from the end: of the attributes before the first
\* address that would give another port, the last has none after it.
LEMMA AnswerPort ==
  ASSUME NEW data, NEW starts, NEW address, IsAnswer(data, starts, address),
         NEW high \in Nat, high <= 255, NEW low \in Nat, low <= 255,
         high = address.port \div 256, low = address.port % 256
  PROVE  \/ Search(data)[20] = NoAddress
         \/ Search(data)[20].port = 256 * high + low
<1>3. /\ Len(data) \in Nat /\ 20 \in starts
      /\ \A x \in starts : x \in Nat /\ 20 <= x /\ x <= Len(data)
  BY DEF IsAnswer
<1> DEFINE Wrong(o) == /\ o \in starts /\ Unmapped(data, starts, o)
                       /\ Search(data)[o] # NoAddress
                       /\ Search(data)[o].port # 256 * high + low
           T == {k \in Nat : \E o \in starts : k = Len(data) - o /\ Wrong(o)}
<1>4. ASSUME NEW o \in starts, Wrong(o)
      PROVE  \E e \in starts : e > o /\ Wrong(e)
  BY <1>4, OneAttribute
<1> HIDE DEF Wrong
<1>5. ~\E o \in starts : Wrong(o)
  <2> SUFFICES ASSUME NEW o \in starts, Wrong(o) PROVE FALSE
    OBVIOUS
  <2>1. Len(data) - o \in T
    BY <1>3
  <2>2. PICK k \in T : \A m \in T : k <= m
    BY <2>1, Least
  <2>3. PICK x \in starts : k = Len(data) - x /\ Wrong(x)
    BY <2>2
  <2>4. PICK e \in starts : e > x /\ Wrong(e)
    BY <1>4, <2>3
  <2>5. Len(data) - e \in T
    BY <1>3, <2>4
  <2>6. Len(data) - e < k
    <3>1. Len(data) \in Nat /\ x \in Nat /\ e \in Nat /\ e > x /\ k = Len(data) - x
      BY <1>3, <2>3, <2>4
    <3> QED BY <3>1
  <2>7. k \in Nat /\ Len(data) - e \in Nat /\ k <= Len(data) - e
    BY <2>2, <2>5
  <2> QED BY <2>6, <2>7
<1>6. Unmapped(data, starts, 20)
  BY <1>3 DEF Unmapped
<1> QED BY <1>3, <1>5, <1>6, Zenon DEF Wrong

LEMMA PortSplit ==
  ASSUME NEW p \in Word
  PROVE  \E high, low \in Nat :
           /\ high <= 255 /\ low <= 255
           /\ high = p \div 256 /\ low = p % 256
           /\ 256 * high + low = p
<1>1. p \in Nat /\ p <= 65535
  BY SMT DEF Word
<1> QED BY <1>1, PortBytes, SMT

\* parseSTUNResponse, whatever the attributes of the answer are.
LEMMA ParsedPort ==
  ASSUME NEW data, NEW address, address.port \in Word,
         \E starts : IsAnswer(data, starts, address)
  PROVE  \/ Search(data)[20] = NoAddress
         \/ Search(data)[20].port = address.port
<1>1. PICK high \in Nat, low \in Nat :
        /\ high <= 255 /\ low <= 255
        /\ high = address.port \div 256 /\ low = address.port % 256
        /\ 256 * high + low = address.port
  BY PortSplit, Zenon
<1>2. PICK starts : IsAnswer(data, starts, address)
  BY Zenon
<1>3. \/ Search(data)[20] = NoAddress
      \/ Search(data)[20].port = 256 * high + low
  BY <1>1, <1>2, AnswerPort
<1> QED BY <1>1, <1>3, Zenon

-----------------------------------------------------------------------------
(* The port that a query returns. *)

LEMMA AnswerHasPort ==
  ASSUME ServersAnswer, NEW m \in Datagrams, parseSTUNResponse(m.data) # NoAddress
  PROVE  parseSTUNResponse(m.data).port = Public.port
<1>1. IsBindingResponse(m.data) /\ parseSTUNResponse(m.data) = Search(m.data)[20]
  BY Zenon DEF parseSTUNResponse
<1>2. Public.port \in Word
  BY Zenon DEF ServersAnswer
<1>3. PICK starts : IsAnswer(m.data, starts, Public)
  BY <1>1, Zenon DEF ServersAnswer
<1> QED BY <1>1, <1>2, <1>3, ParsedPort, Zenon

LEMMA PortStep ==
  ASSUME ServersAnswer, TypeOK, PublicPort, [Next]_vars
  PROVE  PublicPort'
<1>1. ASSUME found' = found PROVE PublicPort'
  BY <1>1 DEF PublicPort
<1>2. ASSUME NEW p \in MayPunch,
             StartHolePunch(p) \/ Punch(p) \/ ReadPunch(p) \/ TenSecondsPass(p)
      PROVE  found' = found
  BY <1>2 DEF StartHolePunch, Punch, PerformHolePunch, Listen, MarkReachable,
              ReadPunch, TenSecondsPass, queries
<1>3. ASSUME NEW q \in Queries, GetPublicAddress(q) PROVE PublicPort'
  BY <1>3 DEF GetPublicAddress, PublicPort, TypeOK
<1>4. ASSUME NEW q \in Queries, QuerySTUNServer(q) PROVE found' = found
  BY <1>4 DEF QuerySTUNServer
<1>5. ASSUME NEW q \in Queries, ReadAnswer(q) PROVE PublicPort'
  <2>1. CASE found' = found
    BY <1>1, <2>1
  <2>2. ASSUME NEW m \in inbox, parseSTUNResponse(m.data) # NoAddress,
               found' = [found EXCEPT ![q] = parseSTUNResponse(m.data)]
        PROVE  PublicPort'
    <3>1. parseSTUNResponse(m.data).port = Public.port
      BY <2>2, AnswerHasPort DEF TypeOK
    <3> QED BY <2>2, <3>1 DEF PublicPort, TypeOK
  <2> QED BY <1>5, <2>1, <2>2 DEF ReadAnswer
<1>6. ASSUME NEW m \in Datagrams, Arrive(m) PROVE found' = found
  BY <1>6 DEF Arrive, queries
<1>7. CASE DeadlinePasses \/ Close \/ UNCHANGED vars
  BY <1>1, <1>7 DEF DeadlinePasses, Close, vars, queries
<1> QED BY <1>1, <1>2, <1>3, <1>4, <1>5, <1>6, <1>7 DEF Next

\* An address that GetPublicAddress returns has the port of the public address,
\* whichever of the answers that ServersAnswer admits is read, whoever asked for
\* it: the search through the attributes, the padding that it does not skip and
\* the decoding are those of the code (nat_traversal.go:128-183).
THEOREM PortIsPublic == ASSUME ServersAnswer PROVE Spec => []PublicPort
<1>1. Init => PublicPort
  BY DEF Init, PublicPort
<1>2. TypeOK /\ PublicPort /\ [Next]_vars => PublicPort'
  BY PortStep
<1> QED BY <1>1, <1>2, NATTypes, PTL DEF Spec
=============================================================================
