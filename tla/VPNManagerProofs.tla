-------------------------- MODULE VPNManagerProofs --------------------------
(***************************************************************************)
(* Proofs about the addresses of the VPN, for every subnet and any set of  *)
(* peers.                                                                  *)
(***************************************************************************)
EXTENDS VPNManager, FiniteSetTheorems, TLAPS

LEMMA SpaceType == Space \in Nat \ {0} /\ Base + Size <= Space
<1>1. Octet * Octet \in Nat \ {0}
  BY SubnetAssumption
<1>2. Octet * Octet * Octet \in Nat \ {0}
  BY <1>1, SubnetAssumption
<1>3. Octet * Octet * Octet * Octet \in Nat \ {0}
  BY <1>2, SubnetAssumption
<1> QED
  BY <1>3, SubnetAssumption DEF Space

LEMMA IncrementType == ASSUME NEW i \in Int PROVE i % Space \in Addresses
BY SpaceType DEF Addresses

(* A number of one byte more: m is how many numbers the bytes before make. *)
LEMMA RaiseIsNext ==
  ASSUME NEW m \in Nat \ {0}, NEW n \in 0..(m * Octet - 1)
  PROVE  /\ n \div Octet \in 0..(m - 1)
         /\ Raise(n, (n \div Octet + 1) % m) = (n + 1) % (m * Octet)
<1> DEFINE q == n \div Octet
           l == n % Octet
<1>1. q \in Nat /\ l \in 0..(Octet - 1) /\ n = Octet * q + l
  BY SubnetAssumption
<1>2. q \in 0..(m - 1)
  <2>1. SUFFICES ASSUME q >= m PROVE FALSE
    BY <1>1
  <2>2. Octet * q >= Octet * m
    BY <1>1, <2>1, SubnetAssumption
  <2>3. Octet * m = m * Octet /\ Octet * q \in Nat /\ Octet * m \in Nat
    BY <1>1, SubnetAssumption
  <2> QED
    BY <1>1, <2>2, <2>3
<1>3. m * Octet \in Nat \ {0} /\ n + 1 <= m * Octet /\ n + 1 \in Nat
  BY SubnetAssumption
<1>4. CASE l # Octet - 1
  <2>1. Raise(n, (q + 1) % m) = n + 1
    BY <1>4 DEF Raise
  <2>2. n + 1 # m * Octet
    <3>1. SUFFICES ASSUME n + 1 = m * Octet PROVE FALSE
      OBVIOUS
    <3>2. Octet * (m - q) = l + 1 /\ m - q >= 1 /\ m - q \in Int
      BY <1>1, <1>2, <3>1, SubnetAssumption
    <3>3. Octet * (m - q) >= Octet
      BY <3>2, SubnetAssumption
    <3> QED
      BY <1>1, <1>4, <3>2, <3>3, SubnetAssumption
  <2> QED
    BY <1>2, <1>3, <2>1, <2>2
<1>5. CASE l = Octet - 1
  <2>1. Raise(n, (q + 1) % m) = Octet * ((q + 1) % m)
    BY <1>5 DEF Raise
  <2>2. n + 1 = Octet * (q + 1)
    BY <1>1, <1>5, SubnetAssumption
  <2>3. CASE q + 1 < m
    <3>1. (q + 1) % m = q + 1
      BY <1>1, <2>3
    <3>2. n + 1 # m * Octet
      <4>1. SUFFICES ASSUME n + 1 = m * Octet PROVE FALSE
        OBVIOUS
      <4>2. Octet * (m - (q + 1)) = 0 /\ m - (q + 1) \in Nat \ {0}
        BY <1>1, <2>2, <2>3, <4>1, SubnetAssumption
      <4> QED
        BY <4>2, SubnetAssumption
    <3> QED
      BY <1>2, <1>3, <2>1, <2>2, <3>1, <3>2
  <2>4. CASE q + 1 = m
    <3>1. (q + 1) % m = 0 /\ n + 1 = m * Octet
      BY <1>1, <2>2, <2>4, SubnetAssumption
    <3> QED
      BY <1>2, <1>3, <2>1, <3>1, SubnetAssumption
  <2> QED
    BY <1>1, <1>2, <2>3, <2>4
<1> QED
  BY <1>4, <1>5

(* The carry from byte to byte is addition modulo the number of addresses. *)
LEMMA IncrementIsNext == ASSUME NEW n \in Addresses PROVE incrementIP(n) = (n + 1) % Space
<1> DEFINE third  == n \div Octet
           second == third \div Octet
           first  == second \div Octet
<1>1. Octet \in Nat \ {0} /\ Octet * Octet \in Nat \ {0} /\ Octet * Octet * Octet \in Nat \ {0}
  <2>1. Octet \in Nat \ {0} /\ Octet * Octet \in Nat \ {0}
    BY SubnetAssumption
  <2> QED
    BY <2>1
<1>2. /\ third \in 0..(Octet * Octet * Octet - 1)
      /\ Raise(n, (third + 1) % (Octet * Octet * Octet)) = (n + 1) % Space
  BY <1>1, RaiseIsNext DEF Addresses, Space
<1>3. /\ second \in 0..(Octet * Octet - 1)
      /\ Raise(third, (second + 1) % (Octet * Octet)) = (third + 1) % (Octet * Octet * Octet)
  BY <1>1, <1>2, RaiseIsNext
<1>4. Raise(second, (first + 1) % Octet) = (second + 1) % (Octet * Octet)
  BY <1>1, <1>3, RaiseIsNext
<1> QED
  BY <1>2, <1>3, <1>4 DEF incrementIP

LEMMA BaseType == Base \in Addresses /\ Size \in Nat \ {0} /\ incrementIP(Base) \in Addresses
<1>1. Base \in Addresses /\ Base + 1 \in Int
  BY SubnetAssumption, SpaceType DEF Addresses
<1> QED
  BY <1>1, SubnetAssumption, IncrementIsNext, IncrementType

(* Allocation takes an address that was free, and only that one.           *)
LEMMA AllocateFacts ==
  ASSUME TypeOK, NEW ip \in Addresses, AllocateIP(ip) \/ AllocateSpecificIP(ip)
  PROVE  /\ ip \notin allocated /\ ~isNetworkOrBroadcast(ip)
         /\ allocated' = allocated \cup {ip}
         /\ nextIP' \in Addresses
<1>1. CASE AllocateIP(ip)
  <2>1. PICK i \in 0..(Size - 1) : ip = Candidate(i) /\ Available(ip)
    BY <1>1 DEF AllocateIP, findNextAvailableIP
  <2>2. incrementIP(ip) \in Addresses
    <3>1. ip + 1 \in Int
      BY DEF Addresses
    <3> QED BY <3>1, IncrementType, IncrementIsNext
  <2> QED BY <1>1, <2>1, <2>2 DEF AllocateIP, Available
<1>2. CASE AllocateSpecificIP(ip)
  BY <1>2 DEF AllocateSpecificIP, Available, TypeOK
<1> QED BY <1>1, <1>2

-----------------------------------------------------------------------------
(* What ties the allocator's map to the peers' addresses.                  *)
IInv ==
  /\ TypeOK
  /\ NoSharedAddress
  /\ NothingLeaks
  /\ \A ip \in allocated : ~isNetworkOrBroadcast(ip)

LEMMA IInvInit == Init => IInv
<1> SUFFICES ASSUME Init PROVE IInv
  OBVIOUS
<1>1. nextIP \in Addresses
  BY BaseType DEF Init, NewIPAllocator
<1>2. TypeOK
  BY <1>1 DEF Init, NewIPAllocator, TypeOK
<1>3. NoSharedAddress
  BY DEF Init, NoSharedAddress
<1>4. NothingLeaks
  BY DEF Init, NewIPAllocator, NothingLeaks, InUse
<1> QED BY <1>2, <1>3, <1>4 DEF Init, NewIPAllocator, IInv

LEMMA NewManagerStep == IInv /\ NewManager => IInv'
<1> SUFFICES ASSUME IInv, NewManager PROVE IInv'
  OBVIOUS
<1>1. PICK ip \in Addresses :
        /\ SetAddresses(ip)
        /\ AllocateIP(ip) \/ AllocateSpecificIP(ip)
        /\ handed' \in SUBSET Addresses
  BY DEF NewManager, IInv, TypeOK
<1>2. /\ ip \notin allocated /\ ~isNetworkOrBroadcast(ip)
      /\ allocated' = allocated \cup {ip}
      /\ nextIP' \in Addresses
  BY <1>1, AllocateFacts DEF IInv
<1>3. ip # NoIP /\ localIP = NoIP /\ localIP' = ip /\ held' = held
  BY <1>1, NoIPAssumption, SubnetAssumption, SpaceType
  DEF NewManager, SetAddresses, Addresses
<1>4. gatewayIP' \in Addresses
  <2>1. ip + 1 \in Int
    BY DEF Addresses
  <2>2. incrementIP(ip) \in Addresses
    BY <2>1, IncrementType, IncrementIsNext
  <2> QED BY <1>1, <2>2, BaseType DEF SetAddresses, GetGatewayIP
<1>5. TypeOK'
  BY <1>1, <1>2, <1>3, <1>4 DEF IInv, TypeOK
<1>6. \A p \in Peers : held[p] # ip
  BY <1>2, <1>3 DEF IInv, NothingLeaks, InUse
<1>7. NoSharedAddress'
  BY <1>3, <1>6 DEF IInv, NoSharedAddress
<1>8. NothingLeaks'
  BY <1>2, <1>3 DEF IInv, NothingLeaks, InUse
<1>9. (\A a \in allocated : ~isNetworkOrBroadcast(a))'
  BY <1>2 DEF IInv, isNetworkOrBroadcast, getBroadcastAddress
<1> QED BY <1>5, <1>7, <1>8, <1>9 DEF IInv

LEMMA AllocateStep ==
  ASSUME NEW p \in Peers PROVE IInv /\ AllocatePeerIP(p) => IInv'
<1> SUFFICES ASSUME IInv, AllocatePeerIP(p) PROVE IInv'
  OBVIOUS
<1>1. PICK ip \in Addresses :
        /\ AllocateIP(ip)
        /\ held' = [held EXCEPT ![p] = ip]
        /\ handed' = handed \cup {ip}
  BY DEF AllocatePeerIP
<1>2. /\ ip \notin allocated /\ ~isNetworkOrBroadcast(ip)
      /\ allocated' = allocated \cup {ip}
      /\ nextIP' \in Addresses
  BY <1>1, AllocateFacts DEF IInv
<1>3. /\ ip # NoIP /\ localIP # NoIP /\ held[p] = NoIP
      /\ localIP' = localIP /\ gatewayIP' = gatewayIP
  BY <1>1, NoIPAssumption, SubnetAssumption, SpaceType DEF AllocatePeerIP, Addresses
<1>4. TypeOK'
  BY <1>1, <1>2, <1>3 DEF IInv, TypeOK
<1>5. ip # localIP /\ \A q \in Peers : held[q] # ip
  BY <1>2, <1>3 DEF IInv, NothingLeaks, InUse
<1>6. held'[p] = ip /\ \A q \in Peers \ {p} : held'[q] = held[q]
  BY <1>1 DEF IInv, TypeOK
<1>7. NoSharedAddress'
  BY <1>3, <1>5, <1>6 DEF IInv, NoSharedAddress
<1>8. NothingLeaks'
  BY <1>2, <1>3, <1>6 DEF IInv, NothingLeaks, InUse
<1>9. (\A a \in allocated : ~isNetworkOrBroadcast(a))'
  BY <1>2 DEF IInv, isNetworkOrBroadcast, getBroadcastAddress
<1> QED BY <1>4, <1>7, <1>8, <1>9 DEF IInv

LEMMA ReleaseStep ==
  ASSUME NEW p \in Peers PROVE IInv /\ ReleasePeerIP(p) => IInv'
<1> SUFFICES ASSUME IInv, ReleasePeerIP(p) PROVE IInv'
  OBVIOUS
<1>1. /\ held[p] # NoIP
      /\ allocated' = allocated \ {held[p]} /\ nextIP' = nextIP
      /\ localIP' = localIP /\ gatewayIP' = gatewayIP /\ handed' = handed
  BY DEF ReleasePeerIP, ReleaseIP
<1>2. /\ held' = [held EXCEPT ![p] = NoIP]
      /\ held'[p] = NoIP /\ \A q \in Peers \ {p} : held'[q] = held[q]
  BY DEF IInv, TypeOK, ReleasePeerIP
<1>3. TypeOK'
  BY <1>1, <1>2 DEF IInv, TypeOK
<1>4. NoSharedAddress'
  BY <1>1, <1>2 DEF IInv, NoSharedAddress
<1>5. held[p] # localIP /\ \A q \in Peers \ {p} : held[q] # held[p]
  BY <1>1 DEF IInv, NoSharedAddress
<1>6. NothingLeaks'
  BY <1>1, <1>2, <1>5 DEF IInv, NothingLeaks, InUse
<1>7. (\A a \in allocated : ~isNetworkOrBroadcast(a))'
  BY <1>1 DEF IInv, isNetworkOrBroadcast, getBroadcastAddress
<1> QED BY <1>3, <1>4, <1>6, <1>7 DEF IInv

LEMMA IInvStep == IInv /\ [Next]_vars => IInv'
<1> SUFFICES ASSUME IInv, [Next]_vars PROVE IInv'
  OBVIOUS
<1>1. CASE NewManager
  BY <1>1, NewManagerStep
<1>2. ASSUME NEW p \in Peers, AllocatePeerIP(p) PROVE IInv'
  BY <1>2, AllocateStep
<1>3. ASSUME NEW p \in Peers, ReleasePeerIP(p) PROVE IInv'
  BY <1>3, ReleaseStep
<1>4. CASE UNCHANGED vars
  BY <1>4 DEF vars, allocatorVars, IInv, TypeOK, NoSharedAddress, NothingLeaks,
     InUse, isNetworkOrBroadcast, getBroadcastAddress
<1> QED BY <1>1, <1>2, <1>3, <1>4 DEF Next

LEMMA IInvAlways == Spec => []IInv
BY IInvInit, IInvStep, PTL DEF Spec

-----------------------------------------------------------------------------
(* Every address is an address of the space: the search never leaves it.   *)
THEOREM AddressTypes == Spec => []TypeOK
<1>1. IInv => TypeOK
  BY DEF IInv
<1> QED BY <1>1, IInvAlways, PTL

(* No two peers, and no peer and the local machine, have the same address: *)
(* AllocateIP looks the address up in the map before it returns it         *)
(* (ipallocator.go:146) and no other step changes the map but a release.   *)
THEOREM NobodySharesAnAddress == Spec => []NoSharedAddress
<1>1. IInv => NoSharedAddress
  BY DEF IInv
<1> QED BY <1>1, IInvAlways, PTL

(* The allocator's map is what the local machine and the peers hold.       *)
THEOREM NoAddressLeaks == Spec => []NothingLeaks
<1>1. IInv => NothingLeaks
  BY DEF IInv
<1> QED BY <1>1, IInvAlways, PTL

(* The count of available addresses is right in every subnet of at least   *)
(* two addresses, but for those that were given out beyond its end.  In a  *)
(* subnet of one address the network and the broadcast address are the     *)
(* same one and the count is -1.                                           *)
THEOREM AvailableCountIsRight == Size >= 2 => (Spec => []AvailableIsFree)
<1> SUFFICES ASSUME Size >= 2 PROVE Spec => []AvailableIsFree
  OBVIOUS
<1>1. IInv => AvailableIsFree
  <2> SUFFICES ASSUME IInv PROVE AvailableIsFree
    OBVIOUS
  <2> DEFINE Ends  == {Base, getBroadcastAddress}
             Inside == allocated \cap Subnet
             Beyond == allocated \ Subnet
             Taken  == Inside \cup Ends
  <2>1. IsFiniteSet(Subnet) /\ Cardinality(Subnet) = Size
    <3>1. Base \in Int /\ Base + Size - 1 \in Int /\ Base <= Base + Size - 1
      BY SubnetAssumption
    <3> QED BY <3>1, SubnetAssumption, FS_Interval DEF Subnet
  <2>2. IsFiniteSet(allocated) /\ Cardinality(allocated) \in Nat
    <3>1. IsFiniteSet(Addresses)
      BY SpaceType, FS_Interval DEF Addresses
    <3> QED BY <3>1, FS_Subset, FS_CardinalityType DEF IInv, TypeOK
  <2>3. /\ IsFiniteSet(Inside) /\ Cardinality(Inside) \in Nat /\ Cardinality(Beyond) \in Nat
        /\ Cardinality(allocated) = Cardinality(Inside) + Cardinality(Beyond)
    <3>1. IsFiniteSet(Inside) /\ IsFiniteSet(Beyond)
      BY <2>2, FS_Subset
    <3>2. Cardinality(Beyond) = Cardinality(allocated) - Cardinality(Inside)
      BY <2>2, FS_Difference, Zenon
    <3> QED BY <2>2, <3>1, <3>2, FS_CardinalityType
  <2>4. Base # getBroadcastAddress /\ Ends \subseteq Subnet
    BY SubnetAssumption DEF getBroadcastAddress, Subnet
  <2>5. IsFiniteSet(Ends) /\ Cardinality(Ends) = 2
    <3>1. IsFiniteSet({Base}) /\ Cardinality({Base}) = 1
      BY FS_Singleton
    <3>2. Ends = {Base} \cup {getBroadcastAddress}
      OBVIOUS
    <3>3. /\ IsFiniteSet({Base} \cup {getBroadcastAddress})
          /\ Cardinality({Base} \cup {getBroadcastAddress}) = 1 + 1
      BY <2>4, <3>1, FS_AddElement
    <3> QED BY <3>2, <3>3
  <2>6. Inside \cap Ends = {}
    BY DEF IInv, isNetworkOrBroadcast
  <2>7. IsFiniteSet(Taken) /\ Cardinality(Taken) = Cardinality(Inside) + 2
    <3>1. /\ IsFiniteSet(Taken)
          /\ Cardinality(Taken) = Cardinality(Inside) + Cardinality(Ends)
                                    - Cardinality(Inside \cap Ends)
      BY <2>3, <2>5, FS_Union
    <3>2. Cardinality(Inside \cap Ends) = 0
      BY <2>6, FS_EmptySet
    <3> QED BY <3>1, <3>2, <2>3, <2>5
  <2>8. {ip \in Subnet : Available(ip)} = Subnet \ Taken
    BY DEF Available, isNetworkOrBroadcast
  <2>9. Cardinality(Subnet \ Taken) = Size - (Cardinality(Inside) + 2)
    <3>1. Subnet \cap Taken = Taken
      BY <2>4
    <3>2. Cardinality(Subnet \ Taken) = Cardinality(Subnet) - Cardinality(Subnet \cap Taken)
      BY <2>1, FS_Difference, Zenon
    <3> QED BY <2>1, <2>7, <3>1, <3>2
  <2>10. GetAvailableCount = (Size - (Cardinality(Inside) + 2)) - Cardinality(Beyond)
    BY <2>3, SubnetAssumption DEF GetAvailableCount, reserved
  <2> HIDE DEF Taken, Beyond
  <2>11. AvailableIsFree <=>
           GetAvailableCount = Cardinality({ip \in Subnet : Available(ip)}) - Cardinality(Beyond)
    BY DEF AvailableIsFree, Beyond
  <2> QED BY <2>8, <2>9, <2>10, <2>11, Zenon
<1> QED BY <1>1, IInvAlways, PTL

-----------------------------------------------------------------------------
(* How far an address is from the first usable one, and what the search    *)
(* has passed by in its first round through the address space.             *)
Distance(ip) == IF ip > Base THEN ip - Base - 1 ELSE ip - Base - 1 + Space

Given(ip) == ip \in handed \/ ip = localIP \/ isNetworkOrBroadcast(ip)

FirstRound ==
  /\ \A ip \in Addresses : Distance(ip) < Distance(nextIP) => Given(ip)
  /\ \A ip \in handed : Distance(ip) < Distance(nextIP)
RoundDone == \A ip \in Addresses : Given(ip)

HeldHanded == \A p \in Peers : held[p] # NoIP => held[p] \in handed
SearchInv  == IInv /\ HeldHanded /\ (FirstRound \/ RoundDone)

LEMMA SmallMod == ASSUME NEW n \in Nat, n < Space PROVE n % Space = n
BY SubnetAssumption, SpaceType

LEMMA LargeMod == ASSUME NEW n \in Nat, Space <= n, n < 2 * Space PROVE n % Space = n - Space
BY SubnetAssumption, SpaceType

LEMMA DistanceRange ==
  ASSUME NEW ip \in Addresses
  PROVE  /\ Distance(ip) \in 0..(Space - 1)
         /\ ip # Base => Distance(ip) < Space - 1
BY SubnetAssumption, SpaceType DEF Addresses, Distance

LEMMA NextDistance ==
  ASSUME NEW ip \in Addresses, ip # Base
  PROVE  Distance(incrementIP(ip)) = Distance(ip) + 1
<1>1. CASE ip + 1 < Space
  <2>1. incrementIP(ip) = ip + 1
    BY <1>1, SmallMod, IncrementIsNext DEF Addresses
  <2> QED BY <1>1, <2>1, SubnetAssumption, SpaceType DEF Distance, Addresses
<1>2. CASE ip + 1 = Space
  <2>1. incrementIP(ip) = 0
    BY <1>2, SubnetAssumption, SpaceType, LargeMod, IncrementIsNext DEF Addresses
  <2> QED BY <1>2, <2>1, SubnetAssumption, SpaceType DEF Distance, Addresses
<1> QED BY <1>1, <1>2, SubnetAssumption, SpaceType DEF Addresses

(* The address that is i steps further on.                                 *)
LEMMA DistanceOfCandidate ==
  ASSUME NEW n \in Addresses, NEW i \in 0..(Space - 1)
  PROVE  /\ (n + i) % Space \in Addresses
         /\ Distance((n + i) % Space) = IF Distance(n) + i < Space
                                          THEN Distance(n) + i
                                          ELSE Distance(n) + i - Space
<1>1. CASE n + i < Space
  <2>1. (n + i) % Space = n + i
    BY <1>1, SmallMod DEF Addresses
  <2> QED BY <1>1, <2>1, SubnetAssumption, SpaceType DEF Distance, Addresses
<1>2. CASE n + i >= Space
  <2>1. (n + i) % Space = n + i - Space
    BY <1>2, SubnetAssumption, SpaceType, LargeMod DEF Addresses
  <2> QED BY <1>2, <2>1, SubnetAssumption, SpaceType DEF Distance, Addresses
<1> QED BY <1>1, <1>2, SubnetAssumption, SpaceType DEF Addresses

LEMMA DistanceInjective ==
  ASSUME NEW a \in Addresses, NEW b \in Addresses, Distance(a) = Distance(b)
  PROVE  a = b
BY SubnetAssumption, SpaceType DEF Addresses, Distance

LEMMA UnavailableGiven ==
  ASSUME SearchInv, NEW ip \in Addresses, ~Available(ip)
  PROVE  Given(ip)
<1>1. CASE isNetworkOrBroadcast(ip)
  BY <1>1 DEF Given
<1>2. CASE ip \in allocated
  BY <1>2 DEF SearchInv, IInv, NothingLeaks, InUse, HeldHanded, Given
<1> QED BY <1>1, <1>2 DEF Available

(* An address is handed out a second time only after a whole round.        *)
LEMMA SearchStep ==
  ASSUME SearchInv, NEW ip \in Addresses, AllocateIP(ip), handed' = handed \cup {ip},
         localIP' = localIP \/ localIP = NoIP
  PROVE  /\ ip \in handed => RoundDone
         /\ (FirstRound \/ RoundDone)'
<1>1. PICK i \in 0..(Size - 1) :
        /\ ip = Candidate(i) /\ Available(ip)
        /\ \A j \in 0..(i - 1) : ~Available(Candidate(j))
  BY DEF AllocateIP, findNextAvailableIP
<1>2. /\ nextIP \in Addresses /\ i \in 0..(Space - 1) /\ handed \subseteq Addresses
      /\ nextIP' = incrementIP(ip)
  BY <1>1, SubnetAssumption, SpaceType DEF SearchInv, IInv, TypeOK, AllocateIP
<1>3. ~isNetworkOrBroadcast(ip) /\ ip # Base /\ ip # localIP
  BY <1>1, NoIPAssumption DEF Available, isNetworkOrBroadcast, SearchInv, IInv, NothingLeaks,
     InUse, Addresses
<1>4. ASSUME NEW a \in Addresses, Given(a) PROVE Given(a)'
  BY <1>4, NoIPAssumption DEF Given, Addresses, isNetworkOrBroadcast, getBroadcastAddress
<1>5. /\ Distance(nextIP) \in 0..(Space - 1) /\ Distance(ip) \in 0..(Space - 1)
      /\ Distance(ip) = IF Distance(nextIP) + i < Space
                          THEN Distance(nextIP) + i
                          ELSE Distance(nextIP) + i - Space
  BY <1>1, <1>2, DistanceRange, DistanceOfCandidate DEF Candidate
<1>6. ASSUME NEW a \in Addresses, Distance(nextIP) <= Distance(a),
             Distance(a) - Distance(nextIP) < i
      PROVE  Given(a)
  <2> DEFINE j == Distance(a) - Distance(nextIP)
  <2>1. Distance(a) \in 0..(Space - 1)
    BY DistanceRange
  <2>2. j \in 0..(i - 1) /\ j \in 0..(Space - 1) /\ Distance(nextIP) + j = Distance(a)
    BY <1>2, <1>5, <1>6, <2>1, SubnetAssumption, SpaceType
  <2>3. Candidate(j) \in Addresses /\ Distance(Candidate(j)) = Distance(a)
    BY <1>2, <2>1, <2>2, SubnetAssumption, SpaceType, DistanceOfCandidate DEF Candidate
  <2>4. Candidate(j) = a
    BY <2>3, DistanceInjective
  <2> QED BY <1>1, <2>2, <2>4, UnavailableGiven
<1>7. CASE RoundDone
  BY <1>4, <1>7 DEF RoundDone
<1>8. CASE FirstRound /\ Distance(nextIP) + i < Space
  <2>1. Distance(ip) = Distance(nextIP) + i /\ Distance(nextIP') = Distance(ip) + 1
    BY <1>2, <1>3, <1>5, <1>8, NextDistance
  <2>2. ip \notin handed
    BY <1>5, <1>8, <2>1 DEF FirstRound
  <2>3. ASSUME NEW a \in Addresses, Distance(a) < Distance(nextIP') PROVE Given(a)'
    <3>1. Distance(a) \in 0..(Space - 1)
      BY DistanceRange
    <3>2. CASE Distance(a) < Distance(nextIP)
      BY <1>4, <1>8, <3>2 DEF FirstRound
    <3>3. CASE Distance(nextIP) <= Distance(a) /\ Distance(a) < Distance(ip)
      BY <1>4, <1>5, <1>6, <2>1, <3>1, <3>3
    <3>4. CASE Distance(a) = Distance(ip)
      BY <3>4, DistanceInjective DEF Given
    <3> QED BY <1>5, <2>1, <2>3, <3>1, <3>2, <3>3, <3>4
  <2>4. ASSUME NEW a \in handed' PROVE Distance(a) < Distance(nextIP')
    <3>1. CASE a = ip
      BY <1>5, <2>1, <3>1
    <3>2. CASE a \in handed
      <4>1. Distance(a) \in 0..(Space - 1) /\ Distance(a) < Distance(nextIP)
        BY <1>2, <1>8, <3>2, DistanceRange DEF FirstRound
      <4> QED BY <1>5, <2>1, <4>1
    <3> QED BY <2>4, <3>1, <3>2
  <2>5. FirstRound'
    BY <2>3, <2>4 DEF FirstRound, Addresses, Distance
  <2> QED BY <2>2, <2>5
<1>9. CASE FirstRound /\ Distance(nextIP) + i >= Space
  <2>1. ASSUME NEW a \in Addresses PROVE Given(a)
    <3>1. Distance(a) \in 0..(Space - 1)
      BY DistanceRange
    <3>2. CASE Distance(a) < Distance(nextIP)
      BY <1>9, <3>2 DEF FirstRound
    <3>3. CASE Distance(nextIP) <= Distance(a)
      <4>1. i \in Int /\ Distance(a) - Distance(nextIP) < i
        BY <1>2, <1>5, <1>9, <3>1, SubnetAssumption, SpaceType
      <4> QED BY <1>6, <3>3, <4>1
    <3> QED BY <1>5, <3>1, <3>2, <3>3
  <2> QED BY <1>4, <2>1 DEF RoundDone
<1>10. Distance(nextIP) + i < Space \/ Distance(nextIP) + i >= Space
  BY <1>2, <1>5, SubnetAssumption, SpaceType
<1> QED BY <1>7, <1>8, <1>9, <1>10 DEF SearchInv

LEMMA SearchInit == Init => SearchInv
<1> SUFFICES ASSUME Init PROVE SearchInv
  OBVIOUS
<1>1. Distance(nextIP) = 0
  <2>1. CASE Base + 1 < Space
    BY <2>1, SubnetAssumption, SpaceType, SmallMod, BaseType, IncrementIsNext
    DEF Init, NewIPAllocator, Distance
  <2>2. CASE Base + 1 = Space
    <3>1. (Base + 1) % Space = 0
      BY <2>2, SubnetAssumption, SpaceType, LargeMod
    <3> QED BY <2>2, <3>1, SubnetAssumption, SpaceType, BaseType, IncrementIsNext
        DEF Init, NewIPAllocator, Distance
  <2> QED BY <2>1, <2>2, SubnetAssumption, SpaceType
<1>2. FirstRound
  BY <1>1, DistanceRange DEF Init, FirstRound
<1> QED BY <1>2, IInvInit DEF Init, SearchInv, HeldHanded

LEMMA SearchAlways ==
  ASSUME SearchInv, [Next]_vars
  PROVE  /\ SearchInv'
         /\ \A p \in Peers : held'[p] # held[p] /\ held'[p] \in handed => RoundDone
<1>1. IInv'
  BY IInvStep DEF SearchInv
<1>2. CASE NewManager
  <2>1. PICK ip \in Addresses :
          /\ SetAddresses(ip)
          /\ \/ AllocateSpecificIP(ip) /\ handed' = handed
             \/ AllocateIP(ip) /\ handed' = handed \cup {ip}
    BY <1>2 DEF NewManager
  <2>2. localIP = NoIP /\ held' = held
    BY <1>2, <2>1 DEF NewManager, SetAddresses
  <2>3. CASE AllocateSpecificIP(ip) /\ handed' = handed
    <3>1. nextIP' = nextIP
      BY <2>3 DEF AllocateSpecificIP
    <3>2. ASSUME NEW a \in Addresses, Given(a) PROVE Given(a)'
      BY <2>2, <2>3, <3>2, NoIPAssumption
      DEF Given, Addresses, isNetworkOrBroadcast, getBroadcastAddress
    <3>3. (FirstRound \/ RoundDone)'
      BY <2>3, <3>1, <3>2 DEF SearchInv, FirstRound, RoundDone, Addresses, Distance
    <3> QED BY <1>1, <2>2, <2>3, <3>3 DEF SearchInv, HeldHanded
  <2>4. CASE AllocateIP(ip) /\ handed' = handed \cup {ip}
    BY <1>1, <2>2, <2>4, SearchStep DEF SearchInv, HeldHanded
  <2> QED BY <2>1, <2>3, <2>4
<1>3. ASSUME NEW p \in Peers, AllocatePeerIP(p)
      PROVE  /\ SearchInv'
             /\ \A q \in Peers : held'[q] # held[q] /\ held'[q] \in handed => RoundDone
  <2>1. PICK ip \in Addresses :
          /\ AllocateIP(ip)
          /\ held' = [held EXCEPT ![p] = ip]
          /\ handed' = handed \cup {ip}
    BY <1>3 DEF AllocatePeerIP
  <2>2. held'[p] = ip /\ \A q \in Peers \ {p} : held'[q] = held[q]
    BY <2>1 DEF SearchInv, IInv, TypeOK
  <2>3. (ip \in handed => RoundDone) /\ (FirstRound \/ RoundDone)'
    BY <1>3, <2>1, SearchStep DEF AllocatePeerIP
  <2> QED BY <1>1, <2>1, <2>2, <2>3 DEF SearchInv, HeldHanded
<1>4. ASSUME NEW p \in Peers, ReleasePeerIP(p)
      PROVE  /\ SearchInv'
             /\ \A q \in Peers : held'[q] # held[q] /\ held'[q] \in handed => RoundDone
  <2>1. /\ held'[p] = NoIP /\ \A q \in Peers \ {p} : held'[q] = held[q]
        /\ handed' = handed /\ nextIP' = nextIP /\ localIP' = localIP
    BY <1>4 DEF ReleasePeerIP, ReleaseIP, SearchInv, IInv, TypeOK
  <2>2. NoIP \notin handed
    <3>1. NoIP \notin Addresses
      BY NoIPAssumption, SubnetAssumption, SpaceType DEF Addresses
    <3> QED BY <3>1 DEF SearchInv, IInv, TypeOK
  <2>3. (FirstRound \/ RoundDone)'
    BY <2>1 DEF SearchInv, FirstRound, RoundDone, Given, Distance, isNetworkOrBroadcast,
       getBroadcastAddress, Addresses
  <2> QED BY <1>1, <2>1, <2>2, <2>3 DEF SearchInv, HeldHanded
<1>5. CASE UNCHANGED vars
  BY <1>1, <1>5 DEF vars, allocatorVars, SearchInv, HeldHanded, FirstRound, RoundDone, Given,
     Distance, isNetworkOrBroadcast, getBroadcastAddress, Addresses
<1> QED BY <1>2, <1>3, <1>4, <1>5 DEF Next

(* A released address is not given out again before every address of the   *)
(* subnet that is free has been: findNextAvailableIP goes on from the last *)
(* one (ipallocator.go:147).                                               *)
THEOREM NoAddressReusedEarly == Spec => NoEarlyReuse
<1> DEFINE Fresh == \A p \in Peers : held'[p] # held[p] /\ held'[p] \in handed
                      => \A ip \in Subnet : Available(ip) => ip \in handed
<1>1. SearchInv /\ [Next]_vars => Fresh
  <2> SUFFICES ASSUME SearchInv, [Next]_vars, NEW p \in Peers,
                      held'[p] # held[p], held'[p] \in handed,
                      NEW ip \in Subnet, Available(ip)
               PROVE  ip \in handed
    OBVIOUS
  <2>1. ip \in Addresses
    BY SubnetAssumption, SpaceType DEF Subnet, Addresses
  <2>2. Given(ip)
    BY <2>1, SearchAlways DEF RoundDone
  <2>3. ip # localIP
    BY <2>1, NoIPAssumption DEF Available, SearchInv, IInv, NothingLeaks, InUse, Addresses
  <2> QED BY <2>2, <2>3 DEF Given, Available
<1>2. SearchInv /\ [Next]_vars => SearchInv'
  BY SearchAlways
<1> QED BY <1>1, <1>2, SearchInit, PTL DEF Spec, NoEarlyReuse

(* An address outside the subnet is given to a peer only when the search   *)
(* has been through the whole subnet: outside it begins at a distance of   *)
(* Size - 1 from where the first search began, behind all usable addresses *)
(* (findNextAvailableIP, ipallocator.go:138).                              *)
THEOREM OutsideAfterSubnet == Spec => []SubnetFirst
<1>1. SearchInv => SubnetFirst
  <2> SUFFICES ASSUME SearchInv, NEW p \in Peers, held[p] # NoIP, held[p] \notin Subnet,
                      NEW ip \in Subnet
               PROVE  Given(ip)
    BY DEF SubnetFirst, Given
  <2>1. held[p] \in Addresses /\ held[p] \in handed
    BY DEF SearchInv, HeldHanded, IInv, TypeOK
  <2>2. ip \in Addresses
    BY SubnetAssumption, SpaceType DEF Subnet, Addresses
  <2>3. CASE RoundDone
    BY <2>2, <2>3 DEF RoundDone
  <2>4. CASE FirstRound /\ ip # Base
    <3>1. Distance(ip) < Distance(held[p])
      BY <2>1, <2>2, <2>4, SubnetAssumption, SpaceType DEF Distance, Subnet, Addresses
    <3>2. Distance(held[p]) < Distance(nextIP)
      BY <2>1, <2>4 DEF FirstRound
    <3>3. /\ Distance(ip) \in Int /\ Distance(held[p]) \in Int
          /\ Distance(nextIP) \in Int
      BY <2>1, <2>2, DistanceRange, SubnetAssumption, SpaceType DEF SearchInv, IInv, TypeOK
    <3>4. Distance(ip) < Distance(nextIP)
      BY <3>1, <3>2, <3>3
    <3> QED BY <2>2, <2>4, <3>4 DEF FirstRound
  <2>5. CASE ip = Base
    BY <2>5 DEF Given, isNetworkOrBroadcast
  <2> QED BY <2>3, <2>4, <2>5 DEF SearchInv
<1>2. SearchInv /\ [Next]_vars => SearchInv'
  BY SearchAlways
<1> QED BY <1>1, <1>2, SearchInit, PTL DEF Spec
=============================================================================
