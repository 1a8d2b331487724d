---------------------------- MODULE IPAllocator ----------------------------
(***************************************************************************)
(* The address allocator of the VPN (internal/vpn/ipallocator.go).  Every  *)
(* operation runs under the allocator's mutex and is one action.  An       *)
(* address is the number that its four bytes make; a byte has Octet values *)
(* (256 in the code).  The subnet is the Size (2^(bits - ones)) addresses  *)
(* that start at Base.  VPNManager composes these actions into a system.   *)
(***************************************************************************)
EXTENDS Integers, FiniteSets

CONSTANTS
  Octet,   \* the number of values of a byte
  Base,    \* subnet.IP, the network address
  Size     \* getTotalIPs

Space == Octet * Octet * Octet * Octet

ASSUME SubnetAssumption ==
  /\ Octet \in Nat /\ Base \in Nat /\ Size \in Nat
  /\ Octet > 1 /\ Size > 0
  /\ Base + Size <= Space

VARIABLES
  nextIP,     \* where the next search begins
  allocated   \* a.allocated

allocatorVars == <<nextIP, allocated>>

Addresses == 0..(Space - 1)
Subnet    == Base..(Base + Size - 1)

\* The last byte of n goes up by one; when that makes it 0, before is what
\* becomes of the bytes before it.
Raise(n, before) == IF n % Octet = Octet - 1 THEN Octet * before ELSE n + 1

\* Mutant: the last byte goes round without a carry.
IncrementLastByte(ip) == Raise(ip, ip \div Octet)

\* Mutant: the carry out of the first byte is not dropped.
IncrementUnbounded(ip) ==
  LET third == ip \div Octet  second == third \div Octet  first == second \div Octet
  IN Raise(ip, Raise(third, Raise(second, first + 1)))

\* A carry goes from byte to byte; out of the first one it is dropped.
incrementIP(ip) ==
  LET third == ip \div Octet  second == third \div Octet  first == second \div Octet
  IN Raise(ip, Raise(third, Raise(second, (first + 1) % Octet)))

getBroadcastAddress == Base + Size - 1

\* Mutant: only the network address is set apart.
NetworkOnly(ip) == ip = Base

isNetworkOrBroadcast(ip) == ip \in {Base, getBroadcastAddress}
GetGatewayIP == incrementIP(Base)

reserved == 2
GetAvailableCount == Size - Cardinality(allocated) - reserved

NewIPAllocator ==
  /\ nextIP = incrementIP(Base)
  /\ allocated = {}

\* Mutant: the map of what is allocated is not looked at.
AvailableUnchecked(ip) == ~isNetworkOrBroadcast(ip)

Available(ip) == ~isNetworkOrBroadcast(ip) /\ ip \notin allocated

\* findNextAvailableIP looks at Size addresses from nextIP on, each the increment
\* of the one before, those beyond the end of the subnet included, and takes the
\* first that is available.
Candidate(i) == (nextIP + i) % Space

findNextAvailableIP(ip) ==
  \E i \in 0..(Size - 1) :
    /\ ip = Candidate(i)
    /\ Available(ip)
    /\ \A j \in 0..(i - 1) : ~Available(Candidate(j))

\* Mutant: the search has gone on already, and its caller goes on once more.
AllocateAndSkip(ip) ==
  /\ findNextAvailableIP(ip)
  /\ allocated' = allocated \cup {ip}
  /\ nextIP' = incrementIP(incrementIP(ip))

\* AllocateIP returns ip.
AllocateIP(ip) ==
  /\ findNextAvailableIP(ip)
  /\ allocated' = allocated \cup {ip}
  /\ nextIP' = incrementIP(ip)

AllocateSpecificIP(ip) ==
  /\ ip \in Subnet
  /\ Available(ip)
  /\ allocated' = allocated \cup {ip}
  /\ nextIP' = nextIP

\* Mutant: a released address stays in the map.
ReleaseForgotten(ip) ==
  /\ ip \in allocated
  /\ allocated' = allocated
  /\ nextIP' = nextIP

ReleaseIP(ip) ==
  /\ ip \in allocated
  /\ allocated' = allocated \ {ip}
  /\ nextIP' = nextIP
=============================================================================
