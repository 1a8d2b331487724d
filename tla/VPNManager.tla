----------------------------- MODULE VPNManager -----------------------------
(***************************************************************************)
(* The addresses of the VPN (internal/vpn/manager.go): NewManager takes    *)
(* the local address and suggests a gateway, and peers are given addresses *)
(* by AllocatePeerIP and give them back by ReleasePeerIP.  A call that     *)
(* returns an error changes nothing.                                       *)
(***************************************************************************)
EXTENDS IPAllocator

CONSTANTS
  Peers,     \* the peers that ask for an address, for one each
  NoIP

ASSUME NoIPAssumption == NoIP \notin Int

VARIABLES
  localIP,    \* NoIP until NewManager has returned
  gatewayIP,
  held,       \* the address each peer has been given and has not released
  handed      \* history: the addresses that AllocateIP has returned

vars == <<allocatorVars, localIP, gatewayIP, held, handed>>

TypeOK ==
  /\ nextIP \in Addresses
  /\ allocated \in SUBSET Addresses
  /\ localIP \in Addresses \cup {NoIP}
  /\ gatewayIP \in Addresses \cup {NoIP}
  /\ held \in [Peers -> Addresses \cup {NoIP}]
  /\ handed \in SUBSET Addresses

Init ==
  /\ NewIPAllocator
  /\ localIP = NoIP
  /\ gatewayIP = NoIP
  /\ held = [p \in Peers |-> NoIP]
  /\ handed = {}

\* The gateway is the first usable address, or the one after the local address;
\* it is not taken out of the allocator.
SetAddresses(ip) ==
  /\ localIP' = ip
  /\ gatewayIP' = IF GetGatewayIP = ip THEN incrementIP(ip) ELSE GetGatewayIP
  /\ held' = held

\* With LocalIP in the configuration, and without.
NewManager ==
  /\ localIP = NoIP
  /\ \E ip \in Addresses :
       /\ SetAddresses(ip)
       /\ \/ AllocateSpecificIP(ip) /\ handed' = handed
          \/ AllocateIP(ip) /\ handed' = handed \cup {ip}

AllocatePeerIP(p) ==
  /\ localIP # NoIP
  /\ held[p] = NoIP
  /\ \E ip \in Addresses :
       /\ AllocateIP(ip)
       /\ held' = [held EXCEPT ![p] = ip]
       /\ handed' = handed \cup {ip}
  /\ UNCHANGED <<localIP, gatewayIP>>

ReleasePeerIP(p) ==
  /\ held[p] # NoIP
  /\ ReleaseIP(held[p])
  /\ held' = [held EXCEPT ![p] = NoIP]
  /\ UNCHANGED <<localIP, gatewayIP, handed>>

Next ==
  \/ NewManager
  \/ \E p \in Peers : AllocatePeerIP(p) \/ ReleasePeerIP(p)

Spec == Init /\ [][Next]_vars

-----------------------------------------------------------------------------
InUse == {held[p] : p \in Peers} \cup {localIP}

(* Nobody shares an address: the local machine and the peers, as long as   *)
(* they release only what they hold, have different ones, wherever the     *)
(* search has wandered to.                                                 *)
NoSharedAddress ==
  /\ \A p \in Peers : held[p] # NoIP => held[p] # localIP
  /\ \A p, q \in Peers : p # q /\ held[p] # NoIP => held[p] # held[q]

(* The allocator's map is exactly what is in use: no address is lost by an *)
(* allocation that comes after a release, and none is free while in use.   *)
NothingLeaks == allocated = InUse \ {NoIP}

(* The number that GetStats reports as available is the number of          *)
(* addresses of the subnet that can still be given out, less those that    *)
(* were given out beyond its end: these are counted as if they lay in it.  *)
AvailableIsFree ==
  GetAvailableCount =
    Cardinality({ip \in Subnet : Available(ip)}) - Cardinality(allocated \ Subnet)

(* An address that AllocateIP has handed out comes back only when every    *)
(* address of the subnet that is free has been handed out too: a peer that *)
(* has just released its address cannot meet another one that uses it      *)
(* already, while there is a fresh one to give.                            *)
NoEarlyReuse ==
  [][\A p \in Peers : held'[p] # held[p] /\ held'[p] \in handed
       => \A ip \in Subnet : Available(ip) => ip \in handed]_vars

(* The search leaves the subnet only after a whole round through it: when  *)
(* a peer is given an address outside, every usable address of the subnet  *)
(* has been given out at least once, the local address among them.         *)
SubnetFirst ==
  \A p \in Peers : held[p] # NoIP /\ held[p] \notin Subnet =>
    \A ip \in Subnet : ip \in handed \/ ip = localIP \/ isNetworkOrBroadcast(ip)

-----------------------------------------------------------------------------
(* "IPAllocator manages IP address allocation within a subnet"             *)
(* (ipallocator.go:9), and a test asks of the address of a peer to be in   *)
(* the subnet (manager_test.go:69).                                        *)
PeersInSubnet == \A p \in Peers : held[p] # NoIP => held[p] \in Subnet
=============================================================================
