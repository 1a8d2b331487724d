# PeerMesh in TLA+

TLA+ models of PeerMesh (`internal/discovery`, `internal/peer`, `internal/vpn`), model-checked with
TLC and proved about with TLAPS. Line numbers refer to the repository's sources.

PeerMesh is a peer-to-peer VPN in the making: a **discovery server** keeps a registry of peers that
hold a websocket to it and tells them of each other; a **discovery client** keeps each peer's copy of
that registry; a **connection pool** and **NAT traversal** are to connect the peers directly; a **VPN
manager** hands out their addresses and is to move their packets. The packages do not call each other
yet (the command line only prints), so their interaction is the protocol between client and server,
and each other component is modelled with the callers its API allows.

## Inventory

| Component | State | Operations | What is hard | What makes it correct |
|---|---|---|---|---|
| Discovery server, `discovery/server.go` | `peers` (ID → connection, `LastSeen`, `IsOnline`), `isRunning`, `stopChan`, the RWMutex | `Start`, `Stop`, `handleConnection` with `handleRegister`, `handlePing`, `handlePong`, `removePeer`; `broadcastPeerJoined/Left`; `heartbeatLoop`, `cleanupLoop` | a goroutine per websocket and per departure, two loops, network writes under the read lock, snapshots used after the unlock, IDs registered twice | no entry outlives its handler; entries go for a reason; departures are noticed and announced to all; registrations finish |
| Discovery client, `discovery/client.go` | `conn`, `isConnected`, `peers`, `stopChan`, mutex | `Connect`, `Disconnect`, `SendMessage`, `handleMessages`, `reconnectToServer`, handlers of `peer_list`, `peer_joined`, `peer_left`, `ping` | the order in which list and news arrive; a lock taken twice; reads of a connection that is being replaced | the map agrees with the registry; connecting and reconnecting come to an end |
| Connection pool, `peer/connection.go` | `connections`; of each, `IsConnected`, `LastSeen`, socket, mutex | `Connect`, `Disconnect`, `Send`, `Receive`, `Ping`, `Cleanup`, `Close` | mutexes at two levels held across I/O; connections closed under a goroutine that uses them; the limit | never above the limit; what is handed out is open; nothing live is lost; calls return |
| NAT traversal, `peer/nat_traversal.go` | `peers` (reachable or not), one UDP socket and its deadline | `GetPublicAddress`, `StartHolePunch`, `Close` | goroutines that read one socket and set its deadline for each other | a reachable peer has punched; a query returns the public port; goroutines end |
| IP allocator, `vpn/ipallocator.go` | `nextIP`, `allocated` | `AllocateIP`, `AllocateSpecificIP`, `ReleaseIP` | the end of the subnet, carries, long runs | addresses unique, none lost, inside the subnet |
| VPN manager, `vpn/manager.go` | `localIP`, `gatewayIP`, `isRunning` | `NewManager`, `AllocatePeerIP`, `ReleasePeerIP`, `Start`, `Stop`, `run` | as above | local address, gateway and peers apart |
| VPN interface, `vpn/interface.go` | `isOpen`, two channels | stubs: `Open` always fails | – | – |
| Packets, `vpn/packet.go`, `vpn/handlers.go` | the packet's data, and slices of them | parsing, tests of the destination, `SetTTL`, `CalculateChecksum` | writes under the slices, 16-bit sums, short packets | what was parsed stays true; the checksum verifies |
| Command line, `cli/`, `cmd/` | – | parses and prints | – | – |

Interactions: client → server `register`, `ping`, `pong`; server → client `peer_list`, `peer_joined`,
`peer_left`, `ping`, `pong`, over a websocket that keeps the order and may break at any time. Inside
the server everything meets in `s.peers` and `s.mutex`; inside the pool in the map and the
`Connection` objects.

## Modules

| Module | Models | Notes |
|---|---|---|
| `DiscoveryServer` | `server.go` | the core |
| `PeerRegistry` | what `server.go` promises | abstract; `DiscoveryServer` implements it (`ServerIsRegistry`) |
| `DiscoveryClients` | the server with the client's message handlers (`client.go:271-362`) | extends `DiscoveryServer` |
| `DiscoveryClient` | the rest of `client.go`: connecting, sending, reading, reconnecting | |
| `ConnectionPool` | `connection.go` and the goroutines that call it | |
| `ConnectionTable` | what `connection.go` promises | abstract; `ConnectionPool` implements it (`PoolIsTable`) |
| `NATTraversal`, `STUN` | `nat_traversal.go`; its reading of STUN answers | the first uses the second's operators |
| `IPAllocator`, `VPNManager` | `ipallocator.go`; `manager.go` on top of it | the second composes the first's operations |
| `Packets` | `packet.go` | |
| `*Proofs` | – | theorems and proofs about the module they are named after |
| `MC*` | – | instances for TLC, one `.cfg` per run |

### DiscoveryServer: state and steps

`owner[id]` is `s.peers[id].Conn` (or no entry), `online` the IDs with `IsOnline`, `age[id]` the ticks
since `LastSeen`. `pc` says where each goroutine is: a handler (named by its connection), the goroutine
of a departure (named by the registration `<<id, c>>` it announces), and the heartbeat loop. `subject`
and `list` are locals of `handleRegister`, `todo` is what a write loop has still to visit. `phase` is the
process: created, running, inside `Stop`, crashed.

A critical section without I/O is one action, together with the receipt of the message that leads to
it. `handleRegister` is therefore four steps: `HandleRegister` (insert), `SendPeerList` (snapshot under
the read lock), `WritePeerList` (after the unlock), and the broadcast. `broadcastMessage` and
`sendHeartbeats` write while they hold the read lock, so each is a start and one action per entry;
everything that takes the write lock has `Readers = {}` in its guard. A map is visited in any order,
which also gives `removePeer` and `updatePeerLastSeen` their choice of the first entry they find.

A write to a client that does not read (`stall`) waits; a write to a connection the remote has dropped
succeeds or fails; a connection that is gone may still have a message to read (`buffered`), which is how
a registration arrives after its connection has been cleaned up. Two goroutines inside `WriteMessage`
on one connection make gorilla/websocket panic and end the process (`ConcurrentWritePanic`); the step is
possible wherever the code allows it. `Stop` is a step after which the lock is never free again, which
is what its second `Lock` does.

In `DiscoveryClients` a message is handled in the step that writes it, since a connection keeps its
order and a client's handlers only touch its own map; `view[c]` is the online part of that map. The
client here is anyone who registers and handles what the server sends: the `Connect` of the
repository's own client never gets that far (run `client_connect`).

### PeerRegistry: what the server promises

No connections that fail, no goroutines, no locks: `members` changes as a whole, and never while somebody
walks through it; a removal puts its registration into `leaving`, and it leaves that set when one
walk through all who are then members is over; nothing is promised after `Stop` or a crash. The mapping
takes `members` from `owner`, `leaving` from the departures whose goroutine is at work, `toVisit` from
`todo`. A registration that replaces one of the same ID is a `Join` without a removal, as in the code: the
peer is not announced to have left. That every announcement comes to its end is `DepartureAnnounced`,
a property of the server's model.

### DiscoveryClient: state and steps

The client's mutex is not reentrant. `holder` is who keeps it from one step to the next, which only
`Connect` does; all other critical sections are one action whose guard is that the mutex is free. The
reader of a websocket is named by it, but reads `c.conn` as it is (`reading`), without the mutex. A
websocket that has failed gives an error at every read and panics after `MaxReads` of them (1000 in
gorilla/websocket). `reconnectToServer` runs in the reader, so that a `Connect` of its own starts a second
reader. Nearly all of this lies behind `Connect`, which never returns: the module models the code
behind it too, so that the finding is seen to be about one call, not about what was left out.

### ConnectionPool: state and steps

A `Connection` object is a member of `Conns`, with its socket, `IsConnected` and whether `LastSeen` is
older than `KeepAlive`. Each caller enters (the pool's mutex), and then either has finished in one step,
dials with the mutex held, or has read a pointer from the map, given the mutex back, and goes on under
the connection's own mutex with a write, a read, or both. `Disconnect`, `Cleanup` and `Close` do not take
the connection's mutex, so they happen between those steps. A deadline that cannot be set on a closed
socket returns without clearing `IsConnected`, as in the code. `Cleanup` and `Close` are actions of the
environment of the callers.

### ConnectionTable: what the pool promises

A table of at most `limit` links to peers, with no callers, no mutexes and no sockets. A link is new when
it is added, and takes the place of none that is live; it dies where it stands (`Fail`) or in the step
that takes it out of the table (`Remove`); none comes back. The mapping takes `live` to be the
connections that are marked connected and have an open socket, and `used` those that have been dialled. A
`Connect` is an `Add` in the step in which its dial succeeds, although its checks were made before: that
they still hold is what the pool's mutex is for.

### NATTraversal and STUN: state and steps

Every hole punch is a goroutine, named by the call that started it, and every caller of
`GetPublicAddress` is one. A read is two steps: the deadline of the shared socket is set, and later one of
the readers takes the datagram, or all get an error because the deadline, which may be another
goroutine's, has passed or the socket is closed. Between the read of a punch and the mark in the map
(`MarkReachable`) the entry may be replaced. Datagrams are lost, repeated and reordered (`Arrive`); they are
sequences of bytes, and `parseSTUNResponse` decodes them as the code does: the padding of an attribute is
not skipped (`nat_traversal.go:153`), and all four bytes of the IP are decoded with the first byte of the
cookie (174), so that three of them are wrong. `PublicPort` therefore speaks of the port only. What a
STUN server sends is written after RFC 5389, with the padding.

### IPAllocator and VPNManager

An address is the number that its four bytes make; `incrementIP` carries from byte to byte and drops the
carry out of the first one. That this is addition modulo the number of addresses is proved
(`IncrementIsNext`), and `Candidate` uses it: the i-th address that a search looks at.
Every operation runs under the allocator's mutex, so each is one action. `findNextAvailableIP` looks at
as many addresses as the subnet has, from `nextIP` on. Errors change nothing and have no action. The
callers ask for one address per peer and release only what they hold.

### Packets: state and steps

One packet after the other is parsed and given to a handler, which may call `SetTTL` and
`CalculateChecksum` on it, in any order. `p.Source` and `p.Dest` are slices of `p.Data`: positions in `data`.
Both methods write at the places of the IPv4 header whatever the version. In an IPv6 packet these lie
in the source address, which is therefore overwritten; `SourceKept` speaks of IPv4 only, `VerdictKept` and
`HandlerKept` of both. Other things the model has as the code has them, and no property denies:
`CalculateChecksum` clears the checksum and does not store the new one; it sums twenty bytes, so that it is
right for headers without options; ICMPv6 (58) is not recognised, and an IPv6 packet with next header 1
is taken for ICMP.

## Runs

| Run | Expected | Shows |
|---|---|---|
| `clients` | pass | two peers, the clients' maps; registry and handlers in step; of two peers that have their lists one knows the other |
| `reconnect` | pass | one peer on two connections, one of which may stall; the refinement of `PeerRegistry`; liveness of registration, removal and announcement |
| `two_on_one` | pass | one connection with two IDs is removed completely in the end |
| `pool` | pass | safety of the pool with two callers, the refinement of `ConnectionTable`, and that every call returns |
| `nat` | pass | one socket for two hole punches and a query: nobody is marked for another's punch, the port is right, every goroutine ends |
| `addresses` | pass | uniqueness, no leak, the count, no early reuse in the subnet, none outside it before all usable ones have been given out |
| `packets` | pass | the checksum verifies; what was parsed of a packet stays true of its data |
| `stop` | violation | `Stop` never returns (`server.go:118`) |
| `stalled_client` | violation | a client that stops reading is never removed (`server.go:374`, comment at 469) |
| `clients_forgotten` | violation | a client is sent a list that is not current and loses a peer (`server.go:331`, comment at 308) |
| `client_connect` | violation | a client that has dialled never registers (`client.go:100`, comment at 232) |
| `addresses_subnet` | violation | a peer gets an address outside the subnet (`ipallocator.go:147`) |

`CHECK_DEADLOCK FALSE` in the server's runs, where a crashed process and one inside `Stop` really stop,
and in `client_connect`, where everybody waits for the mutex. The other runs check for deadlock.

### Bounds

- Server: two connections, each used once; two IDs (or one ID on two connections, or two on one): the
  hazards of the registry are between two registrations. One announcement in flight per registration,
  one unread message on a connection that is gone, one stall per connection (`MayStall`). `Timeout = 0`:
  one tick stands for the two minutes, so an age is "within" or "past", and `age` stops at one past
  the timeout. In `clients` nobody stalls: a stall delays steps and adds no order of them.
- Pool: two peers, two connections, two callers, and room for one or for two (`Limits`): enough for a full
  pool, for the race for the last place, for an entry that is replaced, and for each of the two callers
  to wait for the other at both levels of mutexes. No symmetry, because of the liveness property.
- NAT: one peer that is looked for at two addresses, of which one answers; a stranger that punches too;
  two STUN servers, whose answers have a padded and an unpadded attribute before the address; one query;
  one datagram at a time in the socket's buffer (more add no order of arrival that repetition
  does not give). One goroutine at a time for the same peer and address.
- Client: one caller, two websockets, a panic after two failed reads instead of a thousand. The
  counterexample needs one of each.
- Addresses: bytes of two values, so that every second increment carries and the space has 16 addresses;
  a /29 that starts at 4, so that the search leaves the subnet, wraps round the space and comes back;
  three peers. With them and the local address at most six of the eight addresses that a search looks at
  are unavailable: `AllocateIP` never fails in this instance (a failure changes nothing; the theorems
  cover instances in which it happens).
- Packets: one of each version, type and kind of destination, one whose checksum carries twice, and
  three that are rejected; TTLs at and around the bounds of a byte.

### Fairness

- `Scheduling` (server): weak fairness of what a goroutine does once it has work, of the heartbeat and
  of time; strong fairness of `removePeer` and of the cleanup, because `sync.RWMutex` lets no later reader
  overtake a waiting writer. (The waiting writer itself is not a state: in the code new readers wait
  behind it, in the model they may go first.) Messages, failures, stalls and `Stop` are never assumed to
  happen.
- `ClientsRead`: a client that has stopped reading reads again. Only `reconnect`, `two_on_one` and `stop`
  assume it; `stalled_client` shows what happens without it.
- NAT: goroutines run, deadlines and the ten seconds pass (weak fairness). Strong fairness of reads, because
  the readers of a socket queue for it (Go's lock of the file descriptor), so that none is passed over
  for ever while the others set the deadline again and again. No datagram is assumed to arrive.
- Client: strong fairness of every goroutine's own steps: who waits for the mutex gets it if it is free
  again and again. `client_connect` is violated although this is granted.
- Pool: a goroutine that waits for a mutex gets it (`sync.Mutex` hands over to a waiter after a
  millisecond), and a dial, read or write ends, because each has a deadline. That one succeeds is not
  assumed.

## Proofs

All theorems hold for every value of the constants that the named assumptions allow.

- `DiscoveryServerProofs`: `TypeCorrect`; `NoOrphanCorrect`, from the assumption `OneIdPerConn` (a client
  registers one non-empty ID, as `client.go:233` does: without it `removePeer` may leave an entry behind
  until the cleanup); `OfflineCorrect`; `RemovalCorrect`. `NoOrphan` is not inductive by itself. It needs
  that an entry's connection may register its ID (`OwnerMayRegister`), so that with `OneIdPerConn` the entry
  `removePeer` finds is the only one; that a handler is on its way out without `removePeer` only inside
  `Stop` (`QuitInStop`); and that nothing is registered before `Start` (`EmptyBeforeStart`).
- `PeerRegistryProofs`: `ServerImplementsRegistry`. Each of the server's steps is a step of the registry or
  leaves its variables alone. Two facts are needed about the states in which a step is taken: a goroutine
  is in a loop under the read lock exactly as long as it has an entry to visit (`WalkInv`), so that
  `Readers = {}` in the server is `Unwatched` in the registry, and a connection that has not been dialled has
  no handler (`NotDialled`).
- `DiscoveryClientsProofs`: `ClientsTypes`, and `OneAlwaysKnows`, which needs no assumption on who registers
  from where: it speaks of two peers of which no other connection has been opened (`Returned`). A peer that
  has come back on another connection, as each reconnection does (`client.go:245`), may be taken out of
  the others' maps by the announcement of its departure when that is late (`server.go:490`). The
  invariant follows what a client knows from the snapshot in the handler's local variable to the client's
  map (`PairInv`): of two such peers that are registered on open connections, one has its snapshot still to
  take, or one has the other in its snapshot or its map. That later news does not undo this rests on
  `ServeInv`: a departure is announced only of connections that have gone, and a join only of connections
  that have been opened.
- `DiscoveryClientProofs`: `ClientTypes`, `ConnectNeverReturns` (a goroutine that has dialled waits at
  `sendRegistration` for the mutex that it holds, in every later state), `ClientNeverRegisters`: the finding of
  `client_connect` for every instance. The invariant ties the holder of the mutex to where it is (`DialHolds`).
  `ReaderKeepsItsConnection` and `ReconnectingNeverPanics` say what this keeps from happening: the reader's
  unlocked access to `c.conn` never finds nil or another connection, and a client that reconnects does not
  panic, because its reader waits in `Connect` for the mutex (`OneDial`, `ReadsOnce`). Both would have to be
  proved anew if `Connect` returned, and might then fail.
- `ConnectionPoolProofs`: `PoolTypes`, `PoolNeverOverfull`, `ActiveMeansOpen`, `LiveConnectionsTracked`,
  `DeadOnlyForCause`. The invariant says that a dial is alone: from the checks of `Connect` to its
  insertion nobody else dials, there is room, and the entry to be overwritten is not live
  (`DialIsAlone`); and that the sockets of entries are open and distinct (`EntriesOpen`). Two lemmas carry
  the cases: steps that leave the map and the sockets alone, and steps that remove entries together
  with their sockets. `PoolImplementsTable`: with that invariant every step of the pool is a step of
  `ConnectionTable` or leaves its variables alone.
- `NATTraversalProofs`: `NATTypes`, `OnlyPunchedReachable`. Between the wire and the mark a punch is in the
  socket's buffer or in the hands of a goroutine that looked for its sender (`PunchesArrived`).
  `PortIsPublic`, from the assumption `ServersAnswer`: a datagram that passes for a binding response is one that
  a STUN server sends to this machine (`IsAnswer`). TLC evaluates the assumption on the instance of the run
  `nat` (`InstanceAnswers`). It leaves out forged answers, and answers in which an attribute with padding
  stands before the address, unless the padding is zero and the address is the last attribute: after
  padding the code's search is out of step, and may take for an attribute what is none. The search is a
  recursive function; that it has a value for every datagram (`SearchExists`) and what it returns for an
  answer (`AnswerPort`) are shown by a least counterexample (`Least`), because the induction theorems, which
  take an operator, cannot be instantiated. In step, the search finds the address (`OneAttribute`), whose
  port the exclusive or with the cookie restores (`Xor33Twice`, `Xor18Twice`); out of step by one to
  three bytes before the address, it ends without an address (`OutOfStep`), and the query fails.
- `VPNManagerProofs`: `AddressTypes`, `NobodySharesAnAddress`, `NoAddressLeaks`, `AvailableCountIsRight`
  (for subnets of at least two addresses; with one address the code reports -1; what was given out beyond
  the subnet is subtracted too), `NoAddressReusedEarly`. The first three are inductive together: an address
  that is free in the map is held by nobody because the map is what is held. The last follows the search
  round the address space: in its first round what lies behind it (`Distance`) is what has been given out,
  and nothing ahead has been (`FirstRound`); an address can come up again only when the round is complete
  (`RoundDone`). `OutsideAfterSubnet` rests on the same account: what `addresses_subnet` finds does not
  happen before every usable address of the subnet has been given out.
- `PacketsProofs`: `PacketTypes`, `ChecksumCorrect`, `SourceNeverChanges`, `VerdictNeverChanges`,
  `HandlerNeverChanges`, for packets of every length and content. Only the TTL and the checksum of what
  arrived have been written to (`Untouched`), and two rounds of the code's loop fold the sum of ten words.

Only model-checked: all liveness properties (fairness and `ENABLED` are out of the prover's reach). Every
invariant and every action property of the passing runs is proved, and so are both refinements.

## Not modelled

- The VPN interface: `Open` is a stub that always fails. `Manager.Start` therefore always returns an error,
  `Stop` never gets past its first test, and the `run` loop never starts; what the loop does with a packet
  is in `Packets`, the two calls are in no module.
- The packet handlers of the repository, which only log: in `Packets` a handler is whoever calls the
  packet's methods.
- The command line: no state, no calls into the other packages.
- Names and other payload of messages; byte counters; latency; logging; getters.
- What the bytes of a `Ping` of the pool are: it takes the next four of the stream for its answer
  (`connection.go:232`), and the stream has no contents in the model.
- What a client that comes back still has in its map: `DiscoveryClients` forgets the map of a client whose
  connection goes away (the code leaves it, and the next list replaces it).
- `DiscoveryClients` is run with two peers that keep to one connection each, since a third connection is
  beyond what TLC gets through; that others reconnect meanwhile is covered by the proof of
  `OneKnowsTheOther`. The server by itself is run with a peer that has two connections.
- Memory effects of data races (`IsOnline` and `IsConnected` are written without the lock that readers
  take): they are single words, and an access is atomic in the models.

## What is left

Nothing in the repository's packages that keeps state and is reached is without a module. Once `Connect`
of the client no longer deadlocks, two further properties become worth stating: that a client comes
back after its connection has failed (`client.go:202`, where the loop reads the failed connection again
and again), and that its map after a reconnection is the registry's; both need
`DiscoveryClient` and `DiscoveryClients` composed.
