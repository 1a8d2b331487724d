--------------------------- MODULE ConnectionPool ---------------------------
(***************************************************************************)
(* The pool of connections to peers (internal/peer/connection.go) and the  *)
(* goroutines that call it.  The pool's mutex guards the map and is held   *)
(* across the dial of Connect; a connection's own mutex is held across the *)
(* reads and writes of Send, Receive and Ping.  Connect, Disconnect,       *)
(* Cleanup and Close touch a connection's fields without its mutex, so     *)
(* they may do so while another goroutine is reading or writing.  A        *)
(* Connection object and its socket come into being together and are never *)
(* used for a second dial.                                                 *)
(***************************************************************************)
EXTENDS Naturals, FiniteSets

CONSTANTS
  Peers,           \* peer IDs
  Conns,           \* Connection objects: the dials that may succeed
  Callers,         \* goroutines
  Limits,          \* the values that config.MaxConnections may have
  None

ASSUME PoolAssumption ==
  /\ Limits \subseteq Nat \ {0}
  /\ None \notin Conns

VARIABLES
  limit,         \* p.config.MaxConnections, never assigned
  connections,   \* p.connections: the Connection of each peer, or None
  sock,          \* of each Connection's socket: "unused", "open", "closed"
  connected,     \* IsConnected
  idle,          \* LastSeen is longer ago than KeepAlive
  pc,            \* where each caller is
  call,          \* what it called: the method and the peer
  ptr            \* the Connection it works with

poolVars == <<connections, sock, connected, idle, pc, call, ptr>>
vars     == <<limit, poolVars>>

Methods == {"Connect", "Disconnect", "Send", "Receive", "Ping"}
NoCall  == [op |-> "none", peer |-> None]
Calls   == [op : Methods, peer : Peers] \cup {NoCall}

Working == {"lock", "write", "read"}

TypeOK ==
  /\ limit \in Limits
  /\ connections \in [Peers -> Conns \cup {None}]
  /\ sock \in [Conns -> {"unused", "open", "closed"}]
  /\ connected \in [Conns -> BOOLEAN]
  /\ idle \in [Conns -> BOOLEAN]
  /\ pc \in [Callers -> {"idle", "enter", "dial"} \cup Working]
  /\ call \in [Callers -> Calls]
  /\ ptr \in [Callers -> Conns \cup {None}]
  /\ \A g \in Callers : (pc[g] \in Working) = (ptr[g] \in Conns)
  /\ \A g \in Callers : (pc[g] = "idle") = (call[g] = NoCall)

Init ==
  /\ limit \in Limits
  /\ connections = [p \in Peers |-> None]
  /\ sock = [c \in Conns |-> "unused"]
  /\ connected = [c \in Conns |-> FALSE]
  /\ idle = [c \in Conns |-> FALSE]
  /\ pc = [g \in Callers |-> "idle"]
  /\ call = [g \in Callers |-> NoCall]
  /\ ptr = [g \in Callers |-> None]

-----------------------------------------------------------------------------
Entries == {p \in Peers : connections[p] # None}

\* Mutant: Connect dials without holding the pool's mutex.
AlwaysFree == TRUE

\* p.mutex: only a dial keeps it longer than one step.
PoolFree == \A g \in Callers : pc[g] # "dial"

\* conn.mutex
ConnFree(c) == \A g \in Callers : ~(ptr[g] = c /\ pc[g] \in {"write", "read"})

Goto(g, label) == pc' = [pc EXCEPT ![g] = label]

Return(g) ==
  /\ Goto(g, "idle")
  /\ call' = [call EXCEPT ![g] = NoCall]
  /\ ptr' = [ptr EXCEPT ![g] = None]

Begin(g) ==
  /\ pc[g] = "idle"
  /\ \E op \in Methods, p \in Peers :
       call' = [call EXCEPT ![g] = [op |-> op, peer |-> p]]
  /\ Goto(g, "enter")
  /\ UNCHANGED <<connections, sock, connected, idle, ptr>>

\* The pool's mutex is taken for method op.
Enters(g, ops) == pc[g] = "enter" /\ call[g].op \in ops /\ PoolFree

-----------------------------------------------------------------------------
\* Mutant: the entry of the map is not looked at, only the limit.
ReusableNever(p) == FALSE

Reusable(p) == connections[p] # None /\ connected[connections[p]]

\* Mutant: the limit is exceeded by one.
FullLate == Cardinality(Entries) > limit

Full == Cardinality(Entries) >= limit

\* An active connection is returned, a full pool refuses, even when the entry
\* is there and would be replaced.
ConnectReturns(g) ==
  /\ Enters(g, {"Connect"})
  /\ Reusable(call[g].peer) \/ Full
  /\ Return(g)
  /\ UNCHANGED <<connections, sock, connected, idle>>

ConnectDials(g) ==
  /\ Enters(g, {"Connect"})
  /\ ~Reusable(call[g].peer)
  /\ ~Full
  /\ Goto(g, "dial")
  /\ UNCHANGED <<connections, sock, connected, idle, call, ptr>>

\* The entry that was there, if any, is overwritten, its socket not closed.
DialSucceeds(g) ==
  /\ pc[g] = "dial"
  /\ \E c \in Conns :
       /\ sock[c] = "unused"
       /\ sock' = [sock EXCEPT ![c] = "open"]
       /\ connected' = [connected EXCEPT ![c] = TRUE]
       /\ connections' = [connections EXCEPT ![call[g].peer] = c]
  /\ Return(g)
  /\ UNCHANGED idle

\* Refused, or config.Timeout has passed.
DialFails(g) ==
  /\ pc[g] = "dial"
  /\ Return(g)
  /\ UNCHANGED <<connections, sock, connected, idle>>

CloseSockets(cs) == sock' = [c \in Conns |-> IF c \in cs THEN "closed" ELSE sock[c]]
MarkDead(cs) == connected' = [c \in Conns |-> connected[c] /\ c \notin cs]

\* Mutant: the connections are closed and stay in the map.
KeepEntries(ps) == UNCHANGED connections

RemoveEntries(ps) ==
  connections' = [p \in Peers |-> IF p \in ps THEN None ELSE connections[p]]

\* With no entry for the peer an error is returned and nothing changes.
Disconnect(g) ==
  /\ Enters(g, {"Disconnect"})
  /\ LET gone == {connections[call[g].peer]} \ {None} IN
       /\ CloseSockets(gone)
       /\ MarkDead(gone)
  /\ RemoveEntries({call[g].peer})
  /\ Return(g)
  /\ UNCHANGED idle

-----------------------------------------------------------------------------
\* Mutant: Send, Receive and Ping do not check that there is a connection.
GetConnectionUnchecked(g) ==
  /\ Goto(g, "lock")
  /\ ptr' = [ptr EXCEPT ![g] = connections[call[g].peer]]
  /\ call' = call

\* p.mutex is given back as soon as the pointer is read.
GetConnection(g) ==
  LET c == connections[call[g].peer] IN
    IF c = None
      THEN Return(g)
      ELSE /\ Goto(g, "lock")
           /\ ptr' = [ptr EXCEPT ![g] = c]
           /\ call' = call

Lookup(g) ==
  /\ Enters(g, {"Send", "Receive", "Ping"})
  /\ GetConnection(g)
  /\ UNCHANGED <<connections, sock, connected, idle>>

\* conn.mutex is taken.  Setting a deadline fails on a closed socket, and then
\* IsConnected is left as it is.
Lock(g) ==
  /\ pc[g] = "lock"
  /\ ConnFree(ptr[g])
  /\ IF connected[ptr[g]] /\ sock[ptr[g]] = "open"
       THEN /\ Goto(g, IF call[g].op = "Receive" THEN "read" ELSE "write")
            /\ UNCHANGED <<call, ptr>>
       ELSE Return(g)
  /\ UNCHANGED <<connections, sock, connected, idle>>

\* LastSeen is now.
Seen(c) == idle' = [idle EXCEPT ![c] = FALSE]

WriteSucceeds(g) ==
  /\ pc[g] = "write"
  /\ sock[ptr[g]] = "open"
  /\ IF call[g].op = "Send"
       THEN Seen(ptr[g]) /\ Return(g)
       ELSE Goto(g, "read") /\ UNCHANGED <<idle, call, ptr>>
  /\ UNCHANGED <<connections, sock, connected>>

ReadSucceeds(g) ==
  /\ pc[g] = "read"
  /\ sock[ptr[g]] = "open"
  /\ Seen(ptr[g])
  /\ Return(g)
  /\ UNCHANGED <<connections, sock, connected>>

\* Mutant: what fails is the peer's connection of now.
FailedCurrent(g) ==
  MarkDead({connections[call[g].peer]})

Failed(g) ==
  MarkDead({ptr[g]})

\* The peer has gone, the socket has been closed by another goroutine, or
\* config.Timeout has passed.
WriteFails(g) ==
  /\ pc[g] = "write"
  /\ Failed(g)
  /\ Return(g)
  /\ UNCHANGED <<connections, sock, idle>>

\* Mutant: no deadline is set before a read.
ReadFailsClosed(g) ==
  /\ pc[g] = "read"
  /\ sock[ptr[g]] = "closed"
  /\ Failed(g)
  /\ Return(g)
  /\ UNCHANGED <<connections, sock, idle>>

\* As a write; but Ping, when the socket has been closed since its write, may
\* fail to set the deadline and leave IsConnected as it is.
ReadFails(g) ==
  /\ pc[g] = "read"
  /\ \/ Failed(g)
     \/ call[g].op = "Ping" /\ sock[ptr[g]] = "closed" /\ connected' = connected
  /\ Return(g)
  /\ UNCHANGED <<connections, sock, idle>>

-----------------------------------------------------------------------------
Age(c) ==
  /\ sock[c] = "open" /\ ~idle[c]
  /\ idle' = [idle EXCEPT ![c] = TRUE]
  /\ UNCHANGED <<connections, sock, connected, pc, call, ptr>>

\* IsConnected is left as it is.
Cleanup ==
  /\ PoolFree
  /\ LET toRemove == {p \in Entries : idle[connections[p]]} IN
       /\ toRemove # {}
       /\ CloseSockets({connections[p] : p \in toRemove})
       /\ RemoveEntries(toRemove)
  /\ UNCHANGED <<connected, idle, pc, call, ptr>>

Close ==
  /\ PoolFree
  /\ Entries # {}
  /\ LET all == {connections[p] : p \in Entries} IN
       CloseSockets(all) /\ MarkDead(all)
  /\ RemoveEntries(Peers)
  /\ UNCHANGED <<idle, pc, call, ptr>>

Enter(g) == ConnectReturns(g) \/ ConnectDials(g) \/ Disconnect(g) \/ Lookup(g)
InOut(g) == WriteSucceeds(g) \/ WriteFails(g) \/ ReadSucceeds(g) \/ ReadFails(g)
Caller(g) ==
  Begin(g) \/ Enter(g) \/ DialSucceeds(g) \/ DialFails(g) \/ Lock(g) \/ InOut(g)

Next ==
  /\ \/ \E g \in Callers : Caller(g)
     \/ \E c \in Conns : Age(c)
     \/ Cleanup
     \/ Close
  /\ UNCHANGED limit

Spec == Init /\ [][Next]_vars

\* A goroutine that waits for a mutex gets it in the end (sync.Mutex hands it
\* over after a millisecond), and an operation with a deadline ends.
Fairness ==
  \A g \in Callers :
    /\ SF_poolVars(Enter(g))
    /\ SF_poolVars(Lock(g))
    /\ WF_poolVars(DialFails(g))
    /\ WF_poolVars(WriteFails(g))
    /\ WF_poolVars(ReadFails(g))

FairSpec == Spec /\ Fairness

-----------------------------------------------------------------------------
(* The pool never holds more than MaxConnections connections: the limit is *)
(* checked before the dial and the entry is made after it                  *)
(* (connection.go:66, 84).                                                 *)
PoolBound == Cardinality(Entries) <= limit

(* A connection that the pool hands out as active has a socket that the    *)
(* pool has not closed, whatever callers were doing with it when it was    *)
(* disconnected, cleaned up or closed.                                     *)
ConnectedIsOpen ==
  \A p \in Entries : connected[connections[p]] => sock[connections[p]] = "open"

(* An open connection that has not failed is the entry of a peer, and of   *)
(* one only: no live connection is replaced and left behind.  (One that    *)
(* has failed may be: Connect overwrites it and does not close it.)        *)
LiveIsTracked ==
  \A c \in Conns :
    connected[c] /\ sock[c] = "open" =>
      \E p \in Peers : \A q \in Peers : (connections[q] = c) = (q = p)

(* A connection is given up only when it has been closed or when a read or *)
(* write of its own has failed: a late failure of a goroutine that still   *)
(* works with the connection a peer had before does not take down the      *)
(* peer's new one.                                                         *)
DeadForCause ==
  [][\A c \in Conns :
       connected[c] /\ ~connected'[c] =>
         \/ sock'[c] = "closed"
         \/ \E g \in Callers : pc[g] \in {"write", "read"} /\ ptr[g] = c]_vars

Live == {c \in Conns : connected[c] /\ sock[c] = "open"}
Used == {c \in Conns : sock[c] # "unused"}
Table == INSTANCE ConnectionTable WITH
  Links <- Conns, table <- connections, live <- Live, used <- Used

(* The pool implements ConnectionTable: whatever its callers do at once,   *)
(* the map changes as if each of them had it for itself, a live connection *)
(* is never replaced, and one that is closed leaves the map with it.       *)
PoolIsTable == Table!Spec

(* Every call returns, although Connect keeps the pool's mutex while it    *)
(* dials and Receive keeps the connection's while it waits for data.       *)
CallsReturn == \A g \in Callers : pc[g] # "idle" ~> pc[g] = "idle"
=============================================================================
