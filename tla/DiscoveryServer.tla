-------------------------- MODULE DiscoveryServer --------------------------
(***************************************************************************)
(* The discovery server of PeerMesh (internal/discovery/server.go): one    *)
(* handleConnection goroutine per websocket, one short-lived goroutine per *)
(* departure (go s.broadcastPeerLeft), the heartbeat loop and the cleanup  *)
(* loop, all sharing the registry s.peers under the RWMutex s.mutex.       *)
(*                                                                         *)
(* A critical section that performs no I/O is one action, together with    *)
(* the receipt of the message that leads to it.  The two loops that write  *)
(* to sockets while they hold the read lock (broadcastMessage and          *)
(* sendHeartbeats) take one action per write, and everything that needs    *)
(* the write lock waits for them.  s.peers is kept by column: owner[id] is *)
(* the connection of the entry (NoConn: no entry), online is IsOnline and  *)
(* age is the number of clock ticks since LastSeen.  A registration is a   *)
(* pair <<id, c>>: the entry that connection c has inserted for id.        *)
(***************************************************************************)
EXTENDS Naturals

CONSTANTS
  Conns,        \* the accepted websockets, each used once (*websocket.Conn)
  Ids,          \* the peer IDs that can be registered
  EmptyId,      \* the ID "", which removePeer takes for "nothing found"
  MayRegister,  \* the registrations <<id, c>> that c's client may ask for
  Heart,        \* the heartbeatLoop goroutine
  NoConn,
  NoId,
  MayStall,     \* the connections whose client stops reading for a while
  Timeout       \* the two minutes of cleanupDeadPeers, in clock ticks

ASSUME ServerAssumption ==
  /\ MayRegister \subseteq Ids \X Conns
  /\ Conns \cap (Ids \X Conns) = {}
  /\ Heart \notin Conns \cup (Ids \X Conns)
  /\ MayStall \subseteq Conns
  /\ NoConn \notin Conns
  /\ NoId \notin Ids
  /\ Timeout \in Nat

VARIABLES
  phase,    \* the process: created, running, inside Stop, or crashed
  sock,     \* the connection: not dialled, open, broken by the remote, closed
  stall,    \* the time in which its client does not read: before, during, after
  buffered, \* the connections that are gone and still hold a message to read
  owner,    \* s.peers[id].Conn
  online,   \* the IDs with s.peers[id].IsOnline
  age,      \* the time since s.peers[id].LastSeen
  pc,       \* where each goroutine is
  subject,  \* the ID a handler is registering
  list,     \* the registrations in the snapshot that sendPeerList took
  todo      \* the entries a write loop has still to visit

registry == <<owner, online, age>>
network  == <<sock, stall, buffered>>
locals   == <<subject, list>>
vars     == <<phase, network, registry, pc, locals, todo>>

(* The goroutine that announces the departure of a registration is named   *)
(* by it.  Bound: one announcement in flight per registration.             *)
Leavers      == MayRegister
Broadcasters == Conns \cup Leavers
Routines     == Broadcasters \cup {Heart}

Looping == {"bcast", "beat"}
Labels  == Looping \cup
           {"idle", "read", "list", "reply", "joined", "left", "answer",
            "quit", "done"}

TypeOK ==
  /\ phase \in {"new", "running", "stopping", "crashed"}
  /\ sock \in [Conns -> {"idle", "open", "broken", "closed"}]
  /\ stall \in [Conns -> {"before", "during", "after"}]
  /\ buffered \in SUBSET Conns
  /\ owner \in [Ids -> Conns \cup {NoConn}]
  /\ online \in SUBSET Ids
  /\ age \in [Ids -> 0..(Timeout + 1)]
  /\ pc \in [Routines -> Labels]
  /\ subject \in [Conns -> Ids \cup {NoId}]
  /\ list \in [Conns -> SUBSET (Ids \X Conns)]
  /\ todo \in [Routines -> SUBSET Ids]

-----------------------------------------------------------------------------
(* The registry, the lock, the sockets and the goroutines. *)

Registered == {id \in Ids : owner[id] # NoConn}
Owned(c)   == {id \in Ids : owner[id] = c}

\* What GetPeers, and sendPeerList, collect: the entries that are online.
GetPeers == {<<id, owner[id]>> : id \in online}

\* s.mutex: a write loop holds it for reading, Stop for writing.
Readers  == {g \in Routines : pc[g] \in Looping}
MayRLock == phase = "running"
\* Mutant: the write lock does not wait for readers.
MayLockAlways == phase = "running"
MayLock == phase = "running" /\ Readers = {}

Gone(c) == sock[c] \in {"broken", "closed"}

\* WriteMessage has no deadline: it waits for a client that does not read.
\* On a connection the remote has dropped it may fail or lose the message.
WriteOK(c)    == sock[c] = "broken" \/ (sock[c] = "open" /\ stall[c] # "during")
WriteFails(c) == Gone(c)

Up == phase \in {"running", "stopping"}
At(g, label)   == Up /\ pc[g] = label
Goto(g, label) == pc' = [pc EXCEPT ![g] = label]

\* The select on s.stopChan at the head of the loop of handleConnection.
LoopTop == IF phase = "running" THEN "read" ELSE "quit"

Close(C) ==
  /\ sock' = [c \in Conns |-> IF c \in C THEN "closed" ELSE sock[c]]
  /\ stall' = [c \in Conns |-> IF c \in C THEN "after" ELSE stall[c]]

\* ReadMessage on a connection that is gone yields what had been buffered
\* (bound: one message), then an error.
Reads(c) ==
  /\ At(c, "read")
  /\ sock[c] = "open" \/ c \in buffered
  /\ buffered' = buffered \ {c}
  /\ UNCHANGED <<sock, stall>>
ReadFails(c) == At(c, "read") /\ Gone(c) /\ c \notin buffered

\* delete(s.peers, id) and go s.broadcastPeerLeft(id) for each id in gone.
Leaving(gone) == {<<id, owner[id]>> : id \in gone}
CanAnnounce(gone) == \A d \in Leaving(gone) : d \in Leavers /\ pc[d] = "idle"

\* Mutant: an entry leaves the map and stays listed.
DeleteButListed(gone) ==
  /\ owner' = [id \in Ids |-> IF id \in gone THEN NoConn ELSE owner[id]]
  /\ online' = online
  /\ age' = [id \in Ids |-> IF id \in gone THEN 0 ELSE age[id]]

Delete(gone) ==
  /\ owner' = [id \in Ids |-> IF id \in gone THEN NoConn ELSE owner[id]]
  /\ online' = online \ gone
  /\ age' = [id \in Ids |-> IF id \in gone THEN 0 ELSE age[id]]

-----------------------------------------------------------------------------
Init ==
  /\ phase = "new"
  /\ sock = [c \in Conns |-> "idle"]
  /\ stall = [c \in Conns |-> IF c \in MayStall THEN "before" ELSE "after"]
  /\ buffered = {}
  /\ owner = [id \in Ids |-> NoConn]
  /\ online = {}
  /\ age = [id \in Ids |-> 0]
  /\ pc = [g \in Routines |-> "idle"]
  /\ subject = [c \in Conns |-> NoId]
  /\ list = [c \in Conns |-> {}]
  /\ todo = [g \in Routines |-> {}]

Start ==
  /\ phase = "new"
  /\ phase' = "running"
  /\ UNCHANGED <<network, registry, pc, locals, todo>>

(* Stop takes the lock, clears isRunning, closes stopChan and locks again. *)
(* sync.RWMutex is not reentrant: the second Lock waits for the first, so  *)
(* Stop has no further step, closes no connection and empties no registry. *)
Stop ==
  /\ MayLock
  /\ phase' = "stopping"
  /\ UNCHANGED <<network, registry, pc, locals, todo>>

\* handleWebSocket: the HTTP server goes on accepting after Stop.
Accept(c) ==
  /\ Up
  /\ sock[c] = "idle"
  /\ sock' = [sock EXCEPT ![c] = "open"]
  /\ Goto(c, LoopTop)
  /\ UNCHANGED <<phase, stall, buffered, registry, locals, todo>>

-----------------------------------------------------------------------------
(* handleRegister: insert, send the list, tell the others. *)

\* Mutant: a second registration of an ID reuses the entry and its IsOnline.
HandleRegisterReuse(c, id) ==
  /\ Reads(c)
  /\ <<id, c>> \in MayRegister
  /\ MayLock
  /\ owner' = [owner EXCEPT ![id] = c]
  /\ online' = IF id \in Registered THEN online ELSE online \cup {id}
  /\ age' = [age EXCEPT ![id] = 0]
  /\ subject' = [subject EXCEPT ![c] = id]
  /\ Goto(c, "list")
  /\ UNCHANGED <<phase, list, todo>>

\* An entry of the same ID is overwritten; its connection is not told.
\* (LastSeen is read before the lock is asked for: the wait for it is the time
\* that Tick lets pass after the step.)
HandleRegister(c, id) ==
  /\ Reads(c)
  /\ <<id, c>> \in MayRegister
  /\ MayLock
  /\ owner' = [owner EXCEPT ![id] = c]
  /\ online' = online \cup {id}
  /\ age' = [age EXCEPT ![id] = 0]
  /\ subject' = [subject EXCEPT ![c] = id]
  /\ Goto(c, "list")
  /\ UNCHANGED <<phase, list, todo>>

SendPeerList(c) ==
  /\ At(c, "list")
  /\ MayRLock
  /\ list' = [list EXCEPT ![c] = GetPeers]
  /\ Goto(c, "reply")
  /\ UNCHANGED <<phase, network, registry, subject, todo>>

\* Mutant: a list that cannot be written is tried again.
WritePeerListOrRetry(c) ==
  /\ At(c, "reply")
  /\ WriteOK(c)
  /\ sock[c] = "open"
  /\ Goto(c, "joined")
  /\ list' = [list EXCEPT ![c] = {}]
  /\ UNCHANGED <<phase, network, registry, subject, todo>>

\* The list is written after the lock is released.  A failed write ends the
\* handler: the new peer is registered and nobody is told of it.
WritePeerList(c) ==
  /\ At(c, "reply")
  /\ \/ WriteOK(c) /\ Goto(c, "joined") /\ subject' = subject
     \/ WriteFails(c) /\ Goto(c, LoopTop) /\ subject' = [subject EXCEPT ![c] = NoId]
  /\ list' = [list EXCEPT ![c] = {}]
  /\ UNCHANGED <<phase, network, registry, todo>>

-----------------------------------------------------------------------------
(* broadcastMessage, for peer_joined (a handler) and peer_left (a leaver). *)

\* What the last write, and the RUnlock that follows it, leave of goroutine g.
Finish(g) ==
  /\ Goto(g, IF g \in Conns THEN LoopTop ELSE "idle")
  /\ subject' = [c \in Conns |-> IF c = g THEN NoId ELSE subject[c]]

BroadcastStart(g) ==
  /\ At(g, IF g \in Conns THEN "joined" ELSE "left")
  /\ MayRLock
  /\ todo' = [todo EXCEPT ![g] = Registered]
  /\ IF Registered = {} THEN Finish(g) ELSE Goto(g, "bcast") /\ subject' = subject
  /\ UNCHANGED <<phase, network, registry, list>>

\* Mutant: a failed write ends the loop without releasing the lock.
BroadcastWriteOrHang(g, id) ==
  /\ At(g, "bcast")
  /\ id \in todo[g]
  /\ todo' = [todo EXCEPT ![g] = @ \ {id}]
  /\ id \in online => sock[owner[id]] = "open" /\ WriteOK(owner[id])
  /\ IF todo[g] = {id} THEN Finish(g) ELSE UNCHANGED <<pc, subject>>
  /\ UNCHANGED <<phase, network, registry, list>>

\* A failed write is logged and the loop goes on.
BroadcastWrite(g, id) ==
  /\ At(g, "bcast")
  /\ id \in todo[g]
  /\ todo' = [todo EXCEPT ![g] = @ \ {id}]
  /\ id \in online => WriteOK(owner[id]) \/ WriteFails(owner[id])
  /\ IF todo[g] = {id} THEN Finish(g) ELSE UNCHANGED <<pc, subject>>
  /\ UNCHANGED <<phase, network, registry, list>>

-----------------------------------------------------------------------------
(* handlePing, handlePong and updatePeerLastSeen, which refreshes the first *)
(* entry of the connection that the map iteration yields.                   *)

UpdatePeerLastSeen(c) ==
  \/ Owned(c) = {} /\ age' = age
  \/ \E id \in Owned(c) : age' = [age EXCEPT ![id] = 0]

HandlePing(c) ==
  /\ Reads(c)
  /\ MayLock
  /\ UpdatePeerLastSeen(c)
  /\ Goto(c, "answer")
  /\ UNCHANGED <<phase, owner, online, locals, todo>>

AnswerPing(c) ==
  /\ At(c, "answer")
  /\ WriteOK(c) \/ WriteFails(c)
  /\ Goto(c, LoopTop)
  /\ UNCHANGED <<phase, network, registry, locals, todo>>

\* The lock is to be had only while running: the handler is back at ReadMessage.
HandlePong(c) ==
  /\ Reads(c)
  /\ MayLock
  /\ UpdatePeerLastSeen(c)
  /\ UNCHANGED <<phase, owner, online, pc, locals, todo>>

-----------------------------------------------------------------------------
(* The end of a connection. *)

\* Mutant: the handler of a failed connection returns without removePeer.
RemovePeerForgotten(c) ==
  /\ ReadFails(c)
  /\ Close({c})
  /\ Goto(c, "done")
  /\ UNCHANGED <<phase, buffered, registry, locals, todo>>

\* Mutant: the entry is looked up by the ID that the connection registered.
RemovePeerById(c) ==
  /\ ReadFails(c)
  /\ MayLock
  /\ \E id \in {i \in Registered : <<i, c>> \in MayRegister} :
       /\ CanAnnounce({id})
       /\ Delete({id})
       /\ pc' = [g \in Routines |->
                   IF g \in Leaving({id}) THEN "left"
                   ELSE IF g = c THEN "done" ELSE pc[g]]
  /\ Close({c})
  /\ UNCHANGED <<phase, buffered, locals, todo>>

\* ReadMessage fails: removePeer deletes the first entry of the connection
\* that the iteration yields, unless its ID is empty, and the handler closes
\* the connection.
RemovePeer(c) ==
  /\ ReadFails(c)
  /\ MayLock
  /\ \E gone \in IF Owned(c) = {} THEN {{}} ELSE {{id} : id \in Owned(c)} :
       LET left == gone \ {EmptyId} IN
       /\ CanAnnounce(left)
       /\ Delete(left)
       /\ pc' = [g \in Routines |->
                   IF g \in Leaving(left) THEN "left"
                   ELSE IF g = c THEN "done" ELSE pc[g]]
  /\ Close({c})
  /\ UNCHANGED <<phase, buffered, locals, todo>>

\* The head of the loop finds stopChan closed: the connection is closed, and
\* its entries are left alone.
Quit(c) ==
  /\ At(c, "quit")
  /\ Close({c})
  /\ buffered' = buffered \ {c}
  /\ Goto(c, "done")
  /\ UNCHANGED <<phase, registry, locals, todo>>

\* A handler that Stop found reading comes to the head of the loop when a
\* message arrives that it can make nothing of.
ReadLast(c) ==
  /\ phase = "stopping"
  /\ Reads(c)
  /\ Goto(c, "quit")
  /\ UNCHANGED <<phase, registry, locals, todo>>

-----------------------------------------------------------------------------
(* The background loops. *)

HeartbeatStart ==
  /\ At(Heart, "idle")
  /\ MayRLock
  /\ Registered # {}
  /\ todo' = [todo EXCEPT ![Heart] = Registered]
  /\ Goto(Heart, "beat")
  /\ UNCHANGED <<phase, network, registry, locals>>

\* Mutant: IsOnline is cleared without a look at the error.
HeartbeatWriteBlind(id) ==
  /\ At(Heart, "beat")
  /\ id \in todo[Heart]
  /\ todo' = [todo EXCEPT ![Heart] = @ \ {id}]
  /\ id \in online => WriteOK(owner[id]) \/ WriteFails(owner[id])
  /\ online' = online \ {id}
  /\ IF todo[Heart] = {id} THEN Goto(Heart, "idle") ELSE pc' = pc
  /\ UNCHANGED <<phase, network, owner, age, locals>>

\* A write that fails clears IsOnline, under the read lock.
HeartbeatWrite(id) ==
  /\ At(Heart, "beat")
  /\ id \in todo[Heart]
  /\ todo' = [todo EXCEPT ![Heart] = @ \ {id}]
  /\ \/ (id \in online => WriteOK(owner[id])) /\ online' = online
     \/ id \in online /\ WriteFails(owner[id]) /\ online' = online \ {id}
  /\ IF todo[Heart] = {id} THEN Goto(Heart, "idle") ELSE pc' = pc
  /\ UNCHANGED <<phase, network, owner, age, locals>>

\* Mutant: only entries that are online are looked at.
DeadPeersOnline == {id \in online : age[id] > Timeout}

\* Mutant: an entry is dead as soon as it is as old as the timeout.
DeadPeersEarly == {id \in Registered : age[id] >= Timeout}

DeadPeers == {id \in Registered : age[id] > Timeout}

CleanupDeadPeers ==
  /\ MayLock
  /\ DeadPeers # {}
  /\ CanAnnounce(DeadPeers)
  /\ LET dead == {owner[id] : id \in DeadPeers} IN
       /\ Close(dead)
       /\ \E B \in SUBSET {c \in dead : sock[c] = "open"} : buffered' = buffered \cup B
  /\ Delete(DeadPeers)
  /\ pc' = [g \in Routines |-> IF g \in Leaving(DeadPeers) THEN "left" ELSE pc[g]]
  /\ UNCHANGED <<phase, locals, todo>>

\* Bound: time is counted up to one tick past the timeout.
Older(n) == IF n > Timeout THEN n ELSE n + 1
Tick ==
  /\ Up
  /\ age' = [id \in Ids |-> IF id \in Registered THEN Older(age[id]) ELSE 0]
  /\ UNCHANGED <<phase, network, owner, online, pc, locals, todo>>

-----------------------------------------------------------------------------
(* The network, and the websocket library. *)

Break(c) ==
  /\ Up
  /\ sock[c] = "open"
  /\ sock' = [sock EXCEPT ![c] = "broken"]
  /\ stall' = [stall EXCEPT ![c] = "after"]
  /\ buffered' \in {buffered, buffered \cup {c}}
  /\ UNCHANGED <<phase, registry, pc, locals, todo>>

\* The buffers of the connection fill up.  Bound: at most once each.
Stall(c) ==
  /\ Up
  /\ sock[c] = "open" /\ stall[c] = "before"
  /\ stall' = [stall EXCEPT ![c] = "during"]
  /\ UNCHANGED <<phase, sock, buffered, registry, pc, locals, todo>>

Resume(c) ==
  /\ Up
  /\ stall[c] = "during"
  /\ stall' = [stall EXCEPT ![c] = "after"]
  /\ UNCHANGED <<phase, sock, buffered, registry, pc, locals, todo>>

(* gorilla/websocket allows one writer per connection: its check for two   *)
(* writers inside WriteMessage at once panics, no goroutine recovers, and  *)
(* the process ends with everything it kept in memory.                     *)
WritesTo(g) ==
  IF pc[g] \in {"reply", "answer"} THEN {g}
  ELSE IF pc[g] \in Looping THEN {owner[id] : id \in todo[g] \cap online}
  ELSE {}

ConcurrentWritePanic ==
  /\ Up
  /\ \E g, h \in Routines : g # h /\ WritesTo(g) \cap WritesTo(h) # {}
  /\ phase' = "crashed"
  /\ Close(Conns)
  /\ buffered' = {}
  /\ Delete(Ids)
  /\ pc' = [g \in Routines |-> "done"]
  /\ subject' = [c \in Conns |-> NoId]
  /\ list' = [c \in Conns |-> {}]
  /\ todo' = [g \in Routines |-> {}]

-----------------------------------------------------------------------------
\* What a goroutine does of its own accord, once it has work.
Broadcast(g) ==
  BroadcastStart(g) \/ (\E id \in Ids : BroadcastWrite(g, id))
Handler(c) ==
  SendPeerList(c) \/ WritePeerList(c) \/ Broadcast(c) \/ AnswerPing(c) \/ Quit(c)
Heartbeat ==
  HeartbeatStart \/ (\E id \in Ids : HeartbeatWrite(id))

\* What arrives on a connection.  Outside Stop, a message that is malformed
\* or of another type leaves the state as it was.
Receive(c) ==
  \/ \E id \in Ids : HandleRegister(c, id)
  \/ HandlePing(c) \/ HandlePong(c) \/ ReadLast(c)
Network(c) == Accept(c) \/ Break(c) \/ Stall(c) \/ Resume(c)

\* Every step but the writes of peer_list, peer_joined and peer_left.
Silent ==
  \/ Start \/ Stop \/ Tick \/ ConcurrentWritePanic
  \/ \E c \in Conns :
       \/ Network(c) \/ Receive(c) \/ SendPeerList(c)
       \/ AnswerPing(c) \/ RemovePeer(c) \/ Quit(c)
  \/ \E g \in Broadcasters : BroadcastStart(g)
  \/ Heartbeat \/ CleanupDeadPeers

Next ==
  \/ Silent
  \/ \E c \in Conns : WritePeerList(c)
  \/ \E g \in Broadcasters, id \in Ids : BroadcastWrite(g, id)

Spec == Init /\ [][Next]_vars

(* Go schedules every goroutine, the tickers fire, and a goroutine that    *)
(* waits for the write lock gets it: sync.RWMutex lets no later reader     *)
(* overtake a waiting writer, which is the strong fairness of the two      *)
(* actions that take it unasked.                                           *)
Scheduling ==
  /\ \A c \in Conns : WF_vars(Handler(c)) /\ SF_vars(RemovePeer(c))
  /\ \A d \in Leavers : WF_vars(Broadcast(d))
  /\ WF_vars(Heartbeat)
  /\ SF_vars(CleanupDeadPeers)
  /\ WF_vars(Tick)
\* No client stops reading for ever.
ClientsRead == \A c \in Conns : WF_vars(Resume(c))

FairSpec == Spec /\ Scheduling
ResponsiveSpec == FairSpec /\ ClientsRead

-----------------------------------------------------------------------------
(* Safety. *)

\* A client registers one ID only, and not the empty one (client.go does so).
OneIdPerConn ==
  \A r, q \in MayRegister : r[1] # EmptyId /\ (r[2] = q[2] => r = q)

(* While the server runs, every entry belongs to a connection whose        *)
(* handler is still there to remove it when the connection ends: whatever  *)
(* order registrations, re-registrations from another connection, cleanups *)
(* and disconnections come in, removePeer and cleanupDeadPeers leave none  *)
(* behind.  Holds of clients that register one ID per connection.          *)
NoOrphan ==
  phase = "running" => \A id \in Registered : pc[owner[id]] \notin {"idle", "done"}

(* sendHeartbeats hides a peer from the lists and broadcasts only once its *)
(* connection is gone: as nothing ever sets IsOnline again, a live client  *)
(* that was marked would be cut off from the network for good.             *)
OfflineMeansGone ==
  \A id \in Registered \ online : Gone(owner[id])

(* An entry disappears only because its own connection has ended or has    *)
(* been silent for longer than the timeout.  In particular, the end of a   *)
(* connection whose ID has been registered again from another connection   *)
(* does not remove the new entry.                                          *)
RemovedForCause ==
  [][phase' # "crashed" =>
       \A id \in Registered : owner'[id] = NoConn =>
          \/ Gone(owner[id]) /\ pc'[owner[id]] = "done"
          \/ age[id] > Timeout]_vars

-----------------------------------------------------------------------------
(* The abstract registry. *)

Unannounced == {d \in Leavers : pc[d] \in {"left", "bcast"}}
Ended       == phase \in {"stopping", "crashed"}

Registry == INSTANCE PeerRegistry WITH
  Departures <- Leavers, Walkers <- Routines,
  members <- owner, leaving <- Unannounced, toVisit <- todo, ended <- Ended

(* The server implements PeerRegistry: whatever its goroutines do, s.peers *)
(* changes as a whole and never while a broadcast or a heartbeat iterates  *)
(* over it, whoever is in it when an announcement begins is visited by it, *)
(* and each removal, for whatever reason, starts one announcement, which   *)
(* ends only when all have been visited.                                   *)
ServerIsRegistry == Registry!Spec

-----------------------------------------------------------------------------
(* Liveness. *)

(* A connection that has ended, however it ended, loses its entries, those *)
(* of a connection that had registered several IDs included: removePeer    *)
(* takes one of them, and the cleanup takes the others when they are old.  *)
DepartureNoticed ==
  \A c \in Conns :
    Gone(c) ~> (Owned(c) = {} \/ phase # "running")

(* A registration that is inserted is answered and announced, or its       *)
(* connection fails: the handler comes back to its loop, whatever          *)
(* broadcasts, heartbeats and stalled clients it meets.                    *)
RegistrationCompletes ==
  \A c \in Conns :
    pc[c] = "list" ~> (pc[c] \in {"read", "quit"} \/ phase # "running")

(* Every departure is announced: the goroutine that removePeer or the      *)
(* cleanup starts gets the lock and comes to the end of its loop.          *)
DepartureAnnounced ==
  \A d \in Leavers : pc[d] = "left" ~> (pc[d] = "idle" \/ phase # "running")

-----------------------------------------------------------------------------
(* What comments and tests of the repository say, and the code does not do. *)

(* cleanupDeadPeers "removes peers that haven't responded recently"        *)
(* (server.go:469): an entry that is too old is refreshed or removed.      *)
UnresponsiveReaped ==
  \A id \in Ids :
    (id \in DeadPeers) ~> (id \notin DeadPeers \/ phase # "running")

(* Stop returns, and the server is "not running after Stop()"              *)
(* (server_test.go:158-165).  The second Lock of Stop would need the lock  *)
(* that Stop itself holds.                                                 *)
StopHoldsLock == phase = "stopping"
StopDisconnect ==
  /\ phase = "stopping"
  /\ ~StopHoldsLock /\ Readers = {}
  /\ phase' = "stopped"
  /\ Close({owner[id] : id \in Registered})
  /\ Delete(Registered)
  /\ UNCHANGED <<buffered, pc, locals, todo>>
StopSpec ==
  /\ Init /\ [][Next \/ StopDisconnect]_vars
  /\ Scheduling /\ ClientsRead /\ WF_vars(StopDisconnect)
StopReturns == phase = "stopping" ~> phase = "stopped"
=============================================================================
