-------------------------- MODULE DiscoveryClient --------------------------
(***************************************************************************)
(* The discovery client of PeerMesh (internal/discovery/client.go): the    *)
(* goroutines that call Connect, Disconnect and SendMessage, and the       *)
(* handleMessages goroutine that every successful dial starts, around the  *)
(* client's mutex.  What the handlers do to the map of peers is in         *)
(* DiscoveryClients.                                                       *)
(*                                                                         *)
(* The mutex is not reentrant.  Its holder is a state of its own only in   *)
(* Connect, which keeps it while it dials and registers; every other       *)
(* critical section is one action that finds the mutex free, for reading   *)
(* or writing.                                                             *)
(***************************************************************************)
EXTENDS Naturals

CONSTANTS
  Callers,    \* the goroutines that use the client
  Conns,      \* the websockets that can be dialled, each once
  Reconnect,  \* c.reconnect
  MaxReads,   \* the failed reads after which the websocket library panics
  NoConn,     \* nil
  Nobody

\* What the theorems assume of the constants.
ClientAssumption ==
  /\ Callers \cap Conns = {}
  /\ Nobody \notin Callers \cup Conns
  /\ NoConn \notin Conns
  /\ Reconnect \in BOOLEAN
  /\ MaxReads \in Nat

VARIABLES
  holder,       \* who holds c.mutex from one step to the next
  isConnected,
  conn,         \* c.conn
  stopped,      \* c.stopChan is closed
  sock,         \* each websocket: not dialled, open, failed, closed
  reads,        \* the reads of each websocket since it failed
  pc,           \* where each goroutine is
  reading,      \* the websocket that each reader is reading
  registered,   \* the websockets on which a registration has been sent
  crashed       \* the process has panicked

client  == <<isConnected, conn, stopped>>
network == <<sock, reads, registered>>
vars    == <<holder, client, network, pc, reading, crashed>>

\* The reader of a websocket is named by it.
Goroutines == Callers \cup Conns

Labels ==
  {"idle", "dial", "regCheck", "regWrite", "regDone", "regFailed", "check", "write",
   "new", "loop", "read", "handle", "update", "retry", "sleep", "ended"}

TypeOK ==
  /\ holder \in Goroutines \cup {Nobody}
  /\ isConnected \in BOOLEAN
  /\ conn \in Conns \cup {NoConn}
  /\ stopped \in BOOLEAN
  /\ sock \in [Conns -> {"idle", "open", "failed", "closed"}]
  /\ reads \in [Conns -> Nat]
  /\ pc \in [Goroutines -> Labels]
  /\ reading \in [Conns -> Conns \cup {NoConn}]
  /\ registered \in SUBSET Conns
  /\ crashed \in BOOLEAN

Init ==
  /\ holder = Nobody
  /\ isConnected = FALSE
  /\ conn = NoConn
  /\ stopped = FALSE
  /\ sock = [c \in Conns |-> "idle"]
  /\ reads = [c \in Conns |-> 0]
  /\ pc = [g \in Goroutines |-> IF g \in Callers THEN "idle" ELSE "new"]
  /\ reading = [c \in Conns |-> NoConn]
  /\ registered = {}
  /\ crashed = FALSE

-----------------------------------------------------------------------------
Free == holder = Nobody
Goto(g, label) == pc' = [pc EXCEPT ![g] = label]
Panic == crashed' = TRUE /\ UNCHANGED <<holder, client, network, pc, reading>>

\* Where a goroutine goes on after SendMessage, and after Connect.
Home(g) == IF g \in Callers THEN "idle" ELSE "loop"
AfterConnect(g, ok) == IF g \in Callers \/ ok THEN Home(g) ELSE "retry"

CloseConn == sock' = [sock EXCEPT ![conn] = "closed"]

-----------------------------------------------------------------------------
(* Connect. *)

\* A caller's, or that of reconnectToServer after its five seconds.
Connect(g) ==
  /\ pc[g] = IF g \in Callers THEN "idle" ELSE "sleep"
  /\ Free
  /\ IF isConnected
       THEN Goto(g, AfterConnect(g, FALSE)) /\ UNCHANGED holder
       ELSE Goto(g, "dial") /\ holder' = g
  /\ UNCHANGED <<client, network, reading, crashed>>

DialFails(g) ==
  /\ pc[g] = "dial"
  /\ holder' = Nobody
  /\ Goto(g, AfterConnect(g, FALSE))
  /\ UNCHANGED <<client, network, reading, crashed>>

\* The reader starts, and with the mutex still held sendRegistration calls
\* SendMessage.
DialSucceeds(g, c) ==
  /\ pc[g] = "dial" /\ sock[c] = "idle"
  /\ sock' = [sock EXCEPT ![c] = "open"]
  /\ conn' = c /\ isConnected' = TRUE
  /\ pc' = [pc EXCEPT ![g] = "regCheck", ![c] = "loop"]
  /\ UNCHANGED <<holder, stopped, reads, registered, reading, crashed>>

RegistrationDone(g) ==
  /\ pc[g] = "regDone"
  /\ holder' = Nobody
  /\ Goto(g, AfterConnect(g, TRUE))
  /\ UNCHANGED <<client, network, reading, crashed>>

\* When the connection cannot be closed either, isConnected stays set.
RegistrationFailed(g) ==
  /\ pc[g] = "regFailed"
  /\ holder' = Nobody
  /\ CloseConn
  /\ isConnected' = (sock[conn] = "closed")
  /\ Goto(g, AfterConnect(g, FALSE))
  /\ UNCHANGED <<conn, stopped, reads, registered, reading, crashed>>

-----------------------------------------------------------------------------
(* Disconnect and SendMessage. *)

\* To close stopChan a second time panics.
Disconnect(g) ==
  /\ g \in Callers /\ pc[g] = "idle"
  /\ Free /\ isConnected
  /\ IF stopped
       THEN Panic
       ELSE /\ isConnected' = FALSE /\ stopped' = TRUE
            /\ conn' = NoConn
            /\ IF conn = NoConn THEN UNCHANGED sock ELSE CloseConn
            /\ UNCHANGED <<holder, reads, registered, pc, reading, crashed>>

SendMessage(g) ==
  /\ g \in Callers /\ pc[g] = "idle"
  /\ Goto(g, "check")
  /\ UNCHANGED <<holder, client, network, reading, crashed>>

\* IsConnected, for a message or for the registration.
CheckConnected(g) ==
  /\ Free
  /\ \/ pc[g] = "check" /\ Goto(g, IF isConnected THEN "write" ELSE Home(g))
     \/ pc[g] = "regCheck" /\ Goto(g, IF isConnected THEN "regWrite" ELSE "regFailed")
  /\ UNCHANGED <<holder, client, network, reading, crashed>>

\* The lock is taken anew: c.conn may have become nil since IsConnected.
WriteMessage(g) ==
  /\ pc[g] \in {"write", "regWrite"}
  /\ Free
  /\ IF conn = NoConn
       THEN Panic
       ELSE /\ IF pc[g] = "write" THEN Goto(g, Home(g)) /\ UNCHANGED registered
               ELSE IF sock[conn] = "open"
                      THEN Goto(g, "regDone") /\ registered' = registered \cup {conn}
                      ELSE Goto(g, "regFailed") /\ UNCHANGED registered
            /\ UNCHANGED <<holder, client, sock, reads, reading, crashed>>

-----------------------------------------------------------------------------
(* The reader of a websocket, handleMessages. *)

\* It reads c.conn as it is now, and does so without the mutex.
Loop(c) ==
  /\ pc[c] = "loop"
  /\ IF stopped
       THEN Goto(c, "ended") /\ UNCHANGED reading
       ELSE Goto(c, "read") /\ reading' = [reading EXCEPT ![c] = conn]
  /\ UNCHANGED <<holder, client, network, crashed>>

\* Text that is not JSON takes the reader back to its loop.
MessageArrives(c) ==
  /\ pc[c] = "read" /\ reading[c] # NoConn
  /\ sock[reading[c]] = "open"
  /\ \E label \in {"handle", "loop"} : Goto(c, label)
  /\ UNCHANGED <<holder, client, network, reading, crashed>>

ReadFails(c) ==
  /\ pc[c] = "read"
  /\ reading[c] # NoConn => sock[reading[c]] # "open"
  /\ IF reading[c] = NoConn \/ reads[reading[c]] >= MaxReads
       THEN Panic
       ELSE /\ reads' = [reads EXCEPT ![reading[c]] = @ + 1]
            /\ Goto(c, IF Reconnect THEN "retry" ELSE "loop")
            /\ UNCHANGED <<holder, client, sock, registered, reading, crashed>>

\* handleMessage: the handler is looked up.  A ping is answered, the other
\* messages update the map of peers, and some have no handler.
HandleMessage(c) ==
  /\ pc[c] = "handle" /\ Free
  /\ \E label \in {"check", "update", "loop"} : Goto(c, label)
  /\ UNCHANGED <<holder, client, network, reading, crashed>>

UpdatePeers(c) ==
  /\ pc[c] = "update" /\ Free
  /\ Goto(c, "loop")
  /\ UNCHANGED <<holder, client, network, reading, crashed>>

\* The head of the loop of reconnectToServer.
Retry(c) ==
  /\ pc[c] = "retry"
  /\ Goto(c, IF stopped THEN "loop" ELSE "sleep")
  /\ UNCHANGED <<holder, client, network, reading, crashed>>

Fails(c) ==
  /\ sock[c] = "open"
  /\ sock' = [sock EXCEPT ![c] = "failed"]
  /\ UNCHANGED <<holder, client, reads, registered, pc, reading, crashed>>

-----------------------------------------------------------------------------
\* What a goroutine goes on to do by itself.
Dialled(g) == \E c \in Conns : DialSucceeds(g, c)
Step(g) ==
  \/ DialFails(g) \/ Dialled(g) \/ RegistrationDone(g) \/ RegistrationFailed(g)
  \/ CheckConnected(g) \/ WriteMessage(g)
Reader(c) ==
  Loop(c) \/ ReadFails(c) \/ HandleMessage(c) \/ UpdatePeers(c) \/ Retry(c)

Next ==
  /\ ~crashed
  /\ \/ \E g \in Goroutines : Connect(g) \/ Step(g)
     \/ \E g \in Callers : Disconnect(g) \/ SendMessage(g)
     \/ \E c \in Conns : Reader(c) \/ MessageArrives(c) \/ Fails(c)

Spec == Init /\ [][Next]_vars

\* Goroutines run, a dial ends, and who waits for the mutex gets it when it is
\* free again and again.  Callers, messages and failures are not promised.
Fairness ==
  /\ \A g \in Goroutines : SF_vars(~crashed /\ Step(g))
  /\ \A c \in Conns : SF_vars(~crashed /\ (Reader(c) \/ Connect(c)))

FairSpec == Spec /\ Fairness

-----------------------------------------------------------------------------
(* "sendRegistration sends a registration message to the server"           *)
(* (client.go:232): a connection that has been dialled and does not fail   *)
(* is registered, or closed again.  Connect holds the mutex that           *)
(* SendMessage, called through sendRegistration, waits for.                *)
RegistrationSent ==
  \A c \in Conns :
    sock[c] = "open" ~> (c \in registered \/ sock[c] # "open" \/ crashed)
=============================================================================
