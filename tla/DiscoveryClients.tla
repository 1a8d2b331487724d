-------------------------- MODULE DiscoveryClients --------------------------
(***************************************************************************)
(* The discovery server and what its clients make of what it sends them:   *)
(* the handlers of peer_list, peer_joined and peer_left in                 *)
(* internal/discovery/client.go.  A connection delivers in order, so a     *)
(* message is handled in the step that writes it; what is lost with a      *)
(* connection is lost.  view[c] is the online part of the client's map     *)
(* c.peers, for as long as connection c is up.                             *)
(***************************************************************************)
EXTENDS DiscoveryServer

VARIABLE view   \* the registrations that each client takes to be online

clientVars == <<vars, view>>

ClientsTypeOK == TypeOK /\ view \in [Conns -> SUBSET (Ids \X Conns)]

Without(known, id) == {r \in known : r[1] # id}

\* The map becomes the list.  An empty list travels as null, which the
\* handler rejects: the old map stays.
handlePeerList(known, regs) == IF regs = {} THEN known ELSE regs

\* Mutant: the map is made anew for the peer that joined.
handlePeerJoinedAlone(known, reg) == {reg}

handlePeerJoined(known, reg) == Without(known, reg[1]) \cup {reg}

\* The entry is marked offline.
handlePeerLeft(known, id) == Without(known, id)

Deliver(c, known) ==
  view' = IF sock[c] = "open" THEN [view EXCEPT ![c] = known] ELSE view

\* Bound: a client whose connection goes away does not return, so what it
\* still has in its map is forgotten.
Disconnected == view' = [c \in Conns |-> IF sock'[c] = "open" THEN view[c] ELSE {}]

ListReceived(c) ==
  /\ WritePeerList(c)
  /\ Deliver(c, handlePeerList(view[c], list[c]))

NewsReceived(g, id) ==
  /\ BroadcastWrite(g, id)
  /\ IF id \in online
     THEN Deliver(owner[id],
                  IF g \in Conns
                  THEN handlePeerJoined(view[owner[id]], <<subject[g], g>>)
                  ELSE handlePeerLeft(view[owner[id]], g[1]))
     ELSE view' = view

ClientsInit == Init /\ view = [c \in Conns |-> {}]
ClientsNext ==
  \/ Silent /\ Disconnected
  \/ \E c \in Conns : ListReceived(c)
  \/ \E g \in Broadcasters, id \in Ids : NewsReceived(g, id)
ClientsSpec == ClientsInit /\ [][ClientsNext]_clientVars

-----------------------------------------------------------------------------
\* A peer whose connection is up and who has been sent its list.
Served(id) ==
  /\ id \in online
  /\ sock[owner[id]] = "open"
  /\ pc[owner[id]] \notin {"list", "reply"}

\* Another connection of the peer has been opened, as when it reconnects
\* (client.go:245): news of that connection may be on their way, or have come.
Returned(id) ==
  \E r \in MayRegister : r[1] = id /\ r[2] # owner[id] /\ sock[r[2]] # "idle"

Knows(id, other) == <<other, owner[other]>> \in view[owner[id]]

(* Whatever order peers register in, and whatever registrations,           *)
(* heartbeats, cleanups and departures fall between the steps of           *)
(* handleRegister, of two peers that have their lists one knows the other: *)
(* each inserts itself before it takes its list, so the later snapshot has *)
(* both, and no news that comes after it takes a live peer away.  Others   *)
(* may come and go on any connection; a peer that has itself come back may *)
(* be taken out of the maps by the late news of its departure.             *)
OneKnowsTheOther ==
  \A a, b \in Ids :
    Served(a) /\ Served(b) /\ ~Returned(a) /\ ~Returned(b) => Knows(a, b) \/ Knows(b, a)

\* Nothing is on its way that could still reach a client.
Quiet ==
  /\ \A c \in Conns : pc[c] \notin {"joined", "bcast"}
  /\ \A d \in Leavers : pc[d] = "idle"

(* sendPeerList "sends the current peer list" (server.go:308): a client    *)
(* that has its list, and has been sent all the news since, knows everyone *)
(* who is registered.                                                      *)
NobodyForgotten ==
  Quiet => \A a, b \in Ids : Served(a) /\ Served(b) => Knows(a, b)
=============================================================================
