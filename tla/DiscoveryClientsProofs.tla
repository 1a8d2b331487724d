----------------------- MODULE DiscoveryClientsProofs -----------------------
(* Of two peers that have their lists, one knows the other, for any number *)
(* of peers and connections, as long as these two have not come back on    *)
(* another connection.                                                     *)
EXTENDS DiscoveryClients, DiscoveryServerProofs

-----------------------------------------------------------------------------
(* What the server keeps true, whatever the clients know.                  *)

\* From the insertion to the end of the broadcast a handler has its subject.
Serving            == {"list", "reply", "joined", "bcast"}
SubjectMayRegister ==
  \A c \in Conns : pc[c] \in Serving => <<subject[c], c>> \in MayRegister /\ sock[c] # "idle"

\* An entry's connection has been accepted, and what is buffered was sent on
\* a connection that has gone: a closed connection does not open again.
OwnerAccepted == \A id \in Registered : sock[owner[id]] # "idle"
BufferedGone  == \A c \in buffered : Gone(c)

\* Departures are announced of connections that have gone.
LeaversGone == \A d \in Leavers : pc[d] # "idle" => Gone(d[2])

ServeInv ==
  OfflineInv /\ OwnerMayRegister /\ SubjectMayRegister /\ OwnerAccepted /\ BufferedGone /\ LeaversGone

LEMMA ServeInit == Init => ServeInv
<1> SUFFICES ASSUME Init PROVE ServeInv
  OBVIOUS
<1>1. \A id \in Ids : owner[id] = NoConn
  BY DEF Init
<1>2. OfflineInv
  BY <1>1, TypeInit DEF OfflineInv, OfflineMeansGone, Registered
<1>3. \A g \in Routines : pc[g] = "idle"
  BY DEF Init
<1> QED
  BY <1>1, <1>2, <1>3
  DEF Init, ServeInv, OwnerMayRegister, SubjectMayRegister, OwnerAccepted, BufferedGone, LeaversGone,
      Registered, Routines, Broadcasters, Serving

LEMMA LoopTopServed == LoopTop \notin Serving
BY DEF LoopTop, Serving

\* Steps that register nobody.
LEMMA KeepsServeInv ==
  ASSUME ServeInv, OfflineInv',
         \A id \in Ids : owner'[id] \in {owner[id], NoConn},
         \A c \in Conns : sock'[c] = "idle" => sock[c] = "idle",
         \A c \in Conns : Gone(c) => Gone(c)',
         \A c \in buffered' : c \in buffered \/ Gone(c)',
         \A c \in Conns : pc'[c] \in Serving => pc[c] \in Serving /\ subject'[c] = subject[c],
         \A d \in Leavers : pc'[d] # "idle" => pc[d] # "idle" \/ Gone(d[2])'
  PROVE  ServeInv'
<1>1. \A id \in Registered' : id \in Registered /\ owner'[id] = owner[id] /\ owner[id] \in Conns
  BY DEF Registered, ServeInv, OfflineInv, TypeInv, TypeOK
<1>2. OwnerMayRegister' /\ OwnerAccepted'
  BY <1>1 DEF ServeInv, OwnerMayRegister, OwnerAccepted
<1>3. SubjectMayRegister'
  BY DEF ServeInv, SubjectMayRegister
<1>4. BufferedGone'
  BY DEF ServeInv, BufferedGone, OfflineInv, TypeInv, TypeOK
<1>5. LeaversGone'
  BY ServerAssumption DEF ServeInv, LeaversGone, Leavers
<1> QED
  BY <1>2, <1>3, <1>4, <1>5 DEF ServeInv

LEMMA ServeStep == ServeInv /\ [Next]_vars => ServeInv'
<1> SUFFICES ASSUME ServeInv, [Next]_vars PROVE ServeInv'
  OBVIOUS
<1>1. OfflineInv'
  BY OfflineStep DEF ServeInv
<1>2. TypeOK /\ pc \in [Routines -> Labels]
  BY DEF ServeInv, OfflineInv, TypeInv, TypeOK
<1> USE ServerAssumption
<1>3. Conns \subseteq Routines /\ Leavers \subseteq Routines /\ Conns \cap Leavers = {}
      /\ Heart \notin Conns \cup Leavers
  BY DEF Routines, Broadcasters, Leavers
<1>a. ASSUME owner' = owner, sock' = sock, buffered' \subseteq buffered,
             \A c \in Conns : pc'[c] \in Serving => pc[c] \in Serving /\ subject'[c] = subject[c],
             \A d \in Leavers : pc'[d] # "idle" => pc[d] # "idle"
      PROVE  ServeInv'
  BY <1>1, <1>a, KeepsServeInv DEF Gone
<1>b. ASSUME owner' = owner, sock' = sock, buffered' \subseteq buffered, pc' = pc, subject' = subject
      PROVE  ServeInv'
  BY <1>a, <1>b
<1>4. CASE UNCHANGED vars
  BY <1>b, <1>4 DEF vars, registry, network, locals
<1>5. CASE Next
  <2>1. ASSUME NEW c \in Conns, NEW id \in Ids, HandleRegister(c, id) PROVE ServeInv'
    <3>1. /\ sock' = sock /\ buffered' \subseteq buffered
          /\ <<id, c>> \in MayRegister
          /\ owner' = [owner EXCEPT ![id] = c]
          /\ subject' = [subject EXCEPT ![c] = id]
          /\ pc' = [pc EXCEPT ![c] = "list"]
          /\ sock[c] = "open" \/ c \in buffered
      BY <2>1 DEF HandleRegister, Reads, Goto
    <3>2. sock[c] # "idle"
      BY <3>1 DEF ServeInv, BufferedGone, Gone
    <3>3. OwnerMayRegister' /\ OwnerAccepted'
      BY <1>2, <3>1, <3>2 DEF ServeInv, OwnerMayRegister, OwnerAccepted, Registered, TypeOK
    <3>4. SubjectMayRegister'
      BY <1>2, <1>3, <3>1, <3>2 DEF ServeInv, SubjectMayRegister, Serving, TypeOK
    <3>5. BufferedGone' /\ LeaversGone'
      BY <1>2, <1>3, <3>1 DEF ServeInv, BufferedGone, LeaversGone, Gone
    <3> QED
      BY <1>1, <3>3, <3>4, <3>5 DEF ServeInv
  <2>2. ASSUME Start \/ Stop \/ Tick PROVE ServeInv'
    BY <1>b, <2>2 DEF Start, Stop, Tick, network, registry, locals
  <2>3. ASSUME HeartbeatStart \/ \E id \in Ids : HeartbeatWrite(id) PROVE ServeInv'
    <3>1. /\ owner' = owner /\ sock' = sock /\ buffered' = buffered /\ subject' = subject
          /\ pc' = pc \/ \E l \in Labels : Goto(Heart, l)
      BY <2>3 DEF HeartbeatStart, HeartbeatWrite, network, registry, locals, Labels, Looping
    <3>2. \A g \in Conns \cup Leavers : pc'[g] = pc[g]
      BY <1>2, <1>3, <3>1 DEF Goto
    <3> QED
      BY <1>a, <3>1, <3>2
  <2>4. ASSUME NEW c \in Conns, NEW l \in Labels \ Serving, Goto(c, l),
               owner' = owner, sock' = sock, buffered' \subseteq buffered,
               \A k \in Conns \ {c} : subject'[k] = subject[k]
        PROVE  ServeInv'
    <3>1. /\ \A k \in Conns \ {c} : pc'[k] = pc[k]
          /\ pc'[c] = l
          /\ \A d \in Leavers : pc'[d] = pc[d]
      BY <1>2, <1>3, <2>4 DEF Goto
    <3> QED
      BY <1>a, <2>4, <3>1
  <2>5. ASSUME NEW c \in Conns, HandlePing(c) \/ AnswerPing(c) \/ ReadLast(c) PROVE ServeInv'
    <3>1. \E l \in Labels \ Serving : Goto(c, l)
      BY <2>5, LoopTopServed, LoopTopType DEF HandlePing, AnswerPing, ReadLast, Labels, Serving
    <3>2. owner' = owner /\ sock' = sock /\ buffered' \subseteq buffered /\ subject' = subject
      BY <2>5 DEF HandlePing, AnswerPing, ReadLast, Reads, network, registry, locals
    <3> QED
      BY <2>4, <3>1, <3>2
  <2>6. ASSUME NEW c \in Conns, HandlePong(c) PROVE ServeInv'
    BY <1>b, <2>6 DEF HandlePong, Reads, locals
  <2>7. ASSUME NEW c \in Conns, SendPeerList(c) PROVE ServeInv'
    <3>1. /\ owner' = owner /\ sock' = sock /\ buffered' = buffered /\ subject' = subject
          /\ pc[c] = "list" /\ pc' = [pc EXCEPT ![c] = "reply"]
      BY <2>7 DEF SendPeerList, At, Goto, network, registry
    <3>2. /\ \A k \in Conns : pc'[k] \in Serving => pc[k] \in Serving
          /\ \A d \in Leavers : pc'[d] = pc[d]
      BY <1>2, <1>3, <3>1 DEF Serving
    <3> QED
      BY <1>a, <3>1, <3>2
  <2>8. ASSUME NEW c \in Conns, WritePeerList(c) PROVE ServeInv'
    <3>1. /\ owner' = owner /\ sock' = sock /\ buffered' = buffered /\ pc[c] = "reply"
      BY <2>8 DEF WritePeerList, At, network, registry
    <3>2. CASE Goto(c, "joined") /\ subject' = subject
      <4>1. /\ \A k \in Conns : pc'[k] \in Serving => pc[k] \in Serving
            /\ \A d \in Leavers : pc'[d] = pc[d]
        BY <1>2, <1>3, <3>1, <3>2 DEF Serving, Goto
      <4> QED
        BY <1>a, <3>1, <3>2, <4>1
    <3>3. CASE Goto(c, LoopTop) /\ subject' = [subject EXCEPT ![c] = NoId]
      <4>1. \A k \in Conns \ {c} : subject'[k] = subject[k]
        BY <1>2, <3>3 DEF TypeOK
      <4> QED
        BY <2>4, <3>1, <3>3, <4>1, LoopTopServed, LoopTopType
    <3> QED
      BY <2>8, <3>2, <3>3 DEF WritePeerList
  <2>9. ASSUME NEW g \in Broadcasters, BroadcastStart(g) \/ \E id \in Ids : BroadcastWrite(g, id)
        PROVE  ServeInv'
    <3>1. owner' = owner /\ sock' = sock /\ buffered' = buffered
      BY <2>9 DEF BroadcastStart, BroadcastWrite, network, registry
    <3>2. pc[g] # "idle" /\ (g \in Conns => pc[g] \in Serving)
      BY <2>9 DEF BroadcastStart, BroadcastWrite, At, Serving
    <3>3. CASE Finish(g)
      <4>1. /\ \A k \in Routines \ {g} : pc'[k] = pc[k]
            /\ g \in Conns => pc'[g] \notin Serving
        BY <1>2, <1>3, <3>3, LoopTopServed DEF Finish, Goto, Broadcasters
      <4>2. \A k \in Conns : k # g => subject'[k] = subject[k]
        BY <3>3 DEF Finish
      <4>3. \A d \in Leavers : pc'[d] # "idle" => pc[d] # "idle"
        BY <1>3, <3>2, <4>1
      <4> QED
        BY <1>a, <1>3, <3>1, <4>1, <4>2, <4>3
    <3>4. CASE subject' = subject /\ (Goto(g, "bcast") \/ pc' = pc)
      <4>1. \A k \in Routines \ {g} : pc'[k] = pc[k]
        BY <1>2, <3>4 DEF Goto
      <4> QED
        BY <1>a, <1>3, <3>1, <3>2, <3>4, <4>1
    <3> QED
      BY <2>9, <3>3, <3>4 DEF BroadcastStart, BroadcastWrite
  <2>10. ASSUME NEW c \in Conns, Accept(c) PROVE ServeInv'
    <3>1. /\ owner' = owner /\ buffered' = buffered /\ subject' = subject
          /\ sock' = [sock EXCEPT ![c] = "open"] /\ sock[c] = "idle"
          /\ Goto(c, LoopTop)
      BY <2>10 DEF Accept, registry, locals
    <3>2. \A k \in Conns : /\ sock'[k] = "idle" => sock[k] = "idle"
                           /\ Gone(k) => Gone(k)'
      BY <1>2, <3>1 DEF Gone, TypeOK
    <3>3. /\ \A k \in Conns : pc'[k] \in Serving => pc[k] \in Serving
          /\ \A d \in Leavers : pc'[d] = pc[d]
      BY <1>2, <1>3, <3>1, LoopTopServed DEF Goto
    <3> QED
      BY <1>1, <3>1, <3>2, <3>3, KeepsServeInv
  <2>11. ASSUME NEW c \in Conns, Break(c) PROVE ServeInv'
    <3>1. /\ owner' = owner /\ subject' = subject /\ pc' = pc
          /\ sock' = [sock EXCEPT ![c] = "broken"]
          /\ buffered' \in {buffered, buffered \cup {c}}
      BY <2>11 DEF Break, registry, locals
    <3>2. \A k \in Conns : /\ sock'[k] = "idle" => sock[k] = "idle"
                           /\ Gone(k) => Gone(k)'
      BY <1>2, <3>1 DEF Gone, TypeOK
    <3>3. Gone(c)'
      BY <1>2, <3>1 DEF Gone, TypeOK
    <3> QED
      BY <1>1, <3>1, <3>2, <3>3, KeepsServeInv
  <2>12. ASSUME NEW c \in Conns, Stall(c) \/ Resume(c) PROVE ServeInv'
    BY <1>b, <2>12 DEF Stall, Resume, registry, locals
  <2>13. ASSUME NEW C, Close(C)
         PROVE  /\ \A k \in Conns : /\ sock'[k] = "idle" => sock[k] = "idle"
                                    /\ Gone(k) => Gone(k)'
                /\ \A k \in C \cap Conns : Gone(k)'
    BY <2>13 DEF Close, Gone
  <2>14. ASSUME NEW c \in Conns, Quit(c) PROVE ServeInv'
    <3>1. /\ Close({c}) /\ owner' = owner /\ subject' = subject
          /\ buffered' \subseteq buffered /\ Goto(c, "done")
      BY <2>14 DEF Quit, registry, locals
    <3>2. /\ \A k \in Conns : pc'[k] \in Serving => pc[k] \in Serving
          /\ \A d \in Leavers : pc'[d] = pc[d]
      BY <1>2, <1>3, <3>1 DEF Goto, Serving
    <3> QED
      BY <1>1, <2>13, <3>1, <3>2, KeepsServeInv
  <2>15. ASSUME NEW C, NEW gone \in SUBSET Registered, Close(C), Delete(gone),
                {owner[id] : id \in gone} \subseteq C, subject' = subject,
                \A c \in buffered' : c \in buffered \/ c \in C \cap Conns,
                \A d \in Leavers : pc'[d] # "idle" => pc[d] # "idle" \/ d \in Leaving(gone),
                \A k \in Conns : pc'[k] \in Serving => pc[k] \in Serving
         PROVE  ServeInv'
    <3>1. \A id \in Ids : owner'[id] \in {owner[id], NoConn}
      BY <2>15 DEF Delete
    <3>2. \A d \in Leaving(gone) : d[2] \in C \cap Conns
      BY <1>2, <2>15 DEF Leaving, Registered, TypeOK
    <3> QED
      BY <1>1, <2>13, <2>15, <3>1, <3>2, KeepsServeInv
  <2>16. ASSUME NEW c \in Conns, RemovePeer(c) PROVE ServeInv'
    <3>1. PICK gone \in IF Owned(c) = {} THEN {{}} ELSE {{id} : id \in Owned(c)} :
            /\ Delete(gone \ {EmptyId})
            /\ pc' = [g \in Routines |->
                        IF g \in Leaving(gone \ {EmptyId}) THEN "left"
                        ELSE IF g = c THEN "done" ELSE pc[g]]
            /\ CanAnnounce(gone \ {EmptyId})
      BY <2>16 DEF RemovePeer
    <3>2. gone \subseteq Registered /\ {owner[id] : id \in gone} \subseteq {c}
      BY <3>1 DEF Owned, Registered
    <3>3. Close({c}) /\ subject' = subject /\ buffered' = buffered
      BY <2>16 DEF RemovePeer, locals
    <3>4. Leaving(gone \ {EmptyId}) \cap Conns = {}
      BY <1>3, <3>1 DEF CanAnnounce
    <3>5. /\ \A d \in Leavers : pc'[d] # "idle" => pc[d] # "idle" \/ d \in Leaving(gone \ {EmptyId})
          /\ \A k \in Conns : pc'[k] \in Serving => pc[k] \in Serving
      BY <1>3, <3>1, <3>4 DEF Serving
    <3> QED
      BY <2>15, <3>1, <3>2, <3>3, <3>5
  <2>17. ASSUME CleanupDeadPeers PROVE ServeInv'
    <3>1. /\ Close({owner[id] : id \in DeadPeers}) /\ Delete(DeadPeers)
          /\ CanAnnounce(DeadPeers) /\ subject' = subject
          /\ pc' = [g \in Routines |-> IF g \in Leaving(DeadPeers) THEN "left" ELSE pc[g]]
      BY <2>17 DEF CleanupDeadPeers, locals
    <3>2. DeadPeers \subseteq Registered
      BY DEF DeadPeers
    <3>3. \A c \in buffered' : c \in buffered \/ c \in {owner[id] : id \in DeadPeers} \cap Conns
      BY <1>2, <2>17, <3>2 DEF CleanupDeadPeers, Registered, TypeOK
    <3>4. Leaving(DeadPeers) \cap Conns = {}
      BY <1>3, <3>1 DEF CanAnnounce
    <3>5. /\ \A d \in Leavers : pc'[d] # "idle" => pc[d] # "idle" \/ d \in Leaving(DeadPeers)
          /\ \A k \in Conns : pc'[k] \in Serving => pc[k] \in Serving
      BY <1>3, <3>1, <3>4 DEF Serving
    <3> QED
      BY <2>15, <3>1, <3>2, <3>3, <3>5
  <2>18. ASSUME ConcurrentWritePanic PROVE ServeInv'
    <3>1. /\ Close(Conns) /\ Delete(Ids) /\ buffered' = {}
          /\ pc' = [g \in Routines |-> "done"]
      BY <2>18 DEF ConcurrentWritePanic
    <3>2. \A id \in Ids : owner'[id] = NoConn
      BY <3>1 DEF Delete
    <3>3. \A k \in Conns : pc'[k] \notin Serving
      BY <1>3, <3>1 DEF Serving
    <3>4. \A d \in Leavers : Gone(d[2])'
      BY <2>13, <3>1 DEF Leavers
    <3> QED
      BY <1>1, <2>13, <3>1, <3>2, <3>3, <3>4, KeepsServeInv
  <2> QED
    BY <1>5, <2>1, <2>2, <2>3, <2>5, <2>6, <2>7, <2>8, <2>9, <2>10, <2>11, <2>12, <2>14,
       <2>16, <2>17, <2>18
    DEF Next, Silent, Network, Receive, Heartbeat
<1> QED
  BY <1>4, <1>5

-----------------------------------------------------------------------------
(* Types.                                                                  *)

ClientsInv == ServeInv /\ ClientsTypeOK

LEMMA ServerSteps == [ClientsNext]_clientVars => [Next]_vars
BY DEF ClientsNext, clientVars, ListReceived, NewsReceived, Next

LEMMA DeliverType ==
  ASSUME ClientsTypeOK, NEW c \in Conns, NEW known \in SUBSET (Ids \X Conns), Deliver(c, known)
  PROVE  view' \in [Conns -> SUBSET (Ids \X Conns)]
BY DEF ClientsTypeOK, Deliver

LEMMA ClientsTypeStep == ClientsInv /\ [ClientsNext]_clientVars => ClientsInv'
<1> SUFFICES ASSUME ClientsInv, [ClientsNext]_clientVars PROVE ClientsInv'
  OBVIOUS
<1> USE ServerAssumption
<1>1. ServeInv'
  BY ServerSteps, ServeStep DEF ClientsInv
<1>2. TypeOK' /\ TypeOK
  BY <1>1 DEF ClientsInv, ServeInv, OfflineInv, TypeInv
<1>3. view \in [Conns -> SUBSET (Ids \X Conns)]
  BY DEF ClientsInv, ClientsTypeOK
<1>4. view' \in [Conns -> SUBSET (Ids \X Conns)]
  <2>1. CASE UNCHANGED clientVars \/ Disconnected
    BY <1>3, <2>1 DEF clientVars, Disconnected
  <2>2. ASSUME NEW c \in Conns, ListReceived(c)
        PROVE  view' \in [Conns -> SUBSET (Ids \X Conns)]
    <3>1. handlePeerList(view[c], list[c]) \in SUBSET (Ids \X Conns)
      BY <1>2, <1>3 DEF handlePeerList, TypeOK
    <3> QED
      BY <2>2, <3>1, DeliverType DEF ListReceived, ClientsInv
  <2>3. ASSUME NEW g \in Broadcasters, NEW id \in Ids, NewsReceived(g, id)
        PROVE  view' \in [Conns -> SUBSET (Ids \X Conns)]
    <3>1. CASE id \notin online
      BY <1>3, <2>3, <3>1 DEF NewsReceived
    <3>2. CASE id \in online /\ g \in Conns
      <4>1. owner[id] \in Conns
        BY <3>2 DEF ClientsInv, ServeInv, OfflineInv, TypeInv, TypeOK, OnlineRegistered, Registered
      <4>2. <<subject[g], g>> \in Ids \X Conns
        BY <2>3, <3>2 DEF NewsReceived, BroadcastWrite, At, ClientsInv, ServeInv,
                          SubjectMayRegister, Serving
      <4>3. handlePeerJoined(view[owner[id]], <<subject[g], g>>) \in SUBSET (Ids \X Conns)
        BY <1>3, <4>1, <4>2 DEF handlePeerJoined, Without
      <4> QED
        BY <2>3, <3>2, <4>1, <4>3, DeliverType DEF NewsReceived, ClientsInv
    <3>3. CASE id \in online /\ g \notin Conns
      <4>1. owner[id] \in Conns
        BY <3>3 DEF ClientsInv, ServeInv, OfflineInv, TypeInv, TypeOK, OnlineRegistered, Registered
      <4>2. handlePeerLeft(view[owner[id]], g[1]) \in SUBSET (Ids \X Conns)
        BY <1>3, <4>1 DEF handlePeerLeft, Without
      <4> QED
        BY <2>3, <3>3, <4>1, <4>2, DeliverType DEF NewsReceived, ClientsInv
    <3> QED
      BY <3>1, <3>2, <3>3
  <2> QED
    BY <2>1, <2>2, <2>3 DEF ClientsNext
<1> QED
  BY <1>1, <1>2, <1>4 DEF ClientsInv, ClientsTypeOK

LEMMA ClientsInvariant == ClientsSpec => []ClientsInv
<1>1. ClientsInit => ClientsInv
  <2>1. ClientsInit => ServeInv
    BY ServeInit DEF ClientsInit
  <2> QED
    BY <2>1 DEF ClientsInit, ClientsInv, ClientsTypeOK, ServeInv, OfflineInv, TypeInv
<1> QED
  BY <1>1, ClientsTypeStep, PTL DEF ClientsSpec

(* What the clients know are registrations, whatever reaches them and in   *)
(* whatever order.                                                         *)
THEOREM ClientsTypes == ClientsSpec => []ClientsTypeOK
<1>1. ClientsInv => ClientsTypeOK
  BY DEF ClientsInv
<1> QED
  BY ClientsInvariant, <1>1, PTL

-----------------------------------------------------------------------------
(* Of two peers one knows the other.  The invariant follows the knowledge  *)
(* from the snapshot in the handler to the client's map: of two peers that *)
(* are registered on open connections, the first each has had, one has its *)
(* snapshot still to take, or has the other in its snapshot or its map.    *)

Live(id) == id \in Registered /\ sock[owner[id]] = "open" /\ ~Returned(id)

Has(a, b) ==
  <<b, owner[b]>> \in IF pc[owner[a]] = "reply" THEN list[owner[a]] ELSE view[owner[a]]

Linked(a, b) ==
  pc[owner[a]] = "list" \/ pc[owner[b]] = "list" \/ Has(a, b) \/ Has(b, a)

PairInv == \A a, b \in Ids : Live(a) /\ Live(b) => Linked(a, b)

KnowsInv == ClientsInv /\ PairInv

LEMMA ReturnedStays ==
  ASSUME NEW id \in Ids, owner'[id] = owner[id], Returned(id),
         \A c \in Conns : sock'[c] = "idle" => sock[c] = "idle"
  PROVE  Returned(id)'
BY ServerAssumption DEF Returned

LEMMA OwnersAreConns ==
  ASSUME ClientsInv
  PROVE  /\ \A id \in Registered : owner[id] \in Conns /\ owner[id] \in Routines
         /\ \A id \in Ids : Live(id) => id \in online
         /\ pc \in [Routines -> Labels]
<1>1. TypeOK /\ OfflineMeansGone
  BY DEF ClientsInv, ServeInv, OfflineInv, TypeInv
<1> QED
  BY <1>1 DEF TypeOK, OfflineMeansGone, Live, Gone, Registered, Routines, Broadcasters

\* Steps after which all that live have what they had.
LEMMA KeepsPairs ==
  ASSUME KnowsInv,
         \A id \in Ids : Live(id)' => /\ Live(id) /\ owner'[id] = owner[id]
                                      /\ pc[owner[id]] = "list" => pc'[owner[id]] = "list",
         \A a, b \in Ids : Live(a)' /\ Live(b)' /\ Has(a, b) => Has(a, b)'
  PROVE  PairInv'
<1> SUFFICES ASSUME NEW a \in Ids, NEW b \in Ids, Live(a)', Live(b)'
             PROVE  Linked(a, b)'
  BY DEF PairInv
<1>1. Linked(a, b)
  BY DEF KnowsInv, PairInv
<1> QED
  BY <1>1 DEF Linked

\* The steps that neither register, nor take a snapshot, nor tell anybody.
LEMMA KeepsKnowledge ==
  ASSUME KnowsInv, Disconnected,
         \A id \in Ids : owner'[id] \in {owner[id], NoConn},
         \A c \in Conns : sock'[c] = "idle" => sock[c] = "idle",
         \A id \in Registered : LET c == owner[id] IN
           sock'[c] = "open" =>
             /\ sock[c] = "open"
             /\ list'[c] = list[c]
             /\ \/ pc'[c] = pc[c]
                \/ pc'[c] \notin {"list", "reply"} /\ pc[c] \notin {"list", "reply"}
  PROVE  PairInv'
<1>1. \A id \in Ids : Live(id)' => /\ Live(id) /\ owner'[id] = owner[id]
                                   /\ owner[id] \in Conns
                                   /\ view'[owner[id]] = view[owner[id]]
  BY OwnersAreConns, ReturnedStays DEF Live, Registered, Disconnected, KnowsInv
<1>2. \A id \in Ids : Live(id)' =>
        /\ list'[owner[id]] = list[owner[id]]
        /\ pc[owner[id]] = "list" => pc'[owner[id]] = "list"
        /\ pc[owner[id]] = "reply" <=> pc'[owner[id]] = "reply"
  BY <1>1 DEF Live
<1>3. \A a, b \in Ids : Live(a)' /\ Live(b)' /\ Has(a, b) => Has(a, b)'
  BY <1>1, <1>2 DEF Has
<1> QED
  BY <1>1, <1>2, <1>3, KeepsPairs

LEMMA SilentKeepsPairs ==
  ASSUME KnowsInv, Silent, Disconnected
  PROVE  PairInv'
<1> USE ServerAssumption
<1>1. /\ TypeOK
      /\ \A id \in Registered : owner[id] \in Conns /\ owner[id] \in Routines
      /\ \A id \in Ids : Live(id) => id \in online
      /\ pc \in [Routines -> Labels]
  BY OwnersAreConns DEF KnowsInv, ClientsInv, ClientsTypeOK
<1>2. Conns \subseteq Routines /\ Conns \cap Leavers = {} /\ Heart \notin Conns
  BY DEF Routines, Broadcasters, Leavers
<1>a. LoopTop \notin {"list", "reply"}
  BY DEF LoopTop
<1>b. ASSUME owner' = owner, list' = list, sock' = sock,
             \A c \in Conns : \/ pc'[c] = pc[c]
                              \/ pc'[c] \notin {"list", "reply"} /\ pc[c] \notin {"list", "reply"}
      PROVE  PairInv'
  BY <1>1, <1>b, KeepsKnowledge
<1>3. ASSUME Start \/ Stop \/ Tick PROVE PairInv'
  BY <1>b, <1>3 DEF Start, Stop, Tick, network, registry, locals
<1>4. ASSUME HeartbeatStart \/ \E id \in Ids : HeartbeatWrite(id) PROVE PairInv'
  <2>1. /\ owner' = owner /\ sock' = sock /\ list' = list
        /\ pc' = pc \/ \E l \in Labels : Goto(Heart, l)
    BY <1>4 DEF HeartbeatStart, HeartbeatWrite, network, registry, locals, Labels, Looping
  <2>2. \A c \in Conns : pc'[c] = pc[c]
    BY <1>1, <1>2, <2>1 DEF Goto
  <2> QED
    BY <1>b, <2>1, <2>2
<1>5. ASSUME NEW c \in Conns, HandlePing(c) \/ HandlePong(c) \/ ReadLast(c) \/ AnswerPing(c)
      PROVE  PairInv'
  <2>1. owner' = owner /\ sock' = sock /\ list' = list /\ pc[c] \in {"read", "answer"}
    BY <1>5 DEF HandlePing, HandlePong, ReadLast, AnswerPing, Reads, At, registry, network, locals
  <2>2. pc' = pc \/ \E l \in {"answer", "quit", LoopTop} : Goto(c, l)
    BY <1>5 DEF HandlePing, HandlePong, ReadLast, AnswerPing
  <2>3. \A k \in Conns : \/ pc'[k] = pc[k]
                         \/ pc'[k] \notin {"list", "reply"} /\ pc[k] \notin {"list", "reply"}
    BY <1>1, <1>2, <1>a, <2>1, <2>2 DEF Goto
  <2> QED
    BY <1>b, <2>1, <2>3
<1>6. ASSUME NEW g \in Broadcasters, BroadcastStart(g) PROVE PairInv'
  <2>1. owner' = owner /\ sock' = sock /\ list' = list /\ pc[g] \in {"joined", "left"}
    BY <1>6 DEF BroadcastStart, At, registry, network
  <2>2. \E l \in {"bcast", "idle", LoopTop} : Goto(g, l)
    BY <1>6 DEF BroadcastStart, Finish
  <2>3. \A k \in Conns : \/ pc'[k] = pc[k]
                         \/ pc'[k] \notin {"list", "reply"} /\ pc[k] \notin {"list", "reply"}
    BY <1>1, <1>2, <1>a, <2>1, <2>2 DEF Goto
  <2> QED
    BY <1>b, <2>1, <2>3
<1>7. ASSUME NEW c \in Conns, Accept(c) PROVE PairInv'
  <2>1. /\ owner' = owner /\ list' = list /\ sock[c] = "idle"
        /\ sock' = [sock EXCEPT ![c] = "open"] /\ Goto(c, LoopTop)
    BY <1>7 DEF Accept, registry, locals
  <2>2. \A id \in Registered : owner[id] # c
    BY <2>1 DEF KnowsInv, ClientsInv, ServeInv, OwnerAccepted
  <2>3. \A id \in Registered : sock'[owner[id]] = sock[owner[id]] /\ pc'[owner[id]] = pc[owner[id]]
    BY <1>1, <2>1, <2>2 DEF Goto
  <2>4. \A k \in Conns : sock'[k] = "idle" => sock[k] = "idle"
    BY <1>1, <2>1 DEF TypeOK
  <2> QED
    BY <2>1, <2>3, <2>4, KeepsKnowledge
<1>8. ASSUME NEW c \in Conns, Break(c) \/ Stall(c) \/ Resume(c) PROVE PairInv'
  <2>1. /\ owner' = owner /\ list' = list /\ pc' = pc
        /\ \A k \in Conns : /\ sock'[k] = "open" => sock[k] = "open"
                            /\ sock'[k] = "idle" => sock[k] = "idle"
    BY <1>1, <1>8 DEF Break, Stall, Resume, registry, locals, TypeOK
  <2> QED
    BY <1>1, <2>1, KeepsKnowledge
<1>9. ASSUME NEW c \in Conns, Quit(c) PROVE PairInv'
  <2>1. owner' = owner /\ list' = list /\ Close({c}) /\ Goto(c, "done")
    BY <1>9 DEF Quit, registry, locals
  <2>2. \A k \in Conns : /\ sock'[k] = "open" => sock[k] = "open" /\ pc'[k] = pc[k]
                         /\ sock'[k] = "idle" => sock[k] = "idle"
    BY <1>1, <1>2, <2>1 DEF Close, Goto
  <2> QED
    BY <1>1, <2>1, <2>2, KeepsKnowledge
<1>10. ASSUME NEW C, NEW gone, Close(C), Delete(gone), list' = list,
              \A k \in Conns \ C : pc'[k] = pc[k]
       PROVE  PairInv'
  <2>1. \A k \in Conns : /\ sock'[k] = "open" => sock[k] = "open" /\ k \notin C
                         /\ sock'[k] = "idle" => sock[k] = "idle"
    BY <1>10 DEF Close
  <2>2. \A id \in Ids : owner'[id] \in {owner[id], NoConn}
    BY <1>10 DEF Delete
  <2> QED
    BY <1>1, <1>10, <2>1, <2>2, KeepsKnowledge
<1>11. ASSUME NEW c \in Conns, RemovePeer(c) PROVE PairInv'
  <2>1. PICK gone \in IF Owned(c) = {} THEN {{}} ELSE {{id} : id \in Owned(c)} :
          /\ Delete(gone \ {EmptyId})
          /\ pc' = [g \in Routines |->
                      IF g \in Leaving(gone \ {EmptyId}) THEN "left"
                      ELSE IF g = c THEN "done" ELSE pc[g]]
          /\ CanAnnounce(gone \ {EmptyId})
    BY <1>11 DEF RemovePeer
  <2>2. Close({c}) /\ list' = list
    BY <1>11 DEF RemovePeer, locals
  <2>3. \A k \in Conns \ {c} : pc'[k] = pc[k]
    BY <1>2, <2>1 DEF CanAnnounce
  <2> QED
    BY <1>10, <2>1, <2>2, <2>3
<1>12. ASSUME CleanupDeadPeers PROVE PairInv'
  <2>1. /\ Close({owner[id] : id \in DeadPeers}) /\ Delete(DeadPeers)
        /\ CanAnnounce(DeadPeers) /\ list' = list
        /\ pc' = [g \in Routines |-> IF g \in Leaving(DeadPeers) THEN "left" ELSE pc[g]]
    BY <1>12 DEF CleanupDeadPeers, locals
  <2>2. \A k \in Conns : pc'[k] = pc[k]
    BY <1>2, <2>1 DEF CanAnnounce
  <2> QED
    BY <1>10, <2>1, <2>2
<1>13. ASSUME ConcurrentWritePanic PROVE PairInv'
  <2>1. \A id \in Ids : ~Live(id)'
    BY <1>13 DEF ConcurrentWritePanic, Delete, Live, Registered
  <2> QED
    BY <2>1 DEF PairInv
<1>14. ASSUME NEW c \in Conns, SendPeerList(c) PROVE PairInv'
  <2>1. /\ owner' = owner /\ sock' = sock /\ online' = online
        /\ pc' = [pc EXCEPT ![c] = "reply"]
        /\ list' = [list EXCEPT ![c] = GetPeers]
    BY <1>14 DEF SendPeerList, Goto, registry, network
  <2>2. \A id \in Ids : Live(id)' => Live(id) /\ view'[owner[id]] = view[owner[id]]
    BY <1>1, <2>1 DEF Live, Registered, Returned, Disconnected
  <2>3. ASSUME NEW a \in Ids, NEW b \in Ids, Live(a), Live(b), owner[a] = c
        PROVE  Has(a, b)'
    <3>1. <<b, owner[b]>> \in GetPeers
      BY <1>1, <2>3 DEF GetPeers
    <3>2. list'[c] = GetPeers /\ pc'[c] = "reply"
      BY <1>1, <1>2, <2>1 DEF TypeOK
    <3> QED
      BY <2>1, <2>3, <3>1, <3>2 DEF Has
  <2>4. ASSUME NEW a \in Ids, NEW b \in Ids, Live(a)', Live(b)', owner[a] # c, owner[b] # c
        PROVE  Linked(a, b)'
    <3>1. Linked(a, b)
      BY <2>2, <2>4 DEF KnowsInv, PairInv
    <3>2. \A id \in {a, b} : /\ pc'[owner[id]] = pc[owner[id]]
                             /\ list'[owner[id]] = list[owner[id]]
                             /\ view'[owner[id]] = view[owner[id]]
      BY <1>1, <2>1, <2>2, <2>4 DEF Live, TypeOK
    <3> QED
      BY <2>1, <3>1, <3>2 DEF Linked, Has
  <2> QED
    BY <2>1, <2>2, <2>3, <2>4 DEF PairInv, Linked
<1>15. ASSUME NEW c \in Conns, NEW id \in Ids, HandleRegister(c, id) PROVE PairInv'
  <2>1. /\ sock' = sock /\ list' = list
        /\ <<id, c>> \in MayRegister
        /\ owner' = [owner EXCEPT ![id] = c]
        /\ pc' = [pc EXCEPT ![c] = "list"]
    BY <1>15 DEF HandleRegister, Reads, Goto
  <2>2. pc'[c] = "list" /\ owner'[id] = c
    BY <1>1, <1>2, <2>1 DEF TypeOK
  <2>3. SUFFICES ASSUME NEW a \in Ids, NEW b \in Ids, Live(a)', Live(b)',
                        owner'[a] # c, owner'[b] # c
                 PROVE  Linked(a, b)'
    BY <2>2 DEF PairInv, Linked
  <2>4. \A k \in {a, b} : /\ k # id /\ owner'[k] = owner[k] /\ Live(k)
                          /\ owner[k] \in Conns
    BY <1>1, <2>1, <2>2, <2>3 DEF Live, Registered, Returned, TypeOK
  <2>5. Linked(a, b)
    BY <2>4 DEF KnowsInv, PairInv
  <2>6. \A k \in {a, b} : /\ pc'[owner[k]] = pc[owner[k]]
                          /\ view'[owner[k]] = view[owner[k]]
    BY <1>1, <1>2, <2>1, <2>3, <2>4 DEF Live, Disconnected
  <2> QED
    BY <2>1, <2>4, <2>5, <2>6 DEF Linked, Has
<1> QED
  BY <1>3, <1>4, <1>5, <1>6, <1>7, <1>8, <1>9, <1>11, <1>12, <1>13, <1>14, <1>15
  DEF Silent, Network, Receive, Heartbeat

LEMMA ListKeepsPairs ==
  ASSUME KnowsInv, NEW c \in Conns, ListReceived(c)
  PROVE  PairInv'
<1>1. /\ TypeOK /\ view \in [Conns -> SUBSET (Ids \X Conns)]
      /\ \A id \in Registered : owner[id] \in Conns /\ owner[id] \in Routines
      /\ pc \in [Routines -> Labels]
  BY OwnersAreConns DEF KnowsInv, ClientsInv, ClientsTypeOK
<1>2. /\ owner' = owner /\ sock' = sock /\ pc[c] = "reply"
      /\ Deliver(c, handlePeerList(view[c], list[c]))
      /\ list' = [list EXCEPT ![c] = {}]
      /\ \E l \in {"joined", LoopTop} : Goto(c, l)
  BY DEF ListReceived, WritePeerList, At, registry, network
<1>3. /\ pc'[c] \notin {"list", "reply"}
      /\ \A k \in Conns \ {c} : /\ pc'[k] = pc[k] /\ list'[k] = list[k]
                                /\ view'[k] = view[k]
  <2>1. c \in Routines /\ Conns \subseteq Routines
    BY DEF Routines, Broadcasters
  <2>2. LoopTop \notin {"list", "reply"}
    BY DEF LoopTop
  <2>3. \E l \in {"joined", LoopTop} : pc' = [pc EXCEPT ![c] = l]
    BY <1>2 DEF Goto
  <2>4. \A k \in Conns \ {c} : list'[k] = list[k] /\ view'[k] = view[k]
    BY <1>1, <1>2 DEF Deliver, TypeOK
  <2> QED
    BY <1>1, <2>1, <2>2, <2>3, <2>4
<1>4. sock[c] = "open" => view'[c] = handlePeerList(view[c], list[c])
  BY <1>1, <1>2 DEF Deliver
<1>5. \A id \in Ids : Live(id)' => /\ Live(id) /\ owner'[id] = owner[id]
                                   /\ pc[owner[id]] = "list" => pc'[owner[id]] = "list"
  BY <1>1, <1>2, <1>3 DEF Live, Registered, Returned
<1>6. ASSUME NEW a \in Ids, NEW b \in Ids, Live(a), Has(a, b)
      PROVE  Has(a, b)'
  <2>1. CASE owner[a] = c
    <3>1. <<b, owner[b]>> \in list[c] /\ sock[c] = "open"
      BY <1>2, <1>6, <2>1 DEF Has, Live
    <3>2. <<b, owner[b]>> \in view'[c]
      BY <1>4, <3>1 DEF handlePeerList
    <3> QED
      BY <1>2, <1>3, <2>1, <3>2 DEF Has
  <2>2. CASE owner[a] # c
    BY <1>1, <1>2, <1>3, <1>6, <2>2 DEF Has, Live
  <2> QED
    BY <2>1, <2>2
<1> QED
  BY <1>5, <1>6, KeepsPairs

LEMMA NewsKeepPairs ==
  ASSUME KnowsInv, NEW g \in Broadcasters, NEW id \in Ids, NewsReceived(g, id)
  PROVE  PairInv'
<1> USE ServerAssumption
<1>1. /\ TypeOK /\ view \in [Conns -> SUBSET (Ids \X Conns)]
      /\ \A i \in Registered : owner[i] \in Conns /\ owner[i] \in Routines
      /\ pc \in [Routines -> Labels]
  BY OwnersAreConns DEF KnowsInv, ClientsInv, ClientsTypeOK
<1>2. /\ owner' = owner /\ sock' = sock /\ list' = list /\ pc[g] = "bcast"
      /\ pc' = pc \/ \E l \in {LoopTop, "idle"} : Goto(g, l)
  BY DEF NewsReceived, BroadcastWrite, Finish, At, registry, network
<1>3. \A k \in Conns : \/ pc'[k] = pc[k]
                       \/ pc'[k] \notin {"list", "reply"} /\ pc[k] \notin {"list", "reply"}
  BY <1>1, <1>2 DEF LoopTop, Goto, Routines, Broadcasters
\* No news takes a live peer out of a map.
<1>4. ASSUME NEW b \in Ids, Live(b), NEW k \in Conns, <<b, owner[b]>> \in view[k]
      PROVE  <<b, owner[b]>> \in view'[k]
  <2>1. <<b, owner[b]>> \in handlePeerJoined(view[k], <<subject[g], g>>) \/ g \notin Conns
    <3>1. g \in Conns => <<subject[g], g>> \in MayRegister /\ sock[g] # "idle"
      BY <1>2 DEF KnowsInv, ClientsInv, ServeInv, SubjectMayRegister, Serving
    <3>2. g \in Conns /\ subject[g] = b => g = owner[b]
      BY <1>4, <3>1 DEF Live, Returned
    <3> QED
      BY <1>4, <3>2 DEF handlePeerJoined, Without
  <2>2. <<b, owner[b]>> \in handlePeerLeft(view[k], g[1]) \/ g \in Conns
    <3>1. g \in Leavers => Gone(g[2])
      BY <1>2 DEF KnowsInv, ClientsInv, ServeInv, LeaversGone
    <3>2. g \in Leavers /\ g[1] = b => g[2] = owner[b]
      BY <1>4, <3>1 DEF Live, Returned, Leavers, Gone
    <3> QED
      BY <1>4, <3>1, <3>2 DEF handlePeerLeft, Without, Broadcasters, Live, Gone
  <2>3. \/ view' = view
        \/ g \in Conns /\ Deliver(owner[id], handlePeerJoined(view[owner[id]], <<subject[g], g>>))
        \/ g \notin Conns /\ Deliver(owner[id], handlePeerLeft(view[owner[id]], g[1]))
    BY DEF NewsReceived
  <2> QED
    BY <1>1, <1>4, <2>1, <2>2, <2>3 DEF Deliver
<1>5. \A i \in Ids : Live(i)' => /\ Live(i) /\ owner'[i] = owner[i]
                                 /\ pc[owner[i]] = "list" => pc'[owner[i]] = "list"
  BY <1>1, <1>2, <1>3 DEF Live, Registered, Returned
<1>6. \A a, b \in Ids : Live(a)' /\ Live(b)' /\ Has(a, b) => Has(a, b)'
  <2> SUFFICES ASSUME NEW a \in Ids, NEW b \in Ids, Live(a)', Live(b)', Has(a, b)
               PROVE  Has(a, b)'
    OBVIOUS
  <2>1. Live(a) /\ Live(b) /\ owner[a] \in Conns /\ owner'[a] = owner[a] /\ owner'[b] = owner[b]
    BY <1>1, <1>5 DEF Live
  <2> QED
    BY <1>2, <1>3, <1>4, <2>1 DEF Has
<1> QED
  BY <1>5, <1>6, KeepsPairs

LEMMA KnowsStep ==
  ASSUME KnowsInv, [ClientsNext]_clientVars
  PROVE  KnowsInv'
<1>1. ClientsInv'
  BY ClientsTypeStep DEF KnowsInv
<1>2. CASE UNCHANGED clientVars
  <2>1. UNCHANGED <<owner, sock, pc, list, view>>
    BY <1>2 DEF clientVars, vars, registry, network, locals
  <2> QED
    BY <1>1, <2>1 DEF KnowsInv, PairInv, Live, Registered, Returned, Linked, Has
<1> QED
  BY <1>1, <1>2, SilentKeepsPairs, ListKeepsPairs, NewsKeepPairs DEF ClientsNext, KnowsInv

(* Two peers that register at the same time do not both miss each other:   *)
(* of any two whose lists have been written, one knows the other, whatever *)
(* else the server does meanwhile and whoever else reconnects, as long as  *)
(* these two are on the first connection they have had.                    *)
THEOREM OneAlwaysKnows == ClientsSpec => []OneKnowsTheOther
<1>1. ClientsInit => PairInv
  BY DEF ClientsInit, Init, PairInv, Live, Registered
<1>2. KnowsInv /\ [ClientsNext]_clientVars => KnowsInv'
  BY KnowsStep
<1>3. ClientsInv /\ PairInv => OneKnowsTheOther
  <2> SUFFICES ASSUME KnowsInv, NEW a \in Ids, NEW b \in Ids, Served(a), Served(b),
                      ~Returned(a), ~Returned(b)
               PROVE  Knows(a, b) \/ Knows(b, a)
    BY DEF OneKnowsTheOther, KnowsInv
  <2>1. Live(a) /\ Live(b)
    BY DEF Served, Live, KnowsInv, ClientsInv, ServeInv, OfflineInv, TypeInv, OnlineRegistered
  <2>2. Linked(a, b)
    BY <2>1 DEF KnowsInv, PairInv
  <2> QED
    BY <2>2 DEF Served, Linked, Has, Knows
<1>4. ClientsSpec => []PairInv
  <2>1. ClientsInv /\ PairInv /\ [ClientsNext]_clientVars => PairInv'
    BY <1>2 DEF KnowsInv
  <2> QED
    BY <1>1, <2>1, ClientsInvariant, PTL DEF ClientsSpec
<1> QED
  BY <1>3, <1>4, ClientsInvariant, PTL
=============================================================================
