----------------------- MODULE DiscoveryServerProofs -----------------------
(* Proofs about DiscoveryServer, for any connections, IDs and timeout. *)
EXTENDS DiscoveryServer, TLAPS


-----------------------------------------------------------------------------
(* Types. *)

\* The labels that LoopTop and Finish lead to are labels.
LEMMA LoopTopType == LoopTop \in Labels
BY DEF LoopTop, Labels

LEMMA GotoType ==
  ASSUME pc \in [Routines -> Labels], NEW g \in Routines, NEW l \in Labels, Goto(g, l)
  PROVE  pc' \in [Routines -> Labels]
BY DEF Goto

\* Ending a broadcast keeps the types of what it changes.
LEMMA FinishType ==
  ASSUME TypeOK, NEW g \in Broadcasters, Finish(g)
  PROVE  /\ pc' \in [Routines -> Labels]
         /\ subject' \in [Conns -> Ids \cup {NoId}]
<1>1. (IF g \in Conns THEN LoopTop ELSE "idle") \in Labels
  BY LoopTopType DEF Labels
<1>2. g \in Routines
  BY DEF Routines
<1> QED
  BY <1>1, <1>2, GotoType DEF Finish, TypeOK

\* Closing connections and deleting entries keep the types of what they change.
LEMMA CloseType ==
  ASSUME TypeOK, NEW C, Close(C)
  PROVE  /\ sock' \in [Conns -> {"idle", "open", "broken", "closed"}]
         /\ stall' \in [Conns -> {"before", "during", "after"}]
BY DEF TypeOK, Close

LEMMA DeleteType ==
  ASSUME TypeOK, NEW gone, Delete(gone)
  PROVE  /\ owner' \in [Ids -> Conns \cup {NoConn}]
         /\ online' \in SUBSET Ids
         /\ age' \in [Ids -> 0..(Timeout + 1)]
BY ServerAssumption DEF TypeOK, Delete

\* A list holds registrations: only an entry that exists is online.
OnlineRegistered == online \subseteq Registered

TypeInv == TypeOK /\ OnlineRegistered

LEMMA TypeInit == Init => TypeInv
BY ServerAssumption
   DEF Init, TypeInv, TypeOK, OnlineRegistered, Registered, Routines, Labels

(* Every step keeps the types. *)
LEMMA TypeStep == TypeInv /\ [Next]_vars => TypeInv'
<1> SUFFICES ASSUME TypeInv, [Next]_vars PROVE TypeInv'
  OBVIOUS
<1> USE ServerAssumption
<1>0. TypeOK /\ OnlineRegistered
  BY DEF TypeInv
<1>1. CASE UNCHANGED vars
  BY <1>0, <1>1 DEF TypeInv, TypeOK, OnlineRegistered, Registered,
                    vars, registry, network, locals
<1>2. CASE Next
  <2>1. ASSUME Start PROVE TypeInv'
    BY <1>0, <2>1 DEF Start, TypeInv, TypeOK, OnlineRegistered, Registered,
                      registry, network, locals
  <2>2. ASSUME Stop PROVE TypeInv'
    BY <1>0, <2>2 DEF Stop, TypeInv, TypeOK, OnlineRegistered, Registered,
                      registry, network, locals
  <2>3. ASSUME Tick PROVE TypeInv'
    <3>1. \A n \in 0..(Timeout + 1) : Older(n) \in 0..(Timeout + 1)
      BY DEF Older
    <3>2. age' \in [Ids -> 0..(Timeout + 1)]
      BY <1>0, <2>3, <3>1 DEF Tick, TypeOK
    <3> QED
      BY <1>0, <2>3, <3>2 DEF Tick, TypeInv, TypeOK, OnlineRegistered, Registered,
                              network, locals
  <2>4. ASSUME ConcurrentWritePanic PROVE TypeInv'
    <3>1. Close(Conns) /\ Delete(Ids)
      BY <2>4 DEF ConcurrentWritePanic
    <3>2. pc' \in [Routines -> Labels] /\ todo' \in [Routines -> SUBSET Ids]
      BY <2>4 DEF ConcurrentWritePanic, Labels
    <3>3. /\ subject' \in [Conns -> Ids \cup {NoId}]
          /\ list' \in [Conns -> SUBSET (Ids \X Conns)]
      BY <2>4 DEF ConcurrentWritePanic
    <3>4. OnlineRegistered'
      BY <1>0, <3>1 DEF Delete, OnlineRegistered, TypeOK
    <3> QED
      BY <1>0, <2>4, <3>1, <3>2, <3>3, <3>4, CloseType, DeleteType
      DEF ConcurrentWritePanic, TypeInv, TypeOK
  <2>5. ASSUME CleanupDeadPeers PROVE TypeInv'
    <3>1. Delete(DeadPeers) /\ Close({owner[id] : id \in DeadPeers})
      BY <2>5 DEF CleanupDeadPeers
    <3>2. pc' \in [Routines -> Labels]
      BY <1>0, <2>5 DEF CleanupDeadPeers, TypeOK, Labels
    <3>3. {owner[id] : id \in DeadPeers} \subseteq Conns
      BY <1>0 DEF DeadPeers, Registered, TypeOK
    <3>4. buffered' \in SUBSET Conns
      BY <1>0, <2>5, <3>3 DEF CleanupDeadPeers, TypeOK
    <3>5. OnlineRegistered'
      BY <1>0, <3>1 DEF Delete, OnlineRegistered, Registered, TypeOK
    <3> QED
      BY <1>0, <2>5, <3>1, <3>2, <3>4, <3>5, CloseType, DeleteType
      DEF CleanupDeadPeers, TypeInv, TypeOK, locals
  <2>6. ASSUME HeartbeatStart PROVE TypeInv'
    BY <1>0, <2>6 DEF HeartbeatStart, Goto, TypeInv, TypeOK, OnlineRegistered, Registered,
                      registry, network, locals, Routines, Labels, Looping
  <2>7. ASSUME NEW c \in Conns, Accept(c) PROVE TypeInv'
    <3>1. pc' \in [Routines -> Labels]
      BY <1>0, <2>7, LoopTopType, GotoType DEF Accept, TypeOK, Routines, Broadcasters
    <3> QED
      BY <1>0, <2>7, <3>1 DEF Accept, TypeInv, TypeOK, OnlineRegistered, Registered,
                              registry, locals
  <2>8. ASSUME NEW c \in Conns, Break(c) PROVE TypeInv'
    BY <1>0, <2>8 DEF Break, TypeInv, TypeOK, OnlineRegistered, Registered,
                      registry, locals
  <2>9. ASSUME NEW c \in Conns, Stall(c) \/ Resume(c) PROVE TypeInv'
    BY <1>0, <2>9 DEF Stall, Resume, TypeInv, TypeOK, OnlineRegistered, Registered,
                      registry, locals
  <2>10. ASSUME NEW c \in Conns, NEW id \in Ids, HandleRegister(c, id) PROVE TypeInv'
    <3>1. pc' \in [Routines -> Labels]
      BY <1>0, <2>10, GotoType DEF HandleRegister, TypeOK, Routines, Broadcasters, Labels
    <3> QED
      BY <1>0, <2>10, <3>1 DEF HandleRegister, Reads, TypeInv, TypeOK,
                               OnlineRegistered, Registered
  <2>11. ASSUME NEW c \in Conns, HandlePing(c) \/ HandlePong(c) PROVE TypeInv'
    <3>1. pc' \in [Routines -> Labels]
      BY <1>0, <2>11, GotoType DEF HandlePing, HandlePong, TypeOK, Routines,
                                   Broadcasters, Labels
    <3>2. age' \in [Ids -> 0..(Timeout + 1)]
      BY <1>0, <2>11 DEF HandlePing, HandlePong, UpdatePeerLastSeen, Owned, TypeOK
    <3> QED
      BY <1>0, <2>11, <3>1, <3>2 DEF HandlePing, HandlePong, Reads, TypeInv, TypeOK,
                                     OnlineRegistered, Registered, locals
  <2>12. ASSUME NEW c \in Conns, ReadLast(c) PROVE TypeInv'
    BY <1>0, <2>12 DEF ReadLast, Reads, Goto, TypeInv, TypeOK, OnlineRegistered,
                       Registered, registry, locals, Labels
  <2>13. ASSUME NEW c \in Conns, SendPeerList(c) PROVE TypeInv'
    <3>1. GetPeers \in SUBSET (Ids \X Conns)
      BY <1>0 DEF GetPeers, OnlineRegistered, Registered, TypeOK
    <3> QED
      BY <1>0, <2>13, <3>1 DEF SendPeerList, Goto, TypeInv, TypeOK, OnlineRegistered,
                               Registered, registry, network, Labels
  <2>14. ASSUME NEW c \in Conns, WritePeerList(c) PROVE TypeInv'
    <3>1. pc' \in [Routines -> Labels]
      BY <1>0, <2>14, LoopTopType, GotoType
      DEF WritePeerList, TypeOK, Routines, Broadcasters, Labels
    <3> QED
      BY <1>0, <2>14, <3>1 DEF WritePeerList, TypeInv, TypeOK, OnlineRegistered,
                               Registered, registry, network
  <2>15. ASSUME NEW c \in Conns, AnswerPing(c) PROVE TypeInv'
    <3>1. pc' \in [Routines -> Labels]
      BY <1>0, <2>15, LoopTopType, GotoType DEF AnswerPing, TypeOK, Routines, Broadcasters
    <3> QED
      BY <1>0, <2>15, <3>1 DEF AnswerPing, TypeInv, TypeOK, OnlineRegistered,
                               Registered, registry, network, locals
  <2>16. ASSUME NEW c \in Conns, RemovePeer(c) PROVE TypeInv'
    <3>1. PICK gone : /\ Delete(gone \ {EmptyId})
                      /\ pc' = [g \in Routines |->
                                  IF g \in Leaving(gone \ {EmptyId}) THEN "left"
                                  ELSE IF g = c THEN "done" ELSE pc[g]]
      BY <2>16 DEF RemovePeer
    <3>2. pc' \in [Routines -> Labels]
      BY <1>0, <3>1 DEF TypeOK, Labels
    <3>3. Close({c})
      BY <2>16 DEF RemovePeer
    <3>4. OnlineRegistered'
      BY <1>0, <3>1 DEF Delete, OnlineRegistered, Registered, TypeOK
    <3> QED
      BY <1>0, <2>16, <3>1, <3>2, <3>3, <3>4, CloseType, DeleteType
      DEF RemovePeer, TypeInv, TypeOK, locals
  <2>17. ASSUME NEW c \in Conns, Quit(c) PROVE TypeInv'
    <3>1. Close({c})
      BY <2>17 DEF Quit
    <3> QED
      BY <1>0, <2>17, <3>1, CloseType DEF Quit, Goto, TypeInv, TypeOK, OnlineRegistered,
                                          Registered, registry, locals, Labels
  <2>18. ASSUME NEW g \in Broadcasters, BroadcastStart(g) PROVE TypeInv'
    <3>1. /\ pc' \in [Routines -> Labels]
          /\ subject' \in [Conns -> Ids \cup {NoId}]
      <4>1. CASE Finish(g)
        BY <1>0, <4>1, FinishType
      <4>2. CASE Goto(g, "bcast") /\ subject' = subject
        BY <1>0, <4>2, GotoType DEF TypeOK, Routines, Labels, Looping
      <4> QED
        BY <2>18, <4>1, <4>2 DEF BroadcastStart
    <3> QED
      BY <1>0, <2>18, <3>1 DEF BroadcastStart, TypeInv, TypeOK, OnlineRegistered,
                               Registered, registry, network
  <2>19. ASSUME NEW g \in Broadcasters, NEW id \in Ids, BroadcastWrite(g, id)
         PROVE  TypeInv'
    <3>1. /\ pc' \in [Routines -> Labels]
          /\ subject' \in [Conns -> Ids \cup {NoId}]
      <4>1. CASE Finish(g)
        BY <1>0, <4>1, FinishType
      <4>2. CASE UNCHANGED <<pc, subject>>
        BY <1>0, <4>2 DEF TypeOK
      <4> QED
        BY <2>19, <4>1, <4>2 DEF BroadcastWrite
    <3> QED
      BY <1>0, <2>19, <3>1 DEF BroadcastWrite, TypeInv, TypeOK, OnlineRegistered,
                               Registered, registry, network
  <2>20. ASSUME NEW id \in Ids, HeartbeatWrite(id) PROVE TypeInv'
    <3>1. pc' \in [Routines -> Labels]
      BY <1>0, <2>20 DEF HeartbeatWrite, Goto, TypeOK, Labels
    <3>2. online' \subseteq online
      BY <2>20 DEF HeartbeatWrite
    <3>3. todo' \in [Routines -> SUBSET Ids]
      BY <1>0, <2>20 DEF HeartbeatWrite, TypeOK
    <3> QED
      BY <1>0, <2>20, <3>1, <3>2, <3>3 DEF HeartbeatWrite, TypeInv, TypeOK,
                                           OnlineRegistered, Registered, network, locals
  <2> QED
    <3> HIDE DEF TypeInv
    <3> QED
      BY <1>2, <2>1, <2>2, <2>3, <2>4, <2>5, <2>6, <2>7, <2>8, <2>9, <2>10, <2>11, <2>12,
         <2>13, <2>14, <2>15, <2>16, <2>17, <2>18, <2>19, <2>20
      DEF Next, Silent, Network, Receive, Heartbeat
<1> QED
  BY <1>1, <1>2

(* The state of the server is of its types, whatever the clients do.       *)
THEOREM TypeCorrect == Spec => []TypeOK
<1>1. TypeInv => TypeOK
  BY DEF TypeInv
<1> QED
  BY TypeInit, TypeStep, <1>1, PTL DEF Spec

-----------------------------------------------------------------------------
(* No entry is left behind.  NoOrphan is not inductive: removePeer deletes *)
(* one entry, so the invariant has to say that a connection owns none but  *)
(* those its client may register; and a handler that quits leaves its      *)
(* entries, so it has to say that handlers quit only inside Stop.          *)

OwnerMayRegister == \A id \in Registered : <<id, owner[id]>> \in MayRegister
QuitInStop       == \A g \in Routines : pc[g] = "quit" => phase = "stopping"
EmptyBeforeStart == phase = "new" => Registered = {}

OrphanInv == TypeInv /\ OwnerMayRegister /\ QuitInStop /\ EmptyBeforeStart /\ NoOrphan

LEMMA OrphanInit == Init => OrphanInv
BY TypeInit, ServerAssumption
   DEF Init, OrphanInv, OwnerMayRegister, QuitInStop, EmptyBeforeStart, NoOrphan, Registered

\* Most steps register nobody: they leave an entry as it is or delete it.
LEMMA KeepsOrphanInv ==
  ASSUME OrphanInv, TypeInv',
         phase' = phase,
         \A id \in Ids : owner'[id] \in {owner[id], NoConn},
         phase = "running" =>
           \A id \in Ids : owner'[id] # NoConn => pc'[owner[id]] \notin {"idle", "done"},
         \A g \in Routines : pc'[g] = "quit" => pc[g] = "quit" \/ phase = "stopping"
  PROVE  OrphanInv'
BY DEF OrphanInv, OwnerMayRegister, QuitInStop, EmptyBeforeStart, NoOrphan, Registered

\* A step that leaves the registry alone and ends no handler is one of them.
LEMMA KeepsServing ==
  ASSUME OrphanInv, TypeInv',
         phase' = phase, owner' = owner,
         \A c \in Conns : pc[c] \notin {"idle", "done"} => pc'[c] \notin {"idle", "done"},
         \A g \in Routines : pc'[g] = "quit" => pc[g] = "quit" \/ phase = "stopping"
  PROVE  OrphanInv'
<1>1. \A id \in Registered : owner[id] \in Conns
  BY DEF OrphanInv, TypeInv, TypeOK, Registered
<1>2. phase = "running" =>
        \A id \in Ids : owner'[id] # NoConn => pc'[owner[id]] \notin {"idle", "done"}
  BY <1>1 DEF OrphanInv, NoOrphan, Registered
<1> QED
  BY <1>2, KeepsOrphanInv

\* Ending a broadcast ends no handler.
LEMMA FinishServes ==
  ASSUME TypeOK, Up, NEW g \in Broadcasters, Finish(g)
  PROVE  /\ \A c \in Conns :
              pc[c] \notin {"idle", "done"} => pc'[c] \notin {"idle", "done"}
         /\ \A h \in Routines : pc'[h] = "quit" => pc[h] = "quit" \/ phase = "stopping"
BY DEF Finish, Goto, LoopTop, Up, TypeOK, Routines, Broadcasters

(* Every step but those of a crash or of Stop keeps each entry with a      *)
(* handler, as long as a client registers one ID per connection.           *)
LEMMA OrphanStep ==
  ASSUME OneIdPerConn, OrphanInv, [Next]_vars
  PROVE  OrphanInv'
<1>1. TypeInv'
  BY TypeStep DEF OrphanInv
<1>2. TypeOK
  BY DEF OrphanInv, TypeInv
<1> USE ServerAssumption
<1>3. CASE UNCHANGED vars
  BY <1>1, <1>3, KeepsServing DEF vars, registry
<1>4. CASE Next
  <2>1. ASSUME Start PROVE OrphanInv'
    BY <1>1, <2>1 DEF Start, OrphanInv, OwnerMayRegister, QuitInStop, EmptyBeforeStart,
                      NoOrphan, Registered, registry
  <2>2. ASSUME Stop PROVE OrphanInv'
    BY <1>1, <2>2 DEF Stop, OrphanInv, OwnerMayRegister, QuitInStop, EmptyBeforeStart,
                      NoOrphan, Registered, registry
  <2>3. ASSUME ConcurrentWritePanic PROVE OrphanInv'
    <3>1. phase' = "crashed" /\ \A g \in Routines : pc'[g] = "done"
      BY <2>3 DEF ConcurrentWritePanic
    <3>2. Registered' = {}
      BY <2>3 DEF ConcurrentWritePanic, Delete, Registered
    <3> QED
      BY <1>1, <3>1, <3>2 DEF OrphanInv, OwnerMayRegister, QuitInStop, EmptyBeforeStart,
                              NoOrphan
  <2>4. ASSUME CleanupDeadPeers PROVE OrphanInv'
    <3>1. \A id \in Ids : owner'[id] \in {owner[id], NoConn}
      BY <2>4 DEF CleanupDeadPeers, Delete
    <3>2. \A g \in Routines : pc'[g] \in {"left", pc[g]}
      BY <2>4 DEF CleanupDeadPeers
    <3>3. \A id \in Ids : owner'[id] # NoConn => id \in Registered /\ owner[id] \in Conns
      BY <1>2, <3>1 DEF Registered, TypeOK
    <3>4. phase = "running" =>
            \A id \in Ids : owner'[id] # NoConn => pc'[owner[id]] \notin {"idle", "done"}
      BY <3>2, <3>3 DEF OrphanInv, NoOrphan, Routines, Broadcasters
    <3>5. phase' = phase
      BY <2>4 DEF CleanupDeadPeers
    <3> QED
      BY <1>1, <3>1, <3>2, <3>4, <3>5, KeepsOrphanInv
  <2>5. ASSUME NEW c \in Conns, RemovePeer(c) PROVE OrphanInv'
    <3>1. PICK gone \in IF Owned(c) = {} THEN {{}} ELSE {{id} : id \in Owned(c)} :
                 /\ Delete(gone \ {EmptyId})
                 /\ pc' = [g \in Routines |->
                             IF g \in Leaving(gone \ {EmptyId}) THEN "left"
                             ELSE IF g = c THEN "done" ELSE pc[g]]
      BY <2>5 DEF RemovePeer
    <3>2. Owned(c) \subseteq gone \ {EmptyId}
      <4>1. \A id \in Owned(c) : <<id, c>> \in MayRegister
        BY DEF OrphanInv, OwnerMayRegister, Owned, Registered
      <4>2. \A id, jd \in Owned(c) : id # EmptyId /\ id = jd
        <5> TAKE id, jd \in Owned(c)
        <5>1. <<id, c>> \in MayRegister /\ <<jd, c>> \in MayRegister
          BY <4>1
        <5>2. <<id, c>>[1] # EmptyId /\ <<id, c>> = <<jd, c>>
          BY <5>1 DEF OneIdPerConn
        <5> QED
          BY <5>2
      <4> QED
        BY <3>1, <4>2
    <3>3. \A id \in Ids : owner'[id] \in {owner[id], NoConn}
      BY <3>1 DEF Delete
    <3>4. \A id \in Ids : owner'[id] # NoConn => owner[id] \in Conns \ {c}
      BY <1>2, <3>1, <3>2 DEF Delete, Owned, TypeOK
    <3>5. phase = "running" =>
            \A id \in Ids : owner'[id] # NoConn => pc'[owner[id]] \notin {"idle", "done"}
      BY <3>1, <3>3, <3>4 DEF OrphanInv, NoOrphan, Registered, Routines, Broadcasters
    <3>6. phase' = phase
      BY <2>5 DEF RemovePeer
    <3> QED
      BY <1>1, <3>1, <3>3, <3>5, <3>6, KeepsOrphanInv
  <2>6. ASSUME NEW c \in Conns, NEW id \in Ids, HandleRegister(c, id) PROVE OrphanInv'
    <3>1. /\ phase = "running" /\ phase' = phase
          /\ <<id, c>> \in MayRegister
          /\ owner' = [owner EXCEPT ![id] = c]
          /\ pc' = [pc EXCEPT ![c] = "list"]
      BY <2>6 DEF HandleRegister, MayLock, Goto
    <3>2. Registered' = Registered \cup {id}
      BY <1>2, <3>1 DEF Registered, TypeOK
    <3>3. OwnerMayRegister'
      BY <1>2, <3>1, <3>2 DEF OrphanInv, OwnerMayRegister, TypeOK
    <3>4. QuitInStop'
      BY <1>2, <3>1 DEF OrphanInv, QuitInStop, TypeOK
    <3>5. \A jd \in Registered' : owner'[jd] \in Conns
      BY <1>1, <3>2 DEF TypeInv, TypeOK, Registered
    <3>6. NoOrphan'
      BY <1>2, <3>1, <3>2, <3>5 DEF OrphanInv, NoOrphan, TypeOK, Routines, Broadcasters
    <3> QED
      BY <1>1, <3>1, <3>3, <3>4, <3>6 DEF OrphanInv, EmptyBeforeStart
  <2>7. ASSUME NEW c \in Conns, Quit(c) PROVE OrphanInv'
    <3>1. phase = "stopping" /\ phase' = phase /\ owner' = owner
      BY <2>7 DEF Quit, At, OrphanInv, QuitInStop, Routines, Broadcasters, registry
    <3> QED
      BY <1>1, <3>1, KeepsOrphanInv
  <2>8. ASSUME NEW c \in Conns,
               \/ Accept(c) \/ ReadLast(c) \/ SendPeerList(c) \/ WritePeerList(c)
               \/ HandlePing(c) \/ AnswerPing(c)
        PROVE  OrphanInv'
    <3>1. phase' = phase /\ owner' = owner
      BY <2>8 DEF Accept, ReadLast, SendPeerList, WritePeerList, HandlePing, AnswerPing,
                  registry
    <3>2. /\ \E l \in {"list", "reply", "joined", "answer", "read", "quit"} :
               pc' = [pc EXCEPT ![c] = l] /\ (l = "quit" => phase = "stopping")
      BY <2>8 DEF Accept, ReadLast, SendPeerList, WritePeerList, HandlePing, AnswerPing,
                  Goto, LoopTop, At, Up
    <3> QED
      BY <1>1, <1>2, <3>1, <3>2, KeepsServing DEF TypeOK
  <2>9. ASSUME NEW g \in Broadcasters, BroadcastStart(g) PROVE OrphanInv'
    <3>1. phase' = phase /\ owner' = owner /\ Up
      BY <2>9 DEF BroadcastStart, At, registry
    <3>2. CASE Finish(g)
      BY <1>1, <1>2, <3>1, <3>2, FinishServes, KeepsServing
    <3>3. CASE Goto(g, "bcast")
      BY <1>1, <1>2, <3>1, <3>3, KeepsServing DEF Goto, TypeOK
    <3> QED
      BY <2>9, <3>2, <3>3 DEF BroadcastStart
  <2>10. ASSUME NEW g \in Broadcasters, NEW id \in Ids, BroadcastWrite(g, id)
         PROVE  OrphanInv'
    <3>1. phase' = phase /\ owner' = owner /\ Up
      BY <2>10 DEF BroadcastWrite, At, registry
    <3>2. CASE Finish(g)
      BY <1>1, <1>2, <3>1, <3>2, FinishServes, KeepsServing
    <3>3. CASE pc' = pc
      BY <1>1, <3>1, <3>3, KeepsServing
    <3> QED
      BY <2>10, <3>2, <3>3 DEF BroadcastWrite
  <2>11. ASSUME HeartbeatStart \/ \E id \in Ids : HeartbeatWrite(id) PROVE OrphanInv'
    <3>1. phase' = phase /\ owner' = owner
      BY <2>11 DEF HeartbeatStart, HeartbeatWrite, registry
    <3>2. \A c \in Conns : pc'[c] = pc[c]
      BY <1>2, <2>11 DEF HeartbeatStart, HeartbeatWrite, Goto, TypeOK, Routines, Broadcasters
    <3>3. \A g \in Routines : pc'[g] \in {pc[g], "beat", "idle"}
      BY <1>2, <2>11 DEF HeartbeatStart, HeartbeatWrite, Goto, TypeOK
    <3> QED
      BY <1>1, <3>1, <3>2, <3>3, KeepsServing
  <2>12. ASSUME \/ Tick
                \/ \E c \in Conns : Break(c) \/ Stall(c) \/ Resume(c) \/ HandlePong(c)
         PROVE  OrphanInv'
    <3>1. phase' = phase /\ owner' = owner /\ pc' = pc
      BY <2>12 DEF Tick, Break, Stall, Resume, HandlePong, registry
    <3> QED
      BY <1>1, <3>1, KeepsServing
  <2> QED
    BY <1>4, <2>1, <2>2, <2>3, <2>4, <2>5, <2>6, <2>7, <2>8, <2>9, <2>10, <2>11, <2>12
    DEF Next, Silent, Network, Receive, Heartbeat
<1> QED
  BY <1>3, <1>4

(* While the server runs, every entry has a handler that will remove it,   *)
(* provided that clients register one ID per connection.                   *)
THEOREM NoOrphanCorrect == OneIdPerConn => (Spec => []NoOrphan)
<1> SUFFICES ASSUME OneIdPerConn PROVE Spec => []NoOrphan
  OBVIOUS
<1>1. OrphanInv /\ [Next]_vars => OrphanInv'
  BY OrphanStep
<1>2. OrphanInv => NoOrphan
  BY DEF OrphanInv
<1> QED
  BY OrphanInit, <1>1, <1>2, PTL DEF Spec

-----------------------------------------------------------------------------
(* Only the peers of connections that are gone are marked offline.         *)

OfflineInv == TypeInv /\ OfflineMeansGone

\* A step that takes nobody off the list, and lets no connection come back.
LEMMA KeepsOffline ==
  ASSUME OfflineInv, TypeInv',
         \A id \in Ids : owner'[id] \in {owner[id], NoConn},
         \A id \in Ids : id \in online /\ owner'[id] # NoConn => id \in online',
         \A c \in Conns : Gone(c) => Gone(c)'
  PROVE  OfflineInv'
<1>1. \A id \in Registered : owner[id] \in Conns
  BY DEF OfflineInv, TypeInv, TypeOK, Registered
<1> QED
  BY <1>1 DEF OfflineInv, OfflineMeansGone, Registered

LEMMA OfflineStep == OfflineInv /\ [Next]_vars => OfflineInv'
<1> SUFFICES ASSUME OfflineInv, [Next]_vars PROVE OfflineInv'
  OBVIOUS
<1>1. TypeInv'
  BY TypeStep DEF OfflineInv
<1>2. TypeOK
  BY DEF OfflineInv, TypeInv
<1> USE ServerAssumption
<1>3. CASE UNCHANGED vars
  BY <1>1, <1>3, KeepsOffline DEF vars, registry, network, Gone
<1>4. CASE Next
  <2>1. ASSUME NEW c \in Conns, NEW id \in Ids, HandleRegister(c, id) PROVE OfflineInv'
    <3>1. sock' = sock /\ owner' = [owner EXCEPT ![id] = c] /\ online' = online \cup {id}
      BY <2>1 DEF HandleRegister, Reads
    <3>2. \A jd \in Registered' \ online' : jd \in Registered \ online /\ owner'[jd] = owner[jd]
      BY <1>2, <3>1 DEF Registered, TypeOK
    <3> QED
      BY <1>1, <3>1, <3>2 DEF OfflineInv, OfflineMeansGone, Gone
  <2>2. ASSUME NEW id \in Ids, HeartbeatWrite(id) PROVE OfflineInv'
    <3>1. sock' = sock /\ owner' = owner
      BY <2>2 DEF HeartbeatWrite, network
    <3>2. \A jd \in online \ online' : Gone(owner[jd])
      BY <2>2 DEF HeartbeatWrite, WriteFails
    <3> QED
      BY <1>1, <3>1, <3>2 DEF OfflineInv, OfflineMeansGone, Registered, Gone
  <2>3. ASSUME NEW C, NEW gone, Close(C), Delete(gone) PROVE OfflineInv'
    <3>1. /\ \A id \in Ids : owner'[id] \in {owner[id], NoConn}
          /\ \A id \in Ids : id \in online /\ owner'[id] # NoConn => id \in online'
      BY <2>3 DEF Delete
    <3>2. \A c \in Conns : Gone(c) => Gone(c)'
      BY <2>3 DEF Close, Gone
    <3> QED
      BY <1>1, <3>1, <3>2, KeepsOffline
  <2>4. ASSUME CleanupDeadPeers \/ ConcurrentWritePanic \/ \E c \in Conns : RemovePeer(c)
        PROVE  OfflineInv'
    <3>1. \E C, gone : Close(C) /\ Delete(gone)
      BY <2>4 DEF CleanupDeadPeers, ConcurrentWritePanic, RemovePeer
    <3> QED
      BY <2>3, <3>1
  <2>5. ASSUME NEW c \in Conns, Accept(c) \/ Break(c) \/ Stall(c) \/ Resume(c) \/ Quit(c)
        PROVE  OfflineInv'
    <3>1. owner' = owner /\ online' = online
      BY <2>5 DEF Accept, Break, Stall, Resume, Quit, registry
    <3>2. ASSUME NEW k \in Conns, Gone(k) PROVE Gone(k)'
      <4>1. CASE Quit(c)
        BY <3>2, <4>1 DEF Quit, Close, Gone
      <4>2. CASE Accept(c) \/ Break(c)
        BY <1>2, <3>2, <4>2 DEF Accept, Break, Gone, TypeOK
      <4>3. CASE Stall(c) \/ Resume(c)
        BY <3>2, <4>3 DEF Stall, Resume, Gone
      <4> QED
        BY <2>5, <4>1, <4>2, <4>3
    <3> QED
      BY <1>1, <3>1, <3>2, KeepsOffline
  <2>6. ASSUME sock' = sock, owner' = owner, online' = online PROVE OfflineInv'
    BY <1>1, <2>6, KeepsOffline DEF Gone
  <2>7. ASSUME Start \/ Stop \/ Tick \/ HeartbeatStart PROVE OfflineInv'
    BY <2>6, <2>7 DEF Start, Stop, Tick, HeartbeatStart, network, registry
  <2>8. ASSUME NEW c \in Conns,
               \/ HandlePing(c) \/ HandlePong(c) \/ ReadLast(c)
               \/ SendPeerList(c) \/ WritePeerList(c) \/ AnswerPing(c)
        PROVE  OfflineInv'
    BY <2>6, <2>8 DEF HandlePing, HandlePong, ReadLast, Reads, SendPeerList, WritePeerList,
                      AnswerPing, network, registry
  <2>9. ASSUME NEW g \in Broadcasters, NEW id \in Ids,
               BroadcastStart(g) \/ BroadcastWrite(g, id)
        PROVE  OfflineInv'
    BY <2>6, <2>9 DEF BroadcastStart, BroadcastWrite, network, registry
  <2>10. ASSUME NEW g \in Broadcasters, BroadcastStart(g) PROVE OfflineInv'
    BY <2>6, <2>10 DEF BroadcastStart, network, registry
  <2> QED
    BY <1>4, <2>1, <2>2, <2>4, <2>5, <2>7, <2>8, <2>9, <2>10
    DEF Next, Silent, Network, Receive, Heartbeat
<1> QED
  BY <1>3, <1>4

(* The heartbeat hides no peer whose connection is up.                     *)
THEOREM OfflineCorrect == Spec => []OfflineMeansGone
<1>1. Init => OfflineInv
  BY TypeInit, ServerAssumption DEF Init, OfflineInv, OfflineMeansGone, Registered
<1>2. OfflineInv => OfflineMeansGone
  BY DEF OfflineInv
<1> QED
  BY <1>1, OfflineStep, <1>2, PTL DEF Spec

-----------------------------------------------------------------------------
(* An entry goes only with its connection, or when it is too old.          *)

RemovalAllowed ==
  phase' # "crashed" =>
    \A id \in Registered : owner'[id] = NoConn =>
      \/ Gone(owner[id]) /\ pc'[owner[id]] = "done"
      \/ age[id] > Timeout

LEMMA RemovalStep == TypeInv /\ [Next]_vars => RemovalAllowed
<1> SUFFICES ASSUME TypeInv, [Next]_vars PROVE RemovalAllowed
  OBVIOUS
<1>1. TypeOK
  BY DEF TypeInv
<1> USE ServerAssumption
<1>2. ASSUME owner' = owner PROVE RemovalAllowed
  BY <1>2 DEF RemovalAllowed, Registered
<1>3. CASE UNCHANGED vars
  BY <1>2, <1>3 DEF vars, registry
<1>4. CASE Next
  <2>1. ASSUME ConcurrentWritePanic PROVE RemovalAllowed
    BY <2>1 DEF ConcurrentWritePanic, RemovalAllowed
  <2>2. ASSUME CleanupDeadPeers PROVE RemovalAllowed
    BY <2>2 DEF CleanupDeadPeers, Delete, DeadPeers, RemovalAllowed, Registered
  <2>3. ASSUME NEW c \in Conns, RemovePeer(c) PROVE RemovalAllowed
    <3>1. PICK gone \in IF Owned(c) = {} THEN {{}} ELSE {{id} : id \in Owned(c)} :
                 /\ Delete(gone \ {EmptyId})
                 /\ pc' = [g \in Routines |->
                             IF g \in Leaving(gone \ {EmptyId}) THEN "left"
                             ELSE IF g = c THEN "done" ELSE pc[g]]
      BY <2>3 DEF RemovePeer
    <3>2. gone \subseteq Owned(c)
      BY <3>1
    <3>3. Leaving(gone \ {EmptyId}) \subseteq Ids \X Conns
      BY <3>2 DEF Leaving, Owned
    <3>4. pc'[c] = "done"
      BY <3>1, <3>3 DEF Routines, Broadcasters
    <3>5. Gone(c)
      BY <2>3 DEF RemovePeer, ReadFails
    <3> QED
      BY <3>1, <3>2, <3>4, <3>5 DEF Delete, Owned, Registered, RemovalAllowed
  <2>4. ASSUME NEW c \in Conns, NEW id \in Ids, HandleRegister(c, id) PROVE RemovalAllowed
    <3>1. owner' = [owner EXCEPT ![id] = c]
      BY <2>4 DEF HandleRegister
    <3> QED
      BY <1>1, <3>1 DEF RemovalAllowed, Registered, TypeOK
  <2>5. ASSUME Start \/ Stop \/ Tick \/ Heartbeat PROVE RemovalAllowed
    BY <1>2, <2>5 DEF Start, Stop, Tick, Heartbeat, HeartbeatStart, HeartbeatWrite, registry
  <2>6. ASSUME NEW c \in Conns,
               \/ Network(c) \/ HandlePing(c) \/ HandlePong(c) \/ ReadLast(c) \/ Quit(c)
               \/ SendPeerList(c) \/ WritePeerList(c) \/ AnswerPing(c)
        PROVE  RemovalAllowed
    BY <1>2, <2>6 DEF Network, Accept, Break, Stall, Resume, HandlePing, HandlePong,
                      ReadLast, Quit, SendPeerList, WritePeerList, AnswerPing, registry
  <2>7. ASSUME NEW g \in Broadcasters,
               BroadcastStart(g) \/ \E id \in Ids : BroadcastWrite(g, id)
        PROVE  RemovalAllowed
    BY <1>2, <2>7 DEF BroadcastStart, BroadcastWrite, registry
  <2> QED
    BY <1>4, <2>1, <2>2, <2>3, <2>4, <2>5, <2>6, <2>7 DEF Next, Silent, Receive
<1> QED
  BY <1>3, <1>4

(* Whatever the interleaving, no entry is removed on account of another    *)
(* connection: not of one whose ID was registered again since.             *)
THEOREM RemovalCorrect == Spec => RemovedForCause
<1>1. TypeInv /\ [Next]_vars => [RemovalAllowed]_vars
  BY RemovalStep
<1>2. Spec => [][RemovalAllowed]_vars
  BY TypeInit, TypeStep, <1>1, PTL DEF Spec
<1> QED
  BY <1>2 DEF RemovedForCause, RemovalAllowed
=============================================================================
