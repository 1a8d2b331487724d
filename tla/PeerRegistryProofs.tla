------------------------- MODULE PeerRegistryProofs -------------------------
(* The discovery server implements the abstract registry. *)
EXTENDS DiscoveryServerProofs

\* A goroutine is in a loop under the read lock as long as it has an entry to
\* visit, so the abstract registry is watched whenever the lock is held; and
\* a handler starts from nothing.
WalkInv    == \A g \in Routines : pc[g] \in Looping <=> todo[g] # {}
NotDialled == \A c \in Conns : sock[c] = "idle" => pc[c] = "idle"

RegistryInv == TypeInv /\ WalkInv /\ NotDialled

LEMMA RegistryInvInit == Init => RegistryInv
BY TypeInit DEF Init, RegistryInv, WalkInv, NotDialled, Looping, Routines, Broadcasters

-----------------------------------------------------------------------------
LEMMA LoopTopOutside == LoopTop \in Labels \ Looping
BY DEF LoopTop, Labels, Looping

\* Steps that move goroutines outside the loops only.
LEMMA KeepsWalks ==
  ASSUME RegistryInv, TypeInv',
         todo' = todo,
         \A g \in Routines : pc'[g] \in Looping <=> pc[g] \in Looping,
         \A c \in Conns : sock'[c] = "idle" => sock[c] = "idle",
         \A c \in Conns : pc[c] = "idle" => pc'[c] = "idle" \/ sock'[c] # "idle"
  PROVE  RegistryInv'
BY DEF RegistryInv, WalkInv, NotDialled

\* Where a goroutine that ends a broadcast goes is outside the loops.
LEMMA FinishLeavesLoop ==
  ASSUME TypeOK, NEW g \in Broadcasters, Finish(g)
  PROVE  /\ pc'[g] \notin Looping
         /\ \A h \in Routines : h # g => pc'[h] = pc[h]
BY DEF Finish, Goto, LoopTop, TypeOK, Looping, Routines

\* Steps of one goroutine g that has work and goes on in its loop or out of it.
LEMMA OneWalks ==
  ASSUME RegistryInv, TypeInv', NEW g \in Routines,
         pc[g] # "idle" \/ g \notin Conns,
         sock' = sock,
         \A h \in Routines : h # g => pc'[h] = pc[h] /\ todo'[h] = todo[h],
         pc'[g] \in Looping <=> todo'[g] # {}
  PROVE  RegistryInv'
BY DEF RegistryInv, WalkInv, NotDialled, Routines, Broadcasters

\* Every step keeps the invariant.
LEMMA WalkStep == RegistryInv /\ [Next]_vars => RegistryInv'
<1> SUFFICES ASSUME RegistryInv, [Next]_vars PROVE RegistryInv'
  OBVIOUS
<1>1. TypeInv' /\ TypeOK
  BY TypeStep DEF RegistryInv, TypeInv
<1> USE ServerAssumption
<1>2. CASE UNCHANGED vars
  BY <1>1, <1>2, KeepsWalks DEF vars, network
<1>3. CASE Next
  <2>1. ASSUME Start \/ Stop \/ Tick PROVE RegistryInv'
    BY <1>1, <2>1, KeepsWalks DEF Start, Stop, Tick, network
  <2>2. ASSUME ConcurrentWritePanic PROVE RegistryInv'
    BY <1>1, <2>2 DEF ConcurrentWritePanic, Close, RegistryInv, WalkInv, NotDialled, Looping
  <2>3. ASSUME NEW c \in Conns, Break(c) \/ Stall(c) \/ Resume(c) PROVE RegistryInv'
    <3>1. \A d \in Conns : sock'[d] = "idle" => sock[d] = "idle"
      BY <1>1, <2>3 DEF Break, Stall, Resume, TypeOK
    <3> QED
      BY <1>1, <2>3, <3>1, KeepsWalks DEF Break, Stall, Resume
  <2>4. ASSUME NEW c \in Conns, Accept(c) PROVE RegistryInv'
    <3>1. pc[c] = "idle"
      BY <2>4 DEF Accept, RegistryInv, NotDialled
    <3>2. /\ \A g \in Routines : g # c => pc'[g] = pc[g]
          /\ pc'[c] \notin Looping
      BY <1>1, <2>4 DEF Accept, Goto, LoopTop, TypeOK, Looping, Routines, Broadcasters
    <3>3. \A d \in Conns : sock'[d] = IF d = c THEN "open" ELSE sock[d]
      BY <1>1, <2>4 DEF Accept, TypeOK
    <3>4. todo' = todo
      BY <2>4 DEF Accept
    <3> QED
      BY <1>1, <3>1, <3>2, <3>3, <3>4, KeepsWalks DEF Looping, Routines, Broadcasters
  <2>5. ASSUME NEW c \in Conns,
               \/ SendPeerList(c) \/ WritePeerList(c) \/ AnswerPing(c) \/ ReadLast(c)
               \/ HandlePing(c) \/ HandlePong(c)
               \/ \E id \in Ids : HandleRegister(c, id)
        PROVE  RegistryInv'
    <3>1. pc[c] \notin Looping /\ pc[c] # "idle"
      BY <2>5 DEF SendPeerList, WritePeerList, AnswerPing, ReadLast, HandlePing,
                  HandlePong, HandleRegister, Reads, At, Looping
    <3>2. pc' = pc \/ \E l \in Labels \ Looping : Goto(c, l)
      BY <2>5, LoopTopOutside
      DEF SendPeerList, WritePeerList, AnswerPing, ReadLast, HandlePing, HandlePong,
          HandleRegister, Labels, Looping
    <3>3. /\ \A g \in Routines : g # c => pc'[g] = pc[g]
          /\ pc'[c] \notin Looping
      BY <1>1, <3>1, <3>2 DEF Goto, TypeOK, Routines, Broadcasters
    <3>4. todo' = todo /\ sock' = sock
      BY <2>5 DEF SendPeerList, WritePeerList, AnswerPing, ReadLast, HandlePing,
                  HandlePong, HandleRegister, Reads, network
    <3>5. c \in Routines
      BY DEF Routines, Broadcasters
    <3> QED
      BY <1>1, <3>1, <3>3, <3>4, <3>5, OneWalks DEF RegistryInv, WalkInv
  <2>6. ASSUME NEW c \in Conns, Quit(c) PROVE RegistryInv'
    <3>1. /\ \A g \in Routines : g # c => pc'[g] = pc[g]
          /\ pc[c] \notin Looping /\ pc'[c] \notin Looping /\ pc[c] # "idle"
      BY <1>1, <2>6 DEF Quit, At, Goto, TypeOK, Looping, Routines, Broadcasters
    <3>2. \A d \in Conns : sock'[d] = "idle" => sock[d] = "idle"
      BY <1>1, <2>6 DEF Quit, Close, TypeOK
    <3>3. todo' = todo
      BY <2>6 DEF Quit
    <3> QED
      BY <1>1, <3>1, <3>2, <3>3, KeepsWalks DEF Routines, Broadcasters
  <2>7. ASSUME NEW c \in Conns, RemovePeer(c) PROVE RegistryInv'
    <3>1. PICK left : /\ CanAnnounce(left)
                      /\ pc' = [g \in Routines |->
                                  IF g \in Leaving(left) THEN "left"
                                  ELSE IF g = c THEN "done" ELSE pc[g]]
      BY <2>7 DEF RemovePeer
    <3>2. \A d \in Leaving(left) : d \in Leavers /\ pc[d] = "idle"
      BY <3>1 DEF CanAnnounce
    <3>3. pc[c] = "read"
      BY <2>7 DEF RemovePeer, ReadFails, At
    <3>4. \A g \in Routines : pc'[g] \in Looping <=> pc[g] \in Looping
      BY <3>1, <3>2, <3>3 DEF Looping
    <3>5. \A d \in Conns : sock'[d] = "idle" => sock[d] = "idle"
      BY <1>1, <2>7 DEF RemovePeer, Close, TypeOK
    <3>6. \A d \in Conns : pc[d] = "idle" => pc'[d] = "idle"
      BY <3>1, <3>2, <3>3 DEF Leavers, Routines, Broadcasters
    <3>7. todo' = todo
      BY <2>7 DEF RemovePeer
    <3> QED
      BY <1>1, <3>4, <3>5, <3>6, <3>7, KeepsWalks
  <2>8. ASSUME CleanupDeadPeers PROVE RegistryInv'
    <3>1. \A d \in Leaving(DeadPeers) : d \in Leavers /\ pc[d] = "idle"
      BY <2>8 DEF CleanupDeadPeers, CanAnnounce
    <3>2. pc' = [g \in Routines |-> IF g \in Leaving(DeadPeers) THEN "left" ELSE pc[g]]
      BY <2>8 DEF CleanupDeadPeers
    <3>3. \A g \in Routines : pc'[g] \in Looping <=> pc[g] \in Looping
      BY <3>1, <3>2 DEF Looping
    <3>4. \A d \in Conns : sock'[d] = "idle" => sock[d] = "idle"
      BY <1>1, <2>8 DEF CleanupDeadPeers, Close, TypeOK
    <3>5. \A d \in Conns : pc[d] = "idle" => pc'[d] = "idle"
      BY <3>1, <3>2 DEF Leavers, Routines, Broadcasters
    <3>6. todo' = todo
      BY <2>8 DEF CleanupDeadPeers
    <3> QED
      BY <1>1, <3>3, <3>4, <3>5, <3>6, KeepsWalks
  <2>9. ASSUME NEW g \in Broadcasters, BroadcastStart(g) PROVE RegistryInv'
    <3>1. g \in Routines /\ pc[g] # "idle"
      BY <2>9 DEF BroadcastStart, At, Routines
    <3>2. todo' = [todo EXCEPT ![g] = Registered] /\ sock' = sock
      BY <2>9 DEF BroadcastStart, network
    <3>3. CASE Registered = {} /\ Finish(g)
      BY <1>1, <3>1, <3>2, <3>3, FinishLeavesLoop, OneWalks DEF TypeOK
    <3>4. CASE Registered # {} /\ Goto(g, "bcast")
      BY <1>1, <3>1, <3>2, <3>4, OneWalks DEF Goto, TypeOK, Looping
    <3> QED
      BY <2>9, <3>3, <3>4 DEF BroadcastStart
  <2>10. ASSUME NEW g \in Broadcasters, NEW id \in Ids, BroadcastWrite(g, id)
         PROVE  RegistryInv'
    <3>1. g \in Routines /\ pc[g] = "bcast"
      BY <2>10 DEF BroadcastWrite, At, Routines
    <3>2. todo' = [todo EXCEPT ![g] = @ \ {id}] /\ sock' = sock /\ id \in todo[g]
      BY <2>10 DEF BroadcastWrite, network
    <3>3. CASE todo[g] = {id} /\ Finish(g)
      BY <1>1, <3>1, <3>2, <3>3, FinishLeavesLoop, OneWalks DEF TypeOK
    <3>4. CASE todo[g] # {id} /\ pc' = pc
      BY <1>1, <3>1, <3>2, <3>4, OneWalks DEF TypeOK, Looping
    <3> QED
      BY <2>10, <3>3, <3>4 DEF BroadcastWrite
  <2>11. ASSUME HeartbeatStart PROVE RegistryInv'
    <3>1. Heart \in Routines /\ Heart \notin Conns
      BY DEF Routines
    <3>2. todo' = [todo EXCEPT ![Heart] = Registered] /\ sock' = sock /\ Registered # {}
      BY <2>11 DEF HeartbeatStart, network
    <3> QED
      BY <1>1, <2>11, <3>1, <3>2, OneWalks DEF HeartbeatStart, Goto, TypeOK, Looping
  <2>12. ASSUME NEW id \in Ids, HeartbeatWrite(id) PROVE RegistryInv'
    <3>1. Heart \in Routines /\ Heart \notin Conns /\ pc[Heart] = "beat"
      BY <2>12 DEF HeartbeatWrite, At, Routines
    <3>2. todo' = [todo EXCEPT ![Heart] = @ \ {id}] /\ sock' = sock /\ id \in todo[Heart]
      BY <2>12 DEF HeartbeatWrite, network
    <3>3. CASE todo[Heart] = {id} /\ Goto(Heart, "idle")
      BY <1>1, <3>1, <3>2, <3>3, OneWalks DEF Goto, TypeOK, Looping
    <3>4. CASE todo[Heart] # {id} /\ pc' = pc
      BY <1>1, <3>1, <3>2, <3>4, OneWalks DEF TypeOK, Looping
    <3> QED
      BY <2>12, <3>3, <3>4 DEF HeartbeatWrite
  <2> QED
    <3> HIDE DEF RegistryInv
    <3> QED
      BY <1>3, <2>1, <2>2, <2>3, <2>4, <2>5, <2>6, <2>7, <2>8, <2>9, <2>10, <2>11, <2>12
      DEF Next, Silent, Network, Receive, Heartbeat
<1> QED
  BY <1>2, <1>3

-----------------------------------------------------------------------------
(* Refinement. *)

LEMMA RegistryStart == Init => Registry!Init
BY DEF Init, Registry!Init, Unannounced, Ended, Routines, Broadcasters

\* Steps that the abstract registry does not see.
LEMMA Unseen ==
  ASSUME owner' = owner, todo' = todo, Ended' = Ended,
         \A d \in Leavers : pc'[d] \in {"left", "bcast"} <=> pc[d] \in {"left", "bcast"}
  PROVE  UNCHANGED Registry!vars
BY DEF Registry!vars, Unannounced

\* Nobody is in a loop while the write lock is held.
LEMMA LockMeansUnwatched ==
  ASSUME RegistryInv, MayLock
  PROVE  Registry!Unwatched /\ ~Ended
BY DEF RegistryInv, WalkInv, MayLock, Readers, Registry!Unwatched, Ended

\* A removal under the lock, by whomever, leaves its announcements to be made.
LEMMA RemovalMaps ==
  ASSUME RegistryInv, MayLock, NEW gone \in SUBSET Registered,
         Delete(gone), CanAnnounce(gone),
         \A d \in Leavers : IF d \in Leaving(gone) THEN pc'[d] = "left" ELSE pc'[d] = pc[d],
         UNCHANGED <<phase, todo>>
  PROVE  Registry!Next
<1>1. Registry!Unwatched /\ ~Ended
  BY LockMeansUnwatched
<1>2. gone \subseteq Registry!Members /\ gone \in SUBSET Ids
  BY DEF Registered, Registry!Members
<1>3. owner' = [id \in Ids |-> IF id \in gone THEN NoConn ELSE owner[id]]
  BY DEF Delete
<1>4. /\ Leaving(gone) \subseteq Leavers \ Unannounced
      /\ Unannounced' = Unannounced \cup Leaving(gone)
  BY DEF CanAnnounce, Unannounced
<1>5. UNCHANGED <<todo, Ended>>
  BY DEF Ended
<1>6. Registry!Remove(gone)
  BY <1>1, <1>2, <1>3, <1>4, <1>5 DEF Registry!Remove, Leaving
<1> QED
  BY <1>2, <1>6 DEF Registry!Next

\* The first step of a walk over the entries, and every other one.
LEMMA StartMaps ==
  ASSUME RegistryInv, NEW g \in Routines,
         MayRLock, pc[g] \notin Looping,
         g \in Leavers => pc[g] = "left",
         todo' = [todo EXCEPT ![g] = Registered],
         UNCHANGED <<phase, owner>>,
         \A d \in Leavers \ {g} : pc'[d] = pc[d],
         g \in Leavers => pc'[g] = IF Registered = {} THEN "idle" ELSE "bcast"
  PROVE  Registry!Next
<1>1. Registered = Registry!Members
  BY DEF Registered, Registry!Members
<1>2. ~Ended /\ Ended' = Ended
  BY DEF MayRLock, Ended
<1>3. todo[g] = {}
  BY DEF RegistryInv, WalkInv
<1>4. g \in Leavers => g \in Unannounced
  BY DEF Unannounced
<1>5. Unannounced' = IF Registered = {} THEN Unannounced \ {g} ELSE Unannounced
  BY DEF Unannounced
<1>6. Registry!StartWalk(g)
  BY <1>1, <1>2, <1>3, <1>4, <1>5 DEF Registry!StartWalk, Registry!May
<1> QED
  BY <1>6 DEF Registry!Next

LEMMA VisitMaps ==
  ASSUME RegistryInv, NEW g \in Routines, NEW id \in todo[g],
         todo' = [todo EXCEPT ![g] = @ \ {id}],
         UNCHANGED <<phase, owner>>,
         \A d \in Leavers \ {g} : pc'[d] = pc[d],
         g \in Leavers => pc[g] = "bcast",
         g \in Leavers => pc'[g] = IF todo[g] = {id} THEN "idle" ELSE "bcast"
  PROVE  Registry!Next
<1>1. id \in Ids
  BY DEF RegistryInv, TypeInv, TypeOK
<1>2. Unannounced' = IF todo[g] = {id} THEN Unannounced \ {g} ELSE Unannounced
  BY DEF Unannounced
<1>3. Registry!Visit(g, id)
  BY <1>2 DEF Registry!Visit, Ended
<1> QED
  BY <1>1, <1>3 DEF Registry!Next

\* Every step of the server is a step of the abstract registry, or unseen.
LEMMA StepMaps == RegistryInv /\ [Next]_vars => [Registry!Next]_Registry!vars
<1> SUFFICES ASSUME RegistryInv, [Next]_vars PROVE Registry!Next \/ UNCHANGED Registry!vars
  OBVIOUS
<1>1. TypeOK
  BY DEF RegistryInv, TypeInv
<1>2. \A d \in Leavers : d \in Routines /\ d \notin Conns /\ d # Heart
  BY ServerAssumption DEF Leavers, Routines, Broadcasters
<1> DEFINE Seen == Registry!Next \/ UNCHANGED Registry!vars
<1>3. CASE UNCHANGED vars
  BY <1>3, Unseen DEF vars, registry, Ended
<1>4. CASE Next
  <2>1. ASSUME Start \/ Tick PROVE Seen
    BY <2>1, Unseen DEF Start, Tick, registry, Ended
  <2>2. ASSUME Stop PROVE Seen
    <3>1. Registry!Unwatched /\ ~Ended
      BY <2>2, LockMeansUnwatched DEF Stop
    <3>2. Ended' /\ UNCHANGED <<owner, todo, Unannounced>>
      BY <2>2 DEF Stop, Ended, Unannounced, registry
    <3> QED
      BY <3>1, <3>2 DEF Registry!Stop, Registry!Next
  <2>3. ASSUME ConcurrentWritePanic PROVE Seen
    <3>1. Ended' /\ Unannounced' = {}
      BY <1>2, <2>3 DEF ConcurrentWritePanic, Ended, Unannounced
    <3>2. owner' = [id \in Ids |-> NoConn] /\ todo' = [g \in Routines |-> {}]
      BY <2>3 DEF ConcurrentWritePanic, Delete
    <3> QED
      BY <3>1, <3>2 DEF Registry!Crash, Registry!Next
  <2>4. ASSUME NEW c \in Conns, Network(c) PROVE Seen
    BY <1>1, <1>2, <2>4, Unseen
    DEF Network, Accept, Break, Stall, Resume, Goto, TypeOK, registry, Ended
  <2>5. ASSUME NEW c \in Conns, NEW id \in Ids, HandleRegister(c, id) PROVE Seen
    <3>1. Registry!Unwatched /\ ~Ended
      BY <2>5, LockMeansUnwatched DEF HandleRegister
    <3>2. UNCHANGED <<todo, Ended, Unannounced>>
      BY <1>1, <1>2, <2>5 DEF HandleRegister, Goto, TypeOK, Ended, Unannounced
    <3>3. Registry!Join(id, c)
      BY <2>5, <3>1, <3>2 DEF HandleRegister, Registry!Join
    <3> QED
      BY <3>3 DEF Registry!Next
  <2>6. ASSUME NEW c \in Conns,
               \/ HandlePing(c) \/ HandlePong(c) \/ ReadLast(c) \/ SendPeerList(c)
               \/ WritePeerList(c) \/ AnswerPing(c) \/ Quit(c)
        PROVE  Seen
    <3>1. pc' = pc \/ \E l \in Labels : Goto(c, l)
      BY <2>6, LoopTopOutside
      DEF HandlePing, HandlePong, ReadLast, SendPeerList, WritePeerList, AnswerPing, Quit,
          Labels, Looping
    <3>2. \A d \in Leavers : pc'[d] = pc[d]
      BY <1>1, <1>2, <3>1 DEF Goto, TypeOK
    <3>3. UNCHANGED <<phase, owner, todo>>
      BY <2>6 DEF HandlePing, HandlePong, ReadLast, SendPeerList, WritePeerList,
                  AnswerPing, Quit, registry
    <3> QED
      BY <3>2, <3>3, Unseen DEF Ended
  <2>7. ASSUME NEW c \in Conns, RemovePeer(c) PROVE Seen
    <3>1. PICK left \in SUBSET Owned(c) :
                 /\ CanAnnounce(left)
                 /\ Delete(left)
                 /\ pc' = [g \in Routines |->
                             IF g \in Leaving(left) THEN "left"
                             ELSE IF g = c THEN "done" ELSE pc[g]]
      BY <2>7 DEF RemovePeer
    <3>2. left \in SUBSET Registered
      BY ServerAssumption DEF Owned, Registered
    <3>3. MayLock /\ UNCHANGED <<phase, todo>>
      BY <2>7 DEF RemovePeer
    <3> QED
      BY <1>2, <3>1, <3>2, <3>3, RemovalMaps
  <2>8. ASSUME CleanupDeadPeers PROVE Seen
    <3>1. DeadPeers \in SUBSET Registered
      BY DEF DeadPeers
    <3> QED
      BY <1>2, <2>8, <3>1, RemovalMaps DEF CleanupDeadPeers
  <2>9. ASSUME NEW g \in Broadcasters, BroadcastStart(g) PROVE Seen
    <3>1. \A d \in Leavers \ {g} : pc'[d] = pc[d]
      BY <1>1, <1>2, <2>9 DEF BroadcastStart, Finish, Goto, TypeOK
    <3>2. g \in Leavers => /\ pc[g] = "left"
                           /\ pc'[g] = IF Registered = {} THEN "idle" ELSE "bcast"
      BY <1>1, <1>2, <2>9 DEF BroadcastStart, At, Finish, Goto, TypeOK
    <3>3. pc[g] \notin Looping /\ g \in Routines
      BY <2>9 DEF BroadcastStart, At, Looping, Routines
    <3>4. /\ MayRLock
          /\ todo' = [todo EXCEPT ![g] = Registered]
          /\ UNCHANGED <<phase, owner>>
      BY <2>9 DEF BroadcastStart, registry
    <3> QED
      BY <3>1, <3>2, <3>3, <3>4, StartMaps
  <2>10. ASSUME NEW g \in Broadcasters, NEW id \in Ids, BroadcastWrite(g, id) PROVE Seen
    <3>1. \A d \in Leavers \ {g} : pc'[d] = pc[d]
      BY <1>1, <1>2, <2>10 DEF BroadcastWrite, Finish, Goto, TypeOK
    <3>2. g \in Leavers => /\ pc[g] = "bcast"
                           /\ pc'[g] = IF todo[g] = {id} THEN "idle" ELSE "bcast"
      BY <1>1, <1>2, <2>10 DEF BroadcastWrite, At, Finish, Goto, TypeOK
    <3>3. /\ id \in todo[g] /\ g \in Routines
          /\ todo' = [todo EXCEPT ![g] = @ \ {id}]
          /\ UNCHANGED <<phase, owner>>
      BY <2>10 DEF BroadcastWrite, registry, Routines
    <3> QED
      BY <3>1, <3>2, <3>3, VisitMaps
  <2>11. ASSUME HeartbeatStart PROVE Seen
    <3>1. /\ Heart \in Routines /\ Heart \notin Leavers
          /\ \A d \in Leavers : pc'[d] = pc[d]
      BY <1>1, <1>2, <2>11 DEF HeartbeatStart, Goto, TypeOK, Routines
    <3>2. /\ MayRLock /\ pc[Heart] \notin Looping
          /\ todo' = [todo EXCEPT ![Heart] = Registered]
          /\ UNCHANGED <<phase, owner>>
      BY <2>11 DEF HeartbeatStart, At, Looping, registry
    <3> QED
      BY <3>1, <3>2, StartMaps
  <2>12. ASSUME NEW id \in Ids, HeartbeatWrite(id) PROVE Seen
    <3>1. /\ Heart \in Routines /\ Heart \notin Leavers
          /\ \A d \in Leavers : pc'[d] = pc[d]
      BY <1>1, <1>2, <2>12 DEF HeartbeatWrite, Goto, TypeOK, Routines
    <3>2. /\ id \in todo[Heart]
          /\ todo' = [todo EXCEPT ![Heart] = @ \ {id}]
          /\ UNCHANGED <<phase, owner>>
      BY <2>12 DEF HeartbeatWrite
    <3> QED
      BY <3>1, <3>2, VisitMaps
  <2> QED
    BY <1>4, <2>1, <2>2, <2>3, <2>4, <2>5, <2>6, <2>7, <2>8, <2>9, <2>10, <2>11, <2>12
    DEF Next, Silent, Receive, Heartbeat
<1> QED
  BY <1>3, <1>4

(* The discovery server implements the abstract registry, for any number   *)
(* of peers, connections and goroutines.                                   *)
THEOREM ServerImplementsRegistry == Spec => ServerIsRegistry
<1>1. Spec => [][Registry!Next]_Registry!vars
  BY RegistryInvInit, WalkStep, StepMaps, PTL DEF Spec
<1> QED
  BY <1>1, RegistryStart, PTL DEF Spec, ServerIsRegistry, Registry!Spec
=============================================================================
