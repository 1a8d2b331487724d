----------------------- MODULE DiscoveryClientProofs -----------------------
(* Type correctness of DiscoveryClient; that the client never registers,   *)
(* since Connect waits for ever for the mutex it holds; and what this      *)
(* keeps from happening to its reader.                                     *)
EXTENDS DiscoveryClient, TLAPS

\* sendRegistration, once called, is still waiting for the mutex.
RegistrationWaits ==
  [][\A g \in Goroutines : pc[g] = "regCheck" => pc'[g] = "regCheck"]_vars

\* No registration has been sent on any connection.
NothingRegistered == registered = {}

\* Who dials or registers holds the mutex, nobody gets further, and the reader
\* of a websocket that has not been dialled has not started.
DialHolds ==
  /\ \A g \in Goroutines : pc[g] \in {"dial", "regCheck"} => holder = g
  /\ \A g \in Goroutines : pc[g] \notin {"regWrite", "regDone", "regFailed"}
  /\ \A c \in Conns : sock[c] = "idle" => pc[c] = "new"

IInv == TypeOK /\ DialHolds /\ NothingRegistered

LEMMA InitIInv == ASSUME ClientAssumption, Init PROVE IInv
<1>1. /\ \A g \in Callers : pc[g] = "idle"
      /\ \A c \in Conns : pc[c] = "new"
  BY DEF ClientAssumption, Init, Goroutines
<1>2. TypeOK
  BY DEF Init, TypeOK, Goroutines, Labels
<1>3. DialHolds
  BY <1>1 DEF DialHolds, Goroutines
<1> QED BY <1>2, <1>3 DEF Init, IInv, NothingRegistered

\* A step that is not a dial moves one goroutine on, to no place after a dial.
LEMMA GotoKeeps ==
  ASSUME ClientAssumption, IInv, NEW g \in Goroutines, NEW label \in Labels, Goto(g, label),
         label \notin {"regCheck", "regWrite", "regDone", "regFailed", "new"},
         pc[g] \notin {"new", "regCheck"},
         label = "dial" => holder' = g /\ Free,
         label # "dial" => holder' = holder \/ (pc[g] = "dial" /\ holder' = Nobody),
         \A c \in Conns : sock'[c] = "idle" => sock[c] = "idle",
         registered' = registered
  PROVE  /\ pc' \in [Goroutines -> Labels]
         /\ DialHolds' /\ NothingRegistered'
         /\ \A h \in Goroutines : pc[h] = "regCheck" => pc'[h] = "regCheck"
<1> USE DEF IInv, TypeOK, DialHolds, NothingRegistered, Goto
<1>1. pc' \in [Goroutines -> Labels] /\ pc'[g] = label
  OBVIOUS
<1>2. \A h \in Goroutines : h # g => pc'[h] = pc[h]
  OBVIOUS
<1>3. \A h \in Goroutines : pc'[h] \in {"dial", "regCheck"} => holder' = h
  <2> SUFFICES ASSUME NEW h \in Goroutines, pc'[h] \in {"dial", "regCheck"}
               PROVE  holder' = h
    OBVIOUS
  <2>1. CASE h = g BY <2>1, <1>1
  <2>2. CASE h # g
    <3>1. holder = h BY <1>2, <2>2
    <3>2. holder # Nobody BY <3>1 DEF ClientAssumption, Goroutines
    <3> QED BY <2>2, <3>1, <3>2 DEF Free
  <2> QED BY <2>1, <2>2
<1>4. \A c \in Conns : sock'[c] = "idle" => pc'[c] = "new"
  BY <1>1, <1>2 DEF Goroutines
<1> QED BY <1>1, <1>2, <1>3, <1>4

\* A step that moves no goroutine and leaves the mutex alone.
LEMMA StillKeeps ==
  ASSUME IInv, pc' = pc, holder' = holder, registered' = registered,
         \A c \in Conns : sock'[c] = "idle" => sock[c] = "idle"
  PROVE  /\ DialHolds' /\ NothingRegistered'
         /\ \A h \in Goroutines : pc[h] = "regCheck" => pc'[h] = "regCheck"
BY DEF IInv, DialHolds, NothingRegistered

LEMMA StepIInv ==
  ASSUME ClientAssumption, IInv, [Next]_vars
  PROVE  IInv' /\ \A h \in Goroutines : pc[h] = "regCheck" => pc'[h] = "regCheck"
<1> DEFINE Stays == \A h \in Goroutines : pc[h] = "regCheck" => pc'[h] = "regCheck"
<1> DEFINE Goal == IInv' /\ Stays
<1> SUFFICES Goal OBVIOUS
<1>t. TypeOK BY DEF IInv
<1>l. /\ \A g \in Goroutines : Home(g) \in {"idle", "loop"}
      /\ \A g \in Goroutines, ok \in BOOLEAN : AfterConnect(g, ok) \in {"idle", "loop", "retry"}
  BY DEF Home, AfterConnect
<1>1. ASSUME NEW g \in Goroutines, Connect(g) PROVE Goal
  <2> PICK label : Goto(g, label) /\ label \in {"idle", "loop", "retry", "dial"}
                   /\ (label = "dial" => holder' = g /\ Free)
                   /\ (label # "dial" => holder' = holder)
    BY <1>1, <1>l DEF Connect
  <2>1. pc' \in [Goroutines -> Labels] /\ DialHolds' /\ NothingRegistered' /\ Stays
    BY <1>1, GotoKeeps DEF Connect, Labels, network
  <2> QED BY <1>1, <1>t, <2>1 DEF Connect, IInv, TypeOK, client, network
<1>2. ASSUME NEW g \in Goroutines, DialFails(g) PROVE Goal
  <2>1. pc' \in [Goroutines -> Labels] /\ DialHolds' /\ NothingRegistered' /\ Stays
    BY <1>2, <1>l, GotoKeeps DEF DialFails, Labels, network
  <2> QED BY <1>2, <1>t, <2>1 DEF DialFails, IInv, TypeOK, client, network
<1>3. ASSUME NEW g \in Goroutines, NEW c \in Conns, DialSucceeds(g, c) PROVE Goal
  <2>1. pc[c] = "new" /\ pc[g] = "dial" /\ holder = g /\ holder' = g
    BY <1>3 DEF DialSucceeds, IInv, DialHolds
  <2>2. /\ pc' \in [Goroutines -> Labels]
        /\ pc'[g] = "regCheck" /\ pc'[c] = "loop"
        /\ \A h \in Goroutines : h \notin {g, c} => pc'[h] = pc[h]
    BY <1>3, <1>t, <2>1 DEF DialSucceeds, TypeOK, Labels, Goroutines
  <2>3. DialHolds'
    BY <1>3, <1>t, <2>1, <2>2 DEF DialSucceeds, IInv, DialHolds, TypeOK, Goroutines
  <2>4. Stays
    BY <2>1, <2>2
  <2>5. TypeOK' /\ NothingRegistered'
    BY <1>3, <2>2 DEF DialSucceeds, IInv, TypeOK, NothingRegistered
  <2> QED BY <2>3, <2>4, <2>5 DEF IInv
<1>4. ASSUME NEW g \in Goroutines, RegistrationDone(g) \/ RegistrationFailed(g) PROVE Goal
  BY <1>4 DEF RegistrationDone, RegistrationFailed, IInv, DialHolds
<1>5. ASSUME NEW g \in Callers, Disconnect(g) PROVE Goal
  <2>1. /\ pc' = pc /\ holder' = holder /\ registered' = registered
        /\ \A c \in Conns : sock'[c] = "idle" => sock[c] = "idle"
        /\ TypeOK'
    BY <1>5, <1>t DEF Disconnect, Panic, CloseConn, TypeOK, client, network
  <2> QED BY <2>1, StillKeeps DEF IInv
<1>6. ASSUME NEW g \in Callers, SendMessage(g) PROVE Goal
  <2>1. pc' \in [Goroutines -> Labels] /\ DialHolds' /\ NothingRegistered' /\ Stays
    BY <1>6, GotoKeeps DEF SendMessage, Labels, Goroutines, network
  <2> QED BY <1>6, <1>t, <2>1 DEF SendMessage, IInv, TypeOK, client, network
\* The mutex is not free while somebody registers.
<1>7. ASSUME NEW g \in Goroutines, CheckConnected(g) PROVE Goal
  <2>1. pc[g] # "regCheck"
    BY <1>7 DEF ClientAssumption, CheckConnected, Free, IInv, DialHolds, Goroutines
  <2>2. pc' \in [Goroutines -> Labels] /\ DialHolds' /\ NothingRegistered' /\ Stays
    BY <1>7, <1>l, <2>1, GotoKeeps DEF CheckConnected, Labels, network
  <2> QED BY <1>7, <1>t, <2>2 DEF CheckConnected, IInv, TypeOK, client, network
<1>8. ASSUME NEW g \in Goroutines, WriteMessage(g) PROVE Goal
  <2>1. pc[g] = "write"
    BY <1>8 DEF WriteMessage, IInv, DialHolds
  <2>2. CASE conn = NoConn
    BY <1>8, <1>t, <2>2, StillKeeps DEF WriteMessage, Panic, IInv, TypeOK, client, network
  <2>3. CASE conn # NoConn
    <3>1. pc' \in [Goroutines -> Labels] /\ DialHolds' /\ NothingRegistered' /\ Stays
      BY <1>8, <1>l, <2>1, <2>3, GotoKeeps DEF WriteMessage, Labels
    <3> QED BY <1>8, <1>t, <2>1, <2>3, <3>1 DEF WriteMessage, IInv, TypeOK, client
  <2> QED BY <2>2, <2>3
<1>9. ASSUME NEW c \in Conns,
             Loop(c) \/ MessageArrives(c) \/ HandleMessage(c) \/ UpdatePeers(c) \/ Retry(c)
      PROVE  Goal
  <2> c \in Goroutines BY DEF Goroutines
  <2>1. PICK label \in {"ended", "read", "handle", "loop", "check", "update", "sleep"} :
          Goto(c, label)
    BY <1>9 DEF Loop, MessageArrives, HandleMessage, UpdatePeers, Retry
  <2>2. pc[c] \in {"loop", "read", "handle", "update", "retry"}
    BY <1>9 DEF Loop, MessageArrives, HandleMessage, UpdatePeers, Retry
  <2>3. UNCHANGED <<holder, client, network, crashed>>
    BY <1>9 DEF Loop, MessageArrives, HandleMessage, UpdatePeers, Retry
  <2>4. reading' \in [Conns -> Conns \cup {NoConn}]
    BY <1>9, <1>t DEF Loop, MessageArrives, HandleMessage, UpdatePeers, Retry, TypeOK
  <2>5. pc' \in [Goroutines -> Labels] /\ DialHolds' /\ NothingRegistered' /\ Stays
    BY <2>1, <2>2, <2>3, GotoKeeps DEF Labels, network
  <2> QED BY <1>t, <2>3, <2>4, <2>5 DEF IInv, TypeOK, client, network
<1>10. ASSUME NEW c \in Conns, ReadFails(c) PROVE Goal
  <2> c \in Goroutines BY DEF Goroutines
  <2>1. CASE Panic
    BY <1>t, <2>1, StillKeeps DEF Panic, IInv, TypeOK, client, network
  <2>2. CASE ~Panic
    <3>1. pc' \in [Goroutines -> Labels] /\ DialHolds' /\ NothingRegistered' /\ Stays
      BY <1>10, <2>2, GotoKeeps DEF ReadFails, Labels
    <3>2. reads' \in [Conns -> Nat]
      BY <1>10, <1>t, <2>2 DEF ReadFails, TypeOK
    <3> QED BY <1>10, <1>t, <2>2, <3>1, <3>2 DEF ReadFails, IInv, TypeOK, client
  <2> QED BY <2>1, <2>2
<1>11. ASSUME NEW c \in Conns, Fails(c) PROVE Goal
  <2>1. /\ pc' = pc /\ holder' = holder /\ registered' = registered
        /\ \A d \in Conns : sock'[d] = "idle" => sock[d] = "idle"
        /\ TypeOK'
    BY <1>11, <1>t DEF Fails, TypeOK, client
  <2> QED BY <2>1, StillKeeps DEF IInv
<1>12. CASE UNCHANGED vars
  BY <1>12, <1>t, StillKeeps DEF vars, client, network, IInv, TypeOK
<1> QED BY <1>1, <1>2, <1>3, <1>4, <1>5, <1>6, <1>7, <1>8, <1>9, <1>10, <1>11, <1>12
        DEF Next, Step, Dialled, Reader

LEMMA IInvInvariant == ASSUME ClientAssumption PROVE Spec => []IInv
<1>1. IInv /\ [Next]_vars => IInv'
  BY StepIInv
<1> QED BY InitIInv, <1>1, PTL DEF Spec

\* Every variable of the client has its type.
THEOREM ClientTypes ==
  ASSUME ClientAssumption PROVE Spec => []TypeOK
<1>1. IInv => TypeOK BY DEF IInv
<1> QED BY IInvInvariant, <1>1, PTL

\* However many goroutines call the client, whatever the network does, with
\* reconnection or without: a Connect that has dialled never returns
\* (client.go:100, 168).
THEOREM ConnectNeverReturns ==
  ASSUME ClientAssumption PROVE Spec => RegistrationWaits
<1>1. IInv /\ [Next]_vars
      => [\A g \in Goroutines : pc[g] = "regCheck" => pc'[g] = "regCheck"]_vars
  BY StepIInv
<1> QED BY IInvInvariant, <1>1, PTL DEF Spec, RegistrationWaits

\* So the client sends no registration at all.
THEOREM ClientNeverRegisters ==
  ASSUME ClientAssumption PROVE Spec => []NothingRegistered
<1>1. IInv => NothingRegistered BY DEF IInv
<1> QED BY IInvInvariant, <1>1, PTL
-----------------------------------------------------------------------------
(* What the readers do meanwhile.                                          *)

\* The reader reads the websocket that it was started for.
ReadsItsOwn == \A c \in Conns : pc[c] = "read" => reading[c] = c

\* Once dialled, the client stays as it is: whoever dialled holds the mutex at
\* sendRegistration, no other websocket has a reader, and nobody gets past the
\* mutex.
OneDial ==
  /\ ~stopped
  /\ isConnected => conn # NoConn
  /\ conn # NoConn => holder # Nobody /\ pc[holder] = "regCheck"
  /\ \A c \in Conns : pc[c] # "new" => conn = c
  /\ \A c \in Conns : pc[c] \in {"new", "loop", "read", "handle", "retry", "sleep"}
  /\ \A g \in Goroutines : pc[g] # "write"

\* After one failed read a client that reconnects does not read again.
ReadsOnce == Reconnect => \A c \in Conns : pc[c] \in {"new", "loop", "read"} => reads[c] = 0

NoPanic == Reconnect /\ MaxReads > 0 => ~crashed

DialInv == OneDial /\ ReadsItsOwn /\ ReadsOnce /\ NoPanic

LEMMA InitDialInv == ASSUME ClientAssumption, Init PROVE DialInv
<1>1. /\ \A c \in Conns : pc[c] = "new" /\ reads[c] = 0
      /\ \A g \in Goroutines : pc[g] \in {"idle", "new"}
  BY DEF ClientAssumption, Init, Goroutines
<1> QED BY <1>1 DEF Init, DialInv, OneDial, ReadsItsOwn, ReadsOnce, NoPanic

\* A step that moves one goroutine and leaves the connection alone.
LEMMA MoveKeeps ==
  ASSUME ClientAssumption, IInv, DialInv, NEW g \in Goroutines, NEW label \in Labels, Goto(g, label),
         UNCHANGED client,
         pc[g] # "regCheck", label # "write",
         holder' = holder \/ conn = NoConn,
         g \in Conns => conn = g /\ label \in {"loop", "read", "handle", "retry", "sleep"},
         label = "read" => reading'[g] = g,
         g \in Conns /\ Reconnect /\ label \in {"loop", "read"} =>
           pc[g] \in {"loop", "read"} /\ reads'[g] = reads[g],
         \A c \in Conns \ {g} : reading'[c] = reading[c] /\ reads'[c] = reads[c],
         crashed' = crashed
  PROVE  DialInv'
<1>1. pc'[g] = label /\ \A h \in Goroutines \ {g} : pc'[h] = pc[h]
  BY DEF Goto, IInv, TypeOK
<1>2. Conns \subseteq Goroutines /\ NoConn \notin Conns
  BY DEF Goroutines, ClientAssumption
<1>3. OneDial'
  <2>1. conn' # NoConn => holder' # Nobody /\ pc'[holder'] = "regCheck"
    BY <1>1 DEF DialInv, OneDial, client, IInv, TypeOK
  <2> QED BY <1>1, <1>2, <2>1 DEF DialInv, OneDial, client
<1>4. ReadsItsOwn'
  BY <1>1, <1>2 DEF DialInv, ReadsItsOwn
<1>5. ReadsOnce'
  <2> SUFFICES ASSUME Reconnect, NEW c \in Conns, pc'[c] \in {"new", "loop", "read"}
               PROVE  reads'[c] = 0
    BY DEF ReadsOnce
  <2>1. CASE c = g BY <1>1, <2>1 DEF DialInv, ReadsOnce
  <2>2. CASE c # g BY <1>1, <1>2, <2>2 DEF DialInv, ReadsOnce
  <2> QED BY <2>1, <2>2
<1> QED BY <1>3, <1>4, <1>5 DEF DialInv, NoPanic

LEMMA StepDialInv == ASSUME ClientAssumption, IInv, DialInv, [Next]_vars PROVE DialInv'
<1>t. TypeOK /\ DialHolds BY DEF IInv
<1>c. Conns \subseteq Goroutines /\ NoConn \notin Conns /\ Nobody \notin Goroutines
  BY DEF Goroutines, ClientAssumption
\* Who finds the mutex free, or dials, finds no connection and no reader.
<1>f. ASSUME Free \/ \E g \in Goroutines : pc[g] = "dial"
      PROVE  /\ conn = NoConn /\ ~isConnected
             /\ \A c \in Conns : pc[c] = "new"
  BY <1>t, <1>c, <1>f DEF Free, DialInv, OneDial, DialHolds
<1>h. \A g \in Callers, ok \in BOOLEAN : Home(g) = "idle" /\ AfterConnect(g, ok) = "idle"
  BY DEF Home, AfterConnect
<1>1. ASSUME NEW g \in Goroutines, Connect(g) PROVE DialInv'
  <2>1. Free /\ g \in Callers /\ g \notin Conns /\ pc[g] = "idle"
    BY <1>1, <1>f, <1>c DEF Connect, Goroutines, ClientAssumption
  <2>2. Goto(g, "dial") /\ UNCHANGED <<client, reads, reading, crashed>>
    BY <1>1, <1>f, <2>1 DEF Connect, network
  <2> QED BY <1>f, <2>1, <2>2, MoveKeeps DEF Labels
<1>2. ASSUME NEW g \in Goroutines, DialFails(g) PROVE DialInv'
  <2>1. pc[g] = "dial" /\ g \in Callers /\ g \notin Conns
    BY <1>2, <1>f DEF DialFails, Goroutines, ClientAssumption
  <2>2. Goto(g, "idle") /\ UNCHANGED <<client, reads, reading, crashed>>
    BY <1>2, <1>h, <2>1 DEF DialFails, network
  <2> QED BY <1>f, <2>1, <2>2, MoveKeeps DEF Labels
<1>3. ASSUME NEW g \in Goroutines, NEW c \in Conns, DialSucceeds(g, c) PROVE DialInv'
  <2>1. pc[g] = "dial" /\ holder = g /\ g # c /\ g \notin Conns
    BY <1>3, <1>t, <1>f DEF DialSucceeds, DialHolds
  <2>2. /\ pc'[g] = "regCheck" /\ pc'[c] = "loop"
        /\ \A h \in Goroutines \ {g, c} : pc'[h] = pc[h]
    BY <1>3, <1>t, <1>c, <2>1 DEF DialSucceeds, TypeOK
  <2>3. /\ conn' = c /\ holder' = g /\ g # Nobody
        /\ UNCHANGED <<stopped, reads, reading, crashed>>
    BY <1>3, <1>c, <2>1 DEF DialSucceeds
  <2>4. \A d \in Conns : d # c => pc'[d] = "new"
    BY <1>c, <1>f, <2>1, <2>2
  <2>5. OneDial'
    BY <1>c, <2>1, <2>2, <2>3, <2>4 DEF DialInv, OneDial
  <2>6. ReadsItsOwn' /\ ReadsOnce'
    BY <1>f, <2>1, <2>2, <2>3, <2>4 DEF DialInv, ReadsItsOwn, ReadsOnce
  <2> QED BY <2>3, <2>5, <2>6 DEF DialInv, NoPanic
<1>4. ASSUME NEW g \in Goroutines, RegistrationDone(g) \/ RegistrationFailed(g) PROVE DialInv'
  BY <1>4, <1>t DEF RegistrationDone, RegistrationFailed, DialHolds
<1>5. ASSUME NEW g \in Callers, Disconnect(g) PROVE DialInv'
  BY <1>5, <1>f DEF Disconnect
<1>6. ASSUME NEW g \in Callers, SendMessage(g) PROVE DialInv'
  <2>1. g \in Goroutines /\ g \notin Conns
    BY DEF Goroutines, ClientAssumption
  <2> QED BY <1>6, <2>1, MoveKeeps DEF SendMessage, Labels, network
<1>7. ASSUME NEW g \in Goroutines, CheckConnected(g) PROVE DialInv'
  <2>1. Free /\ pc[g] = "check" /\ g \in Callers /\ g \notin Conns
    BY <1>7, <1>t, <1>c, <1>f DEF CheckConnected, Free, DialHolds, Goroutines, ClientAssumption
  <2>2. Goto(g, "idle") /\ UNCHANGED <<holder, client, reads, reading, crashed>>
    BY <1>7, <1>f, <1>h, <2>1 DEF CheckConnected, network
  <2> QED BY <2>1, <2>2, MoveKeeps DEF Labels
<1>8. ASSUME NEW g \in Goroutines, WriteMessage(g) PROVE DialInv'
  BY <1>8, <1>t DEF WriteMessage, DialHolds, DialInv, OneDial
<1>9. ASSUME NEW c \in Conns, Loop(c) \/ MessageArrives(c) \/ Retry(c) PROVE DialInv'
  <2>1. pc[c] \in {"loop", "read", "retry"} /\ conn = c /\ ~stopped
    BY <1>9 DEF Loop, MessageArrives, Retry, DialInv, OneDial
  <2>2. /\ UNCHANGED <<holder, client, reads, crashed>>
        /\ \A d \in Conns \ {c} : reading'[d] = reading[d]
    BY <1>9, <1>t DEF Loop, MessageArrives, Retry, network, TypeOK
  <2>3. \E label \in {"loop", "read", "handle", "sleep"} :
          /\ Goto(c, label)
          /\ label = "read" => reading'[c] = c
          /\ label \in {"loop", "read"} => pc[c] \in {"loop", "read"}
    BY <1>9, <1>t, <2>1 DEF Loop, MessageArrives, Retry, TypeOK
  <2> QED BY <1>c, <2>1, <2>2, <2>3, MoveKeeps DEF Labels
<1>10. ASSUME NEW c \in Conns, HandleMessage(c) \/ UpdatePeers(c) PROVE DialInv'
  BY <1>10, <1>f DEF HandleMessage, UpdatePeers
<1>11. ASSUME NEW c \in Conns, ReadFails(c) PROVE DialInv'
  <2>1. pc[c] = "read" /\ reading[c] = c /\ conn = c
    BY <1>11 DEF ReadFails, DialInv, OneDial, ReadsItsOwn
  <2>2. CASE reads[c] >= MaxReads
    <3>1. Panic
      BY <1>11, <2>1, <2>2 DEF ReadFails
    <3>2. NoPanic'
      BY <2>1, <2>2 DEF NoPanic, DialInv, ReadsOnce, ClientAssumption
    <3> QED BY <3>1, <3>2 DEF Panic, DialInv, OneDial, ReadsItsOwn, ReadsOnce, client, network
  <2>3. CASE ~(reads[c] >= MaxReads)
    <3>1. /\ Goto(c, IF Reconnect THEN "retry" ELSE "loop")
          /\ UNCHANGED <<holder, client, reading, crashed>>
          /\ \A d \in Conns \ {c} : reads'[d] = reads[d]
      BY <1>11, <1>t, <1>c, <2>1, <2>3 DEF ReadFails, TypeOK
    <3>2. CASE Reconnect
      BY <1>c, <2>1, <3>1, <3>2, MoveKeeps DEF Labels
    <3>3. CASE ~Reconnect
      BY <1>c, <2>1, <3>1, <3>3, MoveKeeps DEF Labels
    <3> QED BY <3>2, <3>3
  <2> QED BY <2>2, <2>3
<1>12. ASSUME NEW c \in Conns, Fails(c) PROVE DialInv'
  BY <1>12 DEF Fails, DialInv, OneDial, ReadsItsOwn, ReadsOnce, NoPanic, client
<1>13. CASE UNCHANGED vars
  BY <1>13 DEF vars, client, network, DialInv, OneDial, ReadsItsOwn, ReadsOnce, NoPanic
<1> QED BY <1>1, <1>2, <1>3, <1>4, <1>5, <1>6, <1>7, <1>8, <1>9, <1>10, <1>11, <1>12, <1>13
        DEF Next, Step, Dialled, Reader

LEMMA DialInvInvariant == ASSUME ClientAssumption PROVE Spec => []DialInv
<1>1. IInv /\ DialInv /\ [Next]_vars => DialInv'
  BY StepDialInv
<1> QED BY InitDialInv, IInvInvariant, <1>1, PTL DEF Spec

\* The unlocked read of c.conn in the loop (client.go:194) finds the connection
\* that the reader was started for, neither nil nor another one: Disconnect,
\* which sets it to nil, never finds the mutex free.
THEOREM ReaderKeepsItsConnection ==
  ASSUME ClientAssumption PROVE Spec => []ReadsItsOwn
<1>1. DialInv => ReadsItsOwn BY DEF DialInv
<1> QED BY DialInvInvariant, <1>1, PTL

\* With reconnection the process does not panic, neither by a write to nil nor
\* by the reads of a connection that has failed (client.go:180, 194): a reader
\* that has lost its connection waits in Connect for ever.
THEOREM ReconnectingNeverPanics ==
  ASSUME ClientAssumption, Reconnect, MaxReads > 0 PROVE Spec => []~crashed
<1>1. DialInv => ~crashed BY DEF DialInv, NoPanic
<1> QED BY DialInvInvariant, <1>1, PTL
=============================================================================
