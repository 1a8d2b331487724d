------------------------ MODULE ConnectionPoolProofs ------------------------
(***************************************************************************)
(* Proofs about the pool of connections, for any number of peers,          *)
(* connections and callers and any limit.                                  *)
(***************************************************************************)
EXTENDS ConnectionPool, FiniteSetTheorems, TLAPS

\* A dial owns the pool's mutex: nobody else dials, there is room for one more
\* entry and no live entry to overwrite, from the checks to the insertion.
DialIsAlone ==
  \A g \in Callers : pc[g] = "dial" =>
    /\ call[g] # NoCall
    /\ ~Reusable(call[g].peer)
    /\ Cardinality(Entries) < limit
    /\ \A h \in Callers : pc[h] = "dial" => h = g

\* The sockets of the entries are open, and no two entries share one.
EntriesOpen ==
  /\ \A p \in Entries : sock[connections[p]] = "open"
  /\ \A p, q \in Entries : connections[p] = connections[q] => p = q

LiveHasEntry ==
  \A c \in Conns :
    connected[c] /\ sock[c] = "open" => \E p \in Peers : connections[p] = c

IInv ==
  /\ TypeOK
  /\ DialIsAlone
  /\ EntriesOpen
  /\ LiveHasEntry
  /\ IsFiniteSet(Entries)
  /\ PoolBound

-----------------------------------------------------------------------------
LEMMA CallType ==
  ASSUME NEW x \in Calls, x # NoCall PROVE x.op \in Methods /\ x.peer \in Peers
BY DEF Calls

LEMMA NoCallType == NoCall \in Calls
BY DEF Calls

LEMMA LimitType == ASSUME TypeOK PROVE limit \in Nat \ {0}
BY PoolAssumption DEF TypeOK

LEMMA InitIInv == Init => IInv
<1> SUFFICES ASSUME Init PROVE IInv
  OBVIOUS
<1>1. TypeOK
  BY NoCallType, PoolAssumption DEF Init, TypeOK, Working
<1>2. Entries = {}
  BY DEF Init, Entries
<1>3. IsFiniteSet(Entries) /\ PoolBound
  BY <1>1, <1>2, FS_EmptySet, LimitType DEF PoolBound
<1>4. DialIsAlone /\ EntriesOpen /\ LiveHasEntry
  BY <1>2 DEF Init, DialIsAlone, EntriesOpen, LiveHasEntry
<1> QED BY <1>1, <1>3, <1>4 DEF IInv

(* Steps of a caller that leave the map and the sockets alone and do not   *)
(* begin a dial: they can at most mark a connection as failed.             *)
LEMMA Preserved ==
  ASSUME IInv, TypeOK', limit' = limit,
         connections' = connections, sock' = sock,
         \A c \in Conns : connected'[c] => connected[c],
         \A g \in Callers : pc'[g] = "dial" => pc[g] = "dial" /\ call'[g] = call[g]
  PROVE  IInv'
<1>1. Entries' = Entries
  BY DEF Entries
<1>2. IsFiniteSet(Entries') /\ PoolBound'
  BY <1>1 DEF IInv, PoolBound
<1>3. EntriesOpen' /\ LiveHasEntry'
  BY <1>1 DEF IInv, EntriesOpen, LiveHasEntry
<1>4. DialIsAlone'
  <2> SUFFICES ASSUME NEW g \in Callers, pc'[g] = "dial"
               PROVE  /\ call'[g] # NoCall
                      /\ ~Reusable(call[g].peer)'
                      /\ Cardinality(Entries') < limit
                      /\ \A h \in Callers : pc'[h] = "dial" => h = g
    BY DEF DialIsAlone
  <2>1. /\ call'[g] = call[g] /\ call[g] # NoCall
        /\ ~Reusable(call[g].peer)
        /\ Cardinality(Entries) < limit
        /\ \A h \in Callers : pc[h] = "dial" => h = g
    BY DEF IInv, DialIsAlone
  <2>2. call[g].peer \in Peers
    BY <2>1, CallType DEF IInv, TypeOK
  <2>3. ~Reusable(call[g].peer)'
    BY <2>1, <2>2 DEF Reusable, IInv, TypeOK
  <2> QED BY <1>1, <2>1, <2>3
<1> QED BY <1>2, <1>3, <1>4 DEF IInv

(* Entries go together with their sockets, while nobody dials.             *)
LEMMA Removed ==
  ASSUME IInv, TypeOK', limit' = limit, PoolFree,
         \A g \in Callers : pc'[g] # "dial",
         NEW R \in SUBSET Entries,
         connections' = [p \in Peers |-> IF p \in R THEN None ELSE connections[p]],
         sock' = [c \in Conns |->
                    IF c \in {connections[p] : p \in R} THEN "closed" ELSE sock[c]],
         \A c \in Conns : connected'[c] => connected[c]
  PROVE  IInv'
<1>1. Entries' = Entries \ R
  BY DEF Entries
<1>2. IsFiniteSet(Entries') /\ PoolBound'
  <2>1. /\ IsFiniteSet(Entries')
        /\ Cardinality(Entries') <= Cardinality(Entries)
        /\ Cardinality(Entries') \in Nat /\ Cardinality(Entries) \in Nat
    BY <1>1, FS_Subset, FS_CardinalityType DEF IInv
  <2> QED BY <2>1, LimitType DEF IInv, PoolBound
<1>3. \A p \in Entries \ R : connections'[p] = connections[p] /\ connections[p] \in Conns
  BY DEF Entries, IInv, TypeOK
<1>4. \A p \in Entries \ R : connections[p] \notin {connections[q] : q \in R}
  BY DEF IInv, EntriesOpen
<1>5. EntriesOpen'
  BY <1>1, <1>3, <1>4 DEF IInv, EntriesOpen
<1>6. LiveHasEntry'
  <2> SUFFICES ASSUME NEW c \in Conns, connected'[c], sock'[c] = "open"
               PROVE  \E p \in Peers : connections'[p] = c
    BY DEF LiveHasEntry
  <2>1. c \notin {connections[p] : p \in R} /\ connected[c] /\ sock[c] = "open"
    OBVIOUS
  <2>2. PICK p \in Peers : connections[p] = c
    BY <2>1 DEF IInv, LiveHasEntry
  <2> QED BY <2>1, <2>2
<1>7. DialIsAlone'
  BY DEF DialIsAlone
<1> QED BY <1>2, <1>5, <1>6, <1>7 DEF IInv

-----------------------------------------------------------------------------
LEMMA ReturnType ==
  ASSUME TypeOK, NEW g \in Callers, Return(g)
  PROVE  /\ pc' \in [Callers -> {"idle", "enter", "dial"} \cup Working]
         /\ call' \in [Callers -> Calls]
         /\ ptr' \in [Callers -> Conns \cup {None}]
         /\ \A h \in Callers : (pc'[h] \in Working) = (ptr'[h] \in Conns)
         /\ \A h \in Callers : (pc'[h] = "idle") = (call'[h] = NoCall)
         /\ \A h \in Callers : pc'[h] = "dial" =>
              h # g /\ pc[h] = "dial" /\ call'[h] = call[h]
<1>1. /\ pc' = [pc EXCEPT ![g] = "idle"]
      /\ call' = [call EXCEPT ![g] = NoCall]
      /\ ptr' = [ptr EXCEPT ![g] = None]
  BY DEF Return, Goto
<1>2. /\ pc'[g] = "idle" /\ call'[g] = NoCall /\ ptr'[g] = None
      /\ \A h \in Callers \ {g} : pc'[h] = pc[h] /\ call'[h] = call[h] /\ ptr'[h] = ptr[h]
  BY <1>1 DEF TypeOK
<1>3. /\ pc' \in [Callers -> {"idle", "enter", "dial"} \cup Working]
      /\ call' \in [Callers -> Calls]
      /\ ptr' \in [Callers -> Conns \cup {None}]
  BY <1>1, NoCallType DEF TypeOK
<1>4. \A h \in Callers : (pc'[h] \in Working) = (ptr'[h] \in Conns)
  BY <1>2, PoolAssumption DEF TypeOK, Working
<1>5. \A h \in Callers : (pc'[h] = "idle") = (call'[h] = NoCall)
  BY <1>2 DEF TypeOK
<1> QED BY <1>2, <1>3, <1>4, <1>5

LEMMA BeginStep ==
  ASSUME IInv, limit' = limit, NEW g \in Callers, Begin(g)
  PROVE  IInv'
<1>1. PICK op \in Methods, p \in Peers :
        call' = [call EXCEPT ![g] = [op |-> op, peer |-> p]]
  BY DEF Begin
<1>2. pc[g] = "idle" /\ pc' = [pc EXCEPT ![g] = "enter"]
  BY DEF Begin, Goto
<1>3. [op |-> op, peer |-> p] \in Calls /\ [op |-> op, peer |-> p] # NoCall
  <2>1. op # "none"
    BY DEF Methods
  <2> QED BY <2>1 DEF Calls, NoCall
<1>4. TypeOK'
  BY <1>1, <1>2, <1>3 DEF Begin, IInv, TypeOK, Working
<1>5. \A h \in Callers : pc'[h] = "dial" => pc[h] = "dial" /\ call'[h] = call[h]
  BY <1>1, <1>2 DEF IInv, TypeOK
<1> QED BY <1>4, <1>5, Preserved DEF Begin

LEMMA ConnectReturnsStep ==
  ASSUME IInv, limit' = limit, NEW g \in Callers, ConnectReturns(g)
  PROVE  IInv'
<1>1. TypeOK'
  BY ReturnType DEF ConnectReturns, IInv, TypeOK
<1> QED BY <1>1, ReturnType, Preserved DEF ConnectReturns, IInv

LEMMA DialFailsStep ==
  ASSUME IInv, limit' = limit, NEW g \in Callers, DialFails(g)
  PROVE  IInv'
<1>1. TypeOK'
  BY ReturnType DEF DialFails, IInv, TypeOK
<1> QED BY <1>1, ReturnType, Preserved DEF DialFails, IInv

LEMMA ConnectDialsStep ==
  ASSUME IInv, limit' = limit, NEW g \in Callers, ConnectDials(g)
  PROVE  IInv'
<1>1. /\ pc[g] = "enter" /\ PoolFree /\ call[g] # NoCall
      /\ pc' = [pc EXCEPT ![g] = "dial"]
      /\ UNCHANGED <<connections, sock, connected, idle, call, ptr>>
  BY DEF ConnectDials, Enters, Goto, IInv, TypeOK
<1>2. TypeOK'
  BY <1>1 DEF IInv, TypeOK, Working
<1>3. Cardinality(Entries) < limit
  BY FS_CardinalityType, LimitType DEF ConnectDials, Full, IInv
<1>4. Entries' = Entries /\ (Reusable(call[g].peer)' = Reusable(call[g].peer))
  BY <1>1 DEF Entries, Reusable
<1>5. \A h \in Callers : pc'[h] = "dial" => h = g
  BY <1>1 DEF PoolFree, IInv, TypeOK
<1>6. DialIsAlone'
  BY <1>1, <1>3, <1>4, <1>5 DEF DialIsAlone, ConnectDials
<1>7. EntriesOpen' /\ LiveHasEntry' /\ IsFiniteSet(Entries') /\ PoolBound'
  BY <1>1, <1>4 DEF IInv, EntriesOpen, LiveHasEntry, PoolBound
<1> QED BY <1>2, <1>6, <1>7 DEF IInv

LEMMA DialSucceedsStep ==
  ASSUME IInv, limit' = limit, NEW g \in Callers, DialSucceeds(g)
  PROVE  IInv'
<1> DEFINE p == call[g].peer
<1>1. PICK c \in Conns :
        /\ sock[c] = "unused"
        /\ sock' = [sock EXCEPT ![c] = "open"]
        /\ connected' = [connected EXCEPT ![c] = TRUE]
        /\ connections' = [connections EXCEPT ![p] = c]
  BY DEF DialSucceeds
<1>2. /\ pc[g] = "dial" /\ call[g] # NoCall
      /\ ~Reusable(p)
      /\ Cardinality(Entries) < limit
      /\ \A h \in Callers : pc[h] = "dial" => h = g
  BY DEF DialSucceeds, IInv, DialIsAlone
<1>3. p \in Peers
  BY <1>2, CallType DEF IInv, TypeOK
<1> HIDE DEF p
<1>4. TypeOK'
  BY <1>1, <1>3, ReturnType DEF DialSucceeds, IInv, TypeOK
<1>5. /\ connections'[p] = c /\ \A q \in Peers \ {p} : connections'[q] = connections[q]
      /\ sock'[c] = "open" /\ \A d \in Conns \ {c} : sock'[d] = sock[d]
      /\ \A d \in Conns \ {c} : connected'[d] = connected[d]
  BY <1>1, <1>3 DEF IInv, TypeOK
<1>6. Entries' = Entries \cup {p}
  BY <1>3, <1>5, PoolAssumption DEF Entries
<1>7. IsFiniteSet(Entries') /\ PoolBound'
  <2>1. /\ IsFiniteSet(Entries \cup {p})
        /\ Cardinality(Entries \cup {p}) =
             IF p \in Entries THEN Cardinality(Entries) ELSE Cardinality(Entries) + 1
    BY FS_AddElement DEF IInv
  <2>2. Cardinality(Entries) \in Nat
    BY FS_CardinalityType DEF IInv
  <2>3. Cardinality(Entries \cup {p}) <= limit
    BY <1>2, <2>1, <2>2, LimitType DEF IInv
  <2> QED BY <1>6, <2>1, <2>3 DEF PoolBound
<1>8. \A q \in Entries : connections[q] # c /\ connections[q] \in Conns
  BY <1>1 DEF IInv, EntriesOpen, Entries, TypeOK
<1>9. EntriesOpen'
  BY <1>5, <1>6, <1>8 DEF IInv, EntriesOpen, Entries
<1>10. LiveHasEntry'
  <2> SUFFICES ASSUME NEW d \in Conns, connected'[d], sock'[d] = "open"
               PROVE  \E q \in Peers : connections'[q] = d
    BY DEF LiveHasEntry
  <2>1. CASE d = c
    BY <1>3, <1>5, <2>1
  <2>2. CASE d # c
    <3>1. PICK q \in Peers : connections[q] = d
      BY <1>5, <2>2 DEF IInv, LiveHasEntry
    <3>2. q # p
      BY <1>2, <1>5, <2>2, <3>1, PoolAssumption DEF Reusable
    <3> QED BY <1>5, <3>1, <3>2
  <2> QED BY <2>1, <2>2
<1>11. DialIsAlone'
  BY <1>2, ReturnType DEF DialSucceeds, IInv, DialIsAlone
<1> QED BY <1>4, <1>7, <1>9, <1>10, <1>11 DEF IInv

LEMMA DisconnectStep ==
  ASSUME IInv, limit' = limit, NEW g \in Callers, Disconnect(g)
  PROVE  IInv'
<1> DEFINE p == call[g].peer
           R == {p} \cap Entries
           gone == {connections[p]} \ {None}
<1>1. /\ PoolFree /\ pc[g] = "enter" /\ call[g] # NoCall
      /\ sock' = [c \in Conns |-> IF c \in gone THEN "closed" ELSE sock[c]]
      /\ connected' = [c \in Conns |-> connected[c] /\ c \notin gone]
      /\ connections' = [q \in Peers |-> IF q \in {p} THEN None ELSE connections[q]]
  BY DEF Disconnect, Enters, CloseSockets, MarkDead, RemoveEntries, IInv, TypeOK
<1>2. p \in Peers
  BY <1>1, CallType DEF IInv, TypeOK
<1>3. TypeOK'
  BY <1>1, <1>2, ReturnType DEF Disconnect, IInv, TypeOK
<1>4. connections' = [q \in Peers |-> IF q \in R THEN None ELSE connections[q]]
  BY <1>1, <1>2 DEF Entries
<1>5. gone = {connections[q] : q \in R}
  BY <1>2 DEF Entries
<1>6. \A h \in Callers : pc'[h] # "dial"
  BY <1>1, ReturnType DEF Disconnect, PoolFree, IInv
<1>7. \A c \in Conns : connected'[c] => connected[c]
  BY <1>1
<1>8. sock' = [c \in Conns |-> IF c \in {connections[q] : q \in R} THEN "closed" ELSE sock[c]]
  BY <1>1, <1>5
<1>9. R \in SUBSET Entries
  OBVIOUS
<1> HIDE DEF p, R, gone
<1> QED BY <1>1, <1>3, <1>4, <1>6, <1>7, <1>8, <1>9, Removed

LEMMA LookupStep ==
  ASSUME IInv, limit' = limit, NEW g \in Callers, Lookup(g)
  PROVE  IInv'
<1> DEFINE c == connections[call[g].peer]
<1>1. CASE c = None
  <2>1. Return(g)
    BY <1>1 DEF Lookup, GetConnection
  <2>2. TypeOK'
    BY <2>1, ReturnType DEF Lookup, IInv, TypeOK
  <2> QED BY <2>1, <2>2, ReturnType, Preserved DEF Lookup, IInv
<1>2. CASE c # None
  <2>1. /\ pc[g] = "enter" /\ call[g] # NoCall
        /\ pc' = [pc EXCEPT ![g] = "lock"]
        /\ ptr' = [ptr EXCEPT ![g] = c] /\ call' = call
        /\ UNCHANGED <<connections, sock, connected, idle>>
    BY <1>2 DEF Lookup, Enters, GetConnection, Goto, IInv, TypeOK
  <2>2. call[g].peer \in Peers
    BY <2>1, CallType DEF IInv, TypeOK
  <2>3. c \in Conns
    BY <1>2, <2>2 DEF IInv, TypeOK
  <2> HIDE DEF c
  <2>4. TypeOK'
    BY <2>1, <2>3 DEF IInv, TypeOK, Working
  <2>5. \A h \in Callers : pc'[h] = "dial" => pc[h] = "dial" /\ call'[h] = call[h]
    BY <2>1 DEF IInv, TypeOK
  <2> QED BY <2>1, <2>4, <2>5, Preserved
<1> QED BY <1>1, <1>2

LEMMA LockStep ==
  ASSUME IInv, limit' = limit, NEW g \in Callers, Lock(g)
  PROVE  IInv'
<1>1. CASE Return(g)
  <2>1. TypeOK'
    BY <1>1, ReturnType DEF Lock, IInv, TypeOK
  <2> QED BY <1>1, <2>1, ReturnType, Preserved DEF Lock, IInv
<1>2. CASE ~Return(g)
  <2>1. PICK label \in {"read", "write"} :
          /\ pc[g] = "lock" /\ pc' = [pc EXCEPT ![g] = label]
          /\ UNCHANGED <<connections, sock, connected, idle, call, ptr>>
    BY <1>2 DEF Lock, Goto
  <2>2. TypeOK'
    BY <2>1 DEF IInv, TypeOK, Working
  <2>3. \A h \in Callers : pc'[h] = "dial" => pc[h] = "dial" /\ call'[h] = call[h]
    BY <2>1 DEF IInv, TypeOK
  <2> QED BY <2>1, <2>2, <2>3, Preserved
<1> QED BY <1>1, <1>2

LEMMA InOutStep ==
  ASSUME IInv, limit' = limit, NEW g \in Callers, InOut(g)
  PROVE  IInv'
<1>1. /\ connections' = connections /\ sock' = sock
      /\ connected' \in [Conns -> BOOLEAN] /\ idle' \in [Conns -> BOOLEAN]
      /\ \A c \in Conns : connected'[c] => connected[c]
  BY DEF InOut, WriteSucceeds, WriteFails, ReadSucceeds, ReadFails, Seen, Failed,
     MarkDead, IInv, TypeOK
<1>2. CASE Return(g)
  <2>1. TypeOK'
    BY <1>1, <1>2, ReturnType DEF IInv, TypeOK
  <2> QED BY <1>1, <1>2, <2>1, ReturnType, Preserved DEF IInv
<1>3. CASE ~Return(g)
  <2>1. /\ pc[g] = "write" /\ pc' = [pc EXCEPT ![g] = "read"]
        /\ call' = call /\ ptr' = ptr
    BY <1>3 DEF InOut, WriteSucceeds, WriteFails, ReadSucceeds, ReadFails, Goto
  <2>2. TypeOK'
    BY <1>1, <2>1 DEF IInv, TypeOK, Working
  <2>3. \A h \in Callers : pc'[h] = "dial" => pc[h] = "dial" /\ call'[h] = call[h]
    BY <2>1 DEF IInv, TypeOK
  <2> QED BY <1>1, <2>2, <2>3, Preserved
<1> QED BY <1>2, <1>3

LEMMA AgeStep == ASSUME IInv, limit' = limit, NEW c \in Conns, Age(c) PROVE IInv'
<1>1. TypeOK'
  BY DEF Age, IInv, TypeOK
<1> QED BY <1>1, Preserved DEF Age

LEMMA CleanupStep == ASSUME IInv, limit' = limit, Cleanup PROVE IInv'
<1> DEFINE R == {p \in Entries : idle[connections[p]]}
<1>1. /\ PoolFree /\ UNCHANGED <<connected, idle, pc, call, ptr>>
      /\ connections' = [p \in Peers |-> IF p \in R THEN None ELSE connections[p]]
      /\ sock' = [c \in Conns |->
                    IF c \in {connections[p] : p \in R} THEN "closed" ELSE sock[c]]
  BY DEF Cleanup, CloseSockets, RemoveEntries
<1>2. R \in SUBSET Entries
  OBVIOUS
<1> HIDE DEF R
<1>3. TypeOK'
  BY <1>1 DEF IInv, TypeOK
<1> QED BY <1>1, <1>2, <1>3, Removed DEF PoolFree

LEMMA CloseStep == ASSUME IInv, limit' = limit, Close PROVE IInv'
<1> DEFINE all == {connections[p] : p \in Entries}
<1>1. /\ PoolFree /\ UNCHANGED <<idle, pc, call, ptr>>
      /\ sock' = [c \in Conns |-> IF c \in all THEN "closed" ELSE sock[c]]
      /\ connected' = [c \in Conns |-> connected[c] /\ c \notin all]
      /\ connections' = [p \in Peers |-> IF p \in Peers THEN None ELSE connections[p]]
  BY DEF Close, CloseSockets, MarkDead, RemoveEntries
<1>2. connections' = [p \in Peers |-> IF p \in Entries THEN None ELSE connections[p]]
  BY <1>1 DEF Entries
<1>3. TypeOK'
  BY <1>1 DEF IInv, TypeOK
<1>4. \A c \in Conns : connected'[c] => connected[c]
  BY <1>1
<1> QED BY <1>1, <1>2, <1>3, <1>4, Removed DEF PoolFree

LEMMA StepIInv == IInv /\ [Next]_vars => IInv'
<1> SUFFICES ASSUME IInv, [Next]_vars PROVE IInv'
  OBVIOUS
<1>0. limit' = limit
  BY DEF Next, vars
<1>1. ASSUME NEW g \in Callers, Caller(g) PROVE IInv'
  BY <1>0, <1>1, BeginStep, ConnectReturnsStep, ConnectDialsStep, DisconnectStep, LookupStep,
     DialSucceedsStep, DialFailsStep, LockStep, InOutStep DEF Caller, Enter
<1>2. ASSUME NEW c \in Conns, Age(c) PROVE IInv'
  BY <1>0, <1>2, AgeStep
<1>3. CASE Cleanup
  BY <1>0, <1>3, CleanupStep
<1>4. CASE Close
  BY <1>0, <1>4, CloseStep
<1>5. CASE UNCHANGED vars
  <2>1. TypeOK'
    BY <1>5 DEF vars, poolVars, IInv, TypeOK
  <2> QED BY <1>5, <2>1, Preserved DEF vars, poolVars
<1> QED BY <1>1, <1>2, <1>3, <1>4, <1>5 DEF Next

LEMMA AlwaysIInv == Spec => []IInv
BY InitIInv, StepIInv, PTL DEF Spec

-----------------------------------------------------------------------------
(* Every variable has its type, and a caller that works on a connection    *)
(* has one.                                                                *)
THEOREM PoolTypes == Spec => []TypeOK
<1>1. IInv => TypeOK
  BY DEF IInv
<1> QED BY <1>1, AlwaysIInv, PTL

(* The limit holds with any number of concurrent callers, because the      *)
(* pool's mutex is held from the check to the insertion.                   *)
THEOREM PoolNeverOverfull == Spec => []PoolBound
<1>1. IInv => PoolBound
  BY DEF IInv
<1> QED BY <1>1, AlwaysIInv, PTL

(* What the pool hands out as active has not been closed by the pool.      *)
THEOREM ActiveMeansOpen == Spec => []ConnectedIsOpen
<1>1. IInv => ConnectedIsOpen
  BY DEF IInv, EntriesOpen, ConnectedIsOpen
<1> QED BY <1>1, AlwaysIInv, PTL

(* No live connection is left behind by Connect, Disconnect, Cleanup or    *)
(* Close.                                                                  *)
THEOREM LiveConnectionsTracked == Spec => []LiveIsTracked
<1>1. IInv => LiveIsTracked
  <2> SUFFICES ASSUME IInv, NEW c \in Conns, connected[c], sock[c] = "open"
               PROVE  \E p \in Peers : \A q \in Peers : (connections[q] = c) = (q = p)
    BY DEF LiveIsTracked
  <2>1. PICK p \in Peers : connections[p] = c
    BY DEF IInv, LiveHasEntry
  <2>2. \A q \in Peers : connections[q] = c => q = p
    BY <2>1, PoolAssumption DEF IInv, EntriesOpen, Entries
  <2> QED BY <2>1, <2>2
<1> QED BY <1>1, AlwaysIInv, PTL

(* A connection is marked dead only by its closing or by a failed read or  *)
(* write of its own.                                                       *)
THEOREM DeadOnlyForCause == Spec => DeadForCause
<1> DEFINE A == \A c \in Conns :
                  connected[c] /\ ~connected'[c] =>
                    \/ sock'[c] = "closed"
                    \/ \E g \in Callers : pc[g] \in {"write", "read"} /\ ptr[g] = c
<1>1. ASSUME IInv, [Next]_vars, NEW c \in Conns, connected[c], ~connected'[c]
      PROVE  \/ sock'[c] = "closed"
             \/ \E g \in Callers : pc[g] \in {"write", "read"} /\ ptr[g] = c
  <2>1. ASSUME NEW g \in Callers, InOut(g)
        PROVE  pc[g] \in {"write", "read"} /\ ptr[g] = c
    BY <1>1, <2>1 DEF InOut, WriteSucceeds, WriteFails, ReadSucceeds, ReadFails,
       Failed, MarkDead
  <2>2. ASSUME NEW g \in Callers, Disconnect(g) PROVE sock'[c] = "closed"
    BY <1>1, <2>2 DEF Disconnect, MarkDead, CloseSockets
  <2>3. ASSUME Close PROVE sock'[c] = "closed"
    BY <1>1, <2>3 DEF Close, MarkDead, CloseSockets
  <2>4. ASSUME NEW g \in Callers, DialSucceeds(g) PROVE FALSE
    BY <1>1, <2>4 DEF DialSucceeds, IInv, TypeOK
  <2>5. ASSUME NEW g \in Callers,
               \/ Begin(g) \/ ConnectReturns(g) \/ ConnectDials(g) \/ Lookup(g)
               \/ DialFails(g) \/ Lock(g)
        PROVE FALSE
    BY <1>1, <2>5 DEF Begin, ConnectReturns, ConnectDials, Lookup, DialFails, Lock
  <2>6. ASSUME NEW d \in Conns, Age(d) PROVE FALSE
    BY <1>1, <2>6 DEF Age
  <2>7. ASSUME Cleanup PROVE FALSE
    BY <1>1, <2>7 DEF Cleanup
  <2>8. ASSUME UNCHANGED vars PROVE FALSE
    BY <1>1, <2>8 DEF vars, poolVars
  <2> QED BY <1>1, <2>1, <2>2, <2>3, <2>4, <2>5, <2>6, <2>7, <2>8
      DEF Next, Caller, Enter
<1>2. IInv /\ [Next]_vars => [A]_vars
  BY <1>1
<1> QED BY <1>2, AlwaysIInv, PTL DEF Spec, DeadForCause

-----------------------------------------------------------------------------
(* The pool as a table of links.                                           *)
LEMMA InitMaps == Init => Table!Init
BY DEF Init, Table!Init, Live, Used

(* Steps that the table does not see.                                      *)
LEMMA Unseen ==
  ASSUME limit' = limit, connections' = connections, sock' = sock, connected' = connected
  PROVE  UNCHANGED Table!vars
BY DEF Table!vars, Live, Used

(* A connection may be marked as failed, one at most.                      *)
LEMMA FailMaps ==
  ASSUME IInv, limit' = limit, connections' = connections, sock' = sock,
         NEW c \in Conns, connected' = connected \/ MarkDead({c})
  PROVE  Table!Next \/ UNCHANGED Table!vars
<1>1. Used' = Used
  BY DEF Used
<1>2. CASE connected' = connected
  BY <1>2, Unseen
<1>3. CASE MarkDead({c}) /\ c \in Live
  <2>1. Live' = Live \ {c}
    BY <1>3 DEF MarkDead, Live
  <2>2. Table!Fail(c)
    BY <1>1, <2>1 DEF Table!Fail
  <2> QED BY <1>3, <2>2 DEF Table!Next
<1>4. CASE MarkDead({c}) /\ c \notin Live
  <2>1. Live' = Live
    BY <1>4 DEF MarkDead, Live
  <2> QED BY <1>1, <2>1 DEF Table!vars
<1> QED BY <1>2, <1>3, <1>4

(* Entries are removed and their sockets closed; they may be marked too.   *)
LEMMA RemoveMaps ==
  ASSUME IInv, limit' = limit,
         NEW R \in SUBSET Entries,
         connections' = [p \in Peers |-> IF p \in R THEN None ELSE connections[p]],
         sock' = [c \in Conns |->
                    IF c \in {connections[p] : p \in R} THEN "closed" ELSE sock[c]],
         \A c \in Conns :
           connected'[c] = connected[c] \/ c \in {connections[p] : p \in R}
  PROVE  Table!Next
<1> DEFINE closed == {connections[p] : p \in R}
<1>1. Used' = Used
  <2>1. \A c \in closed : sock[c] = "open"
    BY DEF IInv, EntriesOpen
  <2> QED BY <2>1 DEF Used
<1>2. Live' = Live \ closed
  BY DEF Live
<1>3. R \subseteq Table!Occupied /\ R \in SUBSET Peers
  BY DEF Entries, Table!Occupied
<1>4. Table!Remove(R)
  BY <1>1, <1>2, <1>3 DEF Table!Remove
<1> QED BY <1>3, <1>4 DEF Table!Next

(* The dial ends while nobody else can touch the map.                      *)
LEMMA AddMaps ==
  ASSUME IInv, limit' = limit, NEW g \in Callers, DialSucceeds(g)
  PROVE  Table!Next
<1> DEFINE p == call[g].peer
<1>1. PICK c \in Conns :
        /\ sock[c] = "unused"
        /\ sock' = [sock EXCEPT ![c] = "open"]
        /\ connected' = [connected EXCEPT ![c] = TRUE]
        /\ connections' = [connections EXCEPT ![p] = c]
  BY DEF DialSucceeds
<1>2. call[g] # NoCall /\ ~Reusable(p) /\ Cardinality(Entries) < limit
  BY DEF DialSucceeds, IInv, DialIsAlone
<1>3. p \in Peers
  BY <1>2, CallType DEF IInv, TypeOK
<1> HIDE DEF p
<1>4. Live' = Live \cup {c} /\ Used' = Used \cup {c} /\ c \notin Used
  BY <1>1 DEF Live, Used, IInv, TypeOK
<1>5. connections[p] \notin Live
  BY <1>2, PoolAssumption DEF Reusable, Live
<1>6. Table!Occupied = Entries
  BY DEF Table!Occupied, Entries
<1>7. Table!Cardinality(Table!Occupied) = Cardinality(Entries)
  BY <1>6, Zenon DEF Table!Cardinality, Cardinality
<1>8. Table!Add(p, c)
  BY <1>1, <1>2, <1>4, <1>5, <1>7 DEF Table!Add
<1> QED BY <1>3, <1>8 DEF Table!Next

LEMMA CallerMaps ==
  ASSUME IInv, limit' = limit, NEW g \in Callers, Caller(g)
  PROVE  Table!Next \/ UNCHANGED Table!vars
<1>1. CASE \/ Begin(g) \/ ConnectReturns(g) \/ ConnectDials(g) \/ Lookup(g)
           \/ DialFails(g) \/ Lock(g)
  BY <1>1, Unseen DEF Begin, ConnectReturns, ConnectDials, Lookup, DialFails, Lock
<1>2. CASE DialSucceeds(g)
  BY <1>2, AddMaps
<1>3. CASE InOut(g)
  <2>1. /\ ptr[g] \in Conns
        /\ connections' = connections /\ sock' = sock
        /\ connected' = connected \/ MarkDead({ptr[g]})
    BY <1>3 DEF InOut, WriteSucceeds, WriteFails, ReadSucceeds, ReadFails, Failed, IInv,
       TypeOK, Working
  <2> QED BY <2>1, FailMaps
<1>4. CASE Disconnect(g)
  <2> DEFINE p == call[g].peer
             R == {p} \cap Entries
             gone == {connections[p]} \ {None}
  <2>1. /\ call[g] # NoCall
        /\ sock' = [c \in Conns |-> IF c \in gone THEN "closed" ELSE sock[c]]
        /\ connected' = [c \in Conns |-> connected[c] /\ c \notin gone]
        /\ connections' = [q \in Peers |-> IF q \in {p} THEN None ELSE connections[q]]
    BY <1>4 DEF Disconnect, Enters, CloseSockets, MarkDead, RemoveEntries, IInv, TypeOK
  <2>2. p \in Peers
    BY <2>1, CallType DEF IInv, TypeOK
  <2>3. connections' = [q \in Peers |-> IF q \in R THEN None ELSE connections[q]]
    BY <2>1, <2>2 DEF Entries
  <2>4. gone = {connections[q] : q \in R}
    BY <2>2 DEF Entries
  <2>5. sock' = [c \in Conns |-> IF c \in {connections[q] : q \in R} THEN "closed" ELSE sock[c]]
    BY <2>1, <2>4
  <2>6. \A c \in Conns : connected'[c] = connected[c] \/ c \in {connections[q] : q \in R}
    BY <2>1, <2>4 DEF IInv, TypeOK
  <2>7. R \in SUBSET Entries
    OBVIOUS
  <2> HIDE DEF R
  <2> QED BY <2>3, <2>5, <2>6, <2>7, RemoveMaps
<1> QED BY <1>1, <1>2, <1>3, <1>4 DEF Caller, Enter

LEMMA StepMaps == IInv /\ [Next]_vars => [Table!Next]_(Table!vars)
<1> SUFFICES ASSUME IInv, [Next]_vars PROVE Table!Next \/ UNCHANGED Table!vars
  OBVIOUS
<1>0. limit' = limit
  BY DEF Next, vars
<1>1. ASSUME NEW g \in Callers, Caller(g) PROVE Table!Next \/ UNCHANGED Table!vars
  BY <1>0, <1>1, CallerMaps
<1>2. ASSUME NEW c \in Conns, Age(c) PROVE UNCHANGED Table!vars
  BY <1>0, <1>2, Unseen DEF Age
<1>3. CASE Cleanup
  <2> DEFINE R == {p \in Entries : idle[connections[p]]}
  <2>1. /\ connected' = connected
        /\ connections' = [p \in Peers |-> IF p \in R THEN None ELSE connections[p]]
        /\ sock' = [c \in Conns |->
                      IF c \in {connections[p] : p \in R} THEN "closed" ELSE sock[c]]
    BY <1>3 DEF Cleanup, CloseSockets, RemoveEntries
  <2>2. R \in SUBSET Entries
    OBVIOUS
  <2> HIDE DEF R
  <2> QED BY <1>0, <2>1, <2>2, RemoveMaps
<1>4. CASE Close
  <2>1. /\ sock' = [c \in Conns |->
                      IF c \in {connections[p] : p \in Entries} THEN "closed" ELSE sock[c]]
        /\ connected' = [c \in Conns |->
                           connected[c] /\ c \notin {connections[p] : p \in Entries}]
        /\ connections' = [p \in Peers |-> IF p \in Peers THEN None ELSE connections[p]]
    BY <1>4 DEF Close, CloseSockets, MarkDead, RemoveEntries
  <2>2. connections' = [p \in Peers |-> IF p \in Entries THEN None ELSE connections[p]]
    BY <2>1 DEF Entries
  <2>3. \A c \in Conns :
          connected'[c] = connected[c] \/ c \in {connections[p] : p \in Entries}
    BY <2>1 DEF IInv, TypeOK
  <2> QED BY <1>0, <2>1, <2>2, <2>3, RemoveMaps
<1>5. CASE UNCHANGED vars
  BY <1>5, Unseen DEF vars, poolVars
<1> QED BY <1>1, <1>2, <1>3, <1>4, <1>5 DEF Next

(* The pool, with two levels of mutexes, dials that take their time and    *)
(* connections that are closed under their users' hands, implements the    *)
(* table of links.                                                         *)
THEOREM PoolImplementsTable == Spec => PoolIsTable
<1>1. Spec => [][Table!Next]_(Table!vars)
  BY AlwaysIInv, StepMaps, PTL DEF Spec
<1> QED BY <1>1, InitMaps, PTL DEF Spec, PoolIsTable, Table!Spec
=============================================================================
