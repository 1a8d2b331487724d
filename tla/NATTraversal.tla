---------------------------- MODULE NATTraversal ----------------------------
(***************************************************************************)
(* UDP hole punching and the discovery of the public address               *)
(* (internal/peer/nat_traversal.go).  Every hole punch is a goroutine, and *)
(* every caller of GetPublicAddress is one; all of them read the same UDP  *)
(* socket, and each sets the one read deadline of that socket before it    *)
(* reads.  A datagram goes to whoever reads it first.  The map t.peers is  *)
(* kept by column: peers[id] is PublicAddr (NoAddr: no entry), reachable   *)
(* the IDs with IsReachable.                                               *)
(***************************************************************************)
EXTENDS STUN, FiniteSets

CONSTANTS
  Ids,        \* peer IDs
  Addrs,      \* UDP addresses of peers
  MayPunch,   \* the calls StartHolePunch(id, addr) that may be made
  Queries,    \* the callers of GetPublicAddress
  Servers,    \* t.stunServers, a sequence of UDP addresses
  Datagrams,  \* what may arrive: records of the sender and the data
  Buffer,     \* the datagrams that the socket holds for its readers
  Public,     \* the address of this machine as the STUN servers see it
  NoAddr

ASSUME NATAssumption ==
  /\ MayPunch \subseteq Ids \X Addrs
  /\ Queries \cap (Ids \X Addrs) = {}
  /\ Len(Servers) \in Nat
  /\ NoAddr \notin Addrs

VARIABLES
  peers,      \* t.peers[id].PublicAddr
  reachable,  \* the IDs with t.peers[id].IsReachable
  open,       \* t.conn has not been closed
  deadline,   \* the read deadline of t.conn: never set, to come, passed
  inbox,      \* the datagrams that have arrived and are not read
  pc,         \* where each goroutine is
  late,       \* the hole punches whose ten seconds are over
  next,       \* the place in t.stunServers each query has come to
  found,      \* what each query has returned
  asked,      \* history: the STUN servers that have been sent a request
  punched     \* history: the addresses from which a punch has arrived

socket  == <<open, deadline, inbox>>
entries == <<peers, reachable>>
queries == <<next, found, asked>>
vars    == <<entries, socket, pc, late, queries, punched>>

(* The goroutine of a hole punch is named by the call that started it.     *)
(* Bound: one at a time for the same peer and address.                     *)
Routines == MayPunch \cup Queries

Labels == {"idle", "send", "listen", "read", "punched", "ask", "wait"}

TypeOK ==
  /\ peers \in [Ids -> Addrs \cup {NoAddr}]
  /\ reachable \in SUBSET Ids
  /\ open \in BOOLEAN
  /\ deadline \in {"none", "pending", "passed"}
  /\ inbox \in SUBSET Datagrams
  /\ pc \in [Routines -> Labels]
  /\ late \in SUBSET MayPunch
  /\ next \in [Queries -> 0..Len(Servers) + 1]
  /\ \A q \in Queries : /\ pc[q] # "idle" => next[q] # 0
                        /\ pc[q] = "wait" => next[q] <= Len(Servers)
  /\ DOMAIN found = Queries
  /\ punched \in SUBSET {m.from : m \in Datagrams}

Init ==
  /\ peers = [id \in Ids |-> NoAddr]
  /\ reachable = {}
  /\ open = TRUE
  /\ deadline = "none"
  /\ inbox = {}
  /\ pc = [g \in Routines |-> "idle"]
  /\ late = {}
  /\ next = [q \in Queries |-> 0]
  /\ found = [q \in Queries |-> NoAddress]
  /\ asked = {}
  /\ punched = {}

-----------------------------------------------------------------------------
(* The socket. *)

Goto(g, label) == pc' = [pc EXCEPT ![g] = label]

\* It fails on a closed socket, and the error is not looked at.
SetReadDeadline == deadline' = IF open THEN "pending" ELSE deadline

\* One of the readers takes the datagram.
Receive(m) ==
  /\ open /\ deadline # "passed"
  /\ m \in inbox
  /\ inbox' = inbox \ {m}
  /\ UNCHANGED <<open, deadline>>

ReadError ==
  /\ ~open \/ deadline = "passed"
  /\ UNCHANGED socket

\* "PUNCH:" and at least one more byte, the sender's local address.
PunchPrefix == <<80, 85, 78, 67, 72, 58>>
IsPunch(data) == Len(data) > 6 /\ SubSeq(data, 1, 6) = PunchPrefix

-----------------------------------------------------------------------------
(* Hole punching. *)

\* An entry of the same peer is replaced, and is not reachable.
StartHolePunch(p) ==
  /\ pc[p] = "idle"
  /\ peers' = [peers EXCEPT ![p[1]] = p[2]]
  /\ reachable' = reachable \ {p[1]}
  /\ Goto(p, "send")
  /\ UNCHANGED <<socket, late, queries, punched>>

\* Five punches are sent, whether they can be or not, and the clock starts.
PerformHolePunch(p) ==
  /\ pc[p] = "send"
  /\ late' = late \ {p}
  /\ Goto(p, "listen")
  /\ UNCHANGED <<entries, socket, queries, punched>>

\* Mutant: the timer is looked at only when a read has timed out.
ListenOrOpen(p) ==
  /\ pc[p] = "listen"
  /\ IF p \in late /\ open
       THEN Goto(p, "idle") /\ UNCHANGED socket
       ELSE Goto(p, "read") /\ SetReadDeadline /\ UNCHANGED <<open, inbox>>
  /\ UNCHANGED <<entries, late, queries, punched>>

\* The head of the loop.
Listen(p) ==
  /\ pc[p] = "listen"
  /\ IF p \in late
       THEN Goto(p, "idle") /\ UNCHANGED socket
       ELSE Goto(p, "read") /\ SetReadDeadline /\ UNCHANGED <<open, inbox>>
  /\ UNCHANGED <<entries, late, queries, punched>>

\* Mutant: a punch from anywhere will do.
ReadPunchOfAnyone(p) ==
  /\ pc[p] = "read"
  /\ \/ \E m \in inbox :
          /\ Receive(m)
          /\ Goto(p, IF IsPunch(m.data) THEN "punched" ELSE "listen")
     \/ ReadError /\ Goto(p, "listen")
  /\ UNCHANGED <<entries, late, queries, punched>>

\* Whatever is not a punch of this peer is dropped.
ReadPunch(p) ==
  /\ pc[p] = "read"
  /\ \/ \E m \in inbox :
          /\ Receive(m)
          /\ Goto(p, IF m.from = p[2] /\ IsPunch(m.data) THEN "punched" ELSE "listen")
     \/ ReadError /\ Goto(p, "listen")
  /\ UNCHANGED <<entries, late, queries, punched>>

\* The entry that the ID has by now is marked.
MarkReachable(p) ==
  /\ pc[p] = "punched"
  /\ reachable' = IF peers[p[1]] # NoAddr THEN reachable \cup {p[1]} ELSE reachable
  /\ Goto(p, "idle")
  /\ UNCHANGED <<peers, socket, late, queries, punched>>

-----------------------------------------------------------------------------
(* GetPublicAddress and querySTUNServer. *)

\* Mutant: the list is not begun anew but gone on with.
GetPublicAddressFurther(q) ==
  /\ pc[q] = "idle"
  /\ next' = [next EXCEPT ![q] = @ + 1]
  /\ found' = [found EXCEPT ![q] = NoAddress]
  /\ Goto(q, "ask")
  /\ UNCHANGED <<entries, socket, late, asked, punched>>

GetPublicAddress(q) ==
  /\ pc[q] = "idle"
  /\ next' = [next EXCEPT ![q] = 1]
  /\ found' = [found EXCEPT ![q] = NoAddress]
  /\ Goto(q, "ask")
  /\ UNCHANGED <<entries, socket, late, asked, punched>>

\* The next server, when there is one.
TryNext(q) == next' = [next EXCEPT ![q] = @ + 1]

\* Mutant: the read is not given a deadline.
QueryWithoutDeadline(q) ==
  /\ pc[q] = "ask"
  /\ IF next[q] > Len(Servers)
       THEN Goto(q, "idle") /\ UNCHANGED <<socket, next, asked>>
       ELSE \/ /\ open
               /\ asked' = asked \cup {Servers[next[q]]}
               /\ Goto(q, "wait")
               /\ UNCHANGED <<socket, next>>
            \/ TryNext(q) /\ UNCHANGED <<socket, pc, asked>>
  /\ UNCHANGED <<entries, late, found, punched>>

\* The name cannot be resolved or the request not sent, or an answer is
\* waited for.  With no server left an error is returned.
QuerySTUNServer(q) ==
  /\ pc[q] = "ask"
  /\ IF next[q] > Len(Servers)
       THEN Goto(q, "idle") /\ UNCHANGED <<socket, next, asked>>
       ELSE \/ /\ open
               /\ asked' = asked \cup {Servers[next[q]]}
               /\ SetReadDeadline
               /\ Goto(q, "wait")
               /\ UNCHANGED <<open, inbox, next>>
            \/ TryNext(q) /\ UNCHANGED <<socket, pc, asked>>
  /\ UNCHANGED <<entries, late, found, punched>>

\* Whatever arrives is taken for the answer, whoever sent it.
ReadAnswer(q) ==
  /\ pc[q] = "wait"
  /\ \/ \E m \in inbox :
          LET address == parseSTUNResponse(m.data) IN
          /\ Receive(m)
          /\ IF address # NoAddress
               THEN Goto(q, "idle") /\ found' = [found EXCEPT ![q] = address] /\ next' = next
               ELSE Goto(q, "ask") /\ TryNext(q) /\ found' = found
     \/ ReadError /\ Goto(q, "ask") /\ TryNext(q) /\ found' = found
  /\ UNCHANGED <<entries, late, asked, punched>>

-----------------------------------------------------------------------------
Close ==
  /\ open
  /\ open' = FALSE
  /\ inbox' = {}
  /\ UNCHANGED <<entries, deadline, pc, late, queries, punched>>

\* Datagrams are lost, repeated and reordered.  STUN servers speak when asked.
Arrive(m) ==
  /\ open
  /\ m.from \in {Servers[i] : i \in DOMAIN Servers} => m.from \in asked
  /\ Cardinality(inbox \cup {m}) <= Buffer
  /\ inbox' = inbox \cup {m}
  /\ punched' = IF IsPunch(m.data) THEN punched \cup {m.from} ELSE punched
  /\ UNCHANGED <<entries, open, deadline, pc, late, queries>>

DeadlinePasses ==
  /\ open
  /\ deadline = "pending"
  /\ deadline' = "passed"
  /\ UNCHANGED <<entries, open, inbox, pc, late, queries, punched>>

TenSecondsPass(p) ==
  /\ pc[p] \in {"listen", "read", "punched"} /\ p \notin late
  /\ late' = late \cup {p}
  /\ UNCHANGED <<entries, socket, pc, queries, punched>>

Punch(p) == PerformHolePunch(p) \/ Listen(p) \/ MarkReachable(p)

Next ==
  \/ \E p \in MayPunch :
       StartHolePunch(p) \/ Punch(p) \/ ReadPunch(p) \/ TenSecondsPass(p)
  \/ \E q \in Queries : GetPublicAddress(q) \/ QuerySTUNServer(q) \/ ReadAnswer(q)
  \/ \E m \in Datagrams : Arrive(m)
  \/ DeadlinePasses \/ Close

Spec == Init /\ [][Next]_vars

\* Goroutines run and time passes.  Readers of a socket wait in a queue, so
\* none is passed over for ever by the others.
Fairness ==
  /\ \A p \in MayPunch : /\ WF_vars(Punch(p)) /\ SF_vars(ReadPunch(p))
                         /\ WF_vars(TenSecondsPass(p))
  /\ \A q \in Queries : WF_vars(QuerySTUNServer(q)) /\ SF_vars(ReadAnswer(q))
  /\ WF_vars(DeadlinePasses)

FairSpec == Spec /\ Fairness

-----------------------------------------------------------------------------
(* A peer is marked reachable only after a punch has come from an address  *)
(* at which it was looked for, although all goroutines read one socket and *)
(* an entry may have been replaced between the read and the mark.  (So the *)
(* address need not be the one that the entry has now.)                    *)
LookedFor(id) == {p[2] : p \in {r \in MayPunch : r[1] = id}}
ReachableHasPunched == \A id \in reachable : LookedFor(id) \cap punched # {}

(* What may be assumed of the network: no datagram passes for the answer   *)
(* of a STUN server but one that a STUN server may send to this machine.   *)
ServersAnswer ==
  /\ Public.port \in Word
  /\ \A m \in Datagrams :
       /\ m.data \in Seq(Byte)
       /\ IsBindingResponse(m.data) =>
            \E starts \in SUBSET {o \in 20..Len(m.data) : o % 4 = 0} :
              IsAnswer(m.data, starts, Public)

(* A query that returns an address returns the port of the public address, *)
(* whichever server's answer it has read, its own or one left over from    *)
(* an earlier request, and although punches of peers come in between.      *)
PublicPort == \A q \in Queries : found[q] # NoAddress => found[q].port = Public.port

(* Every hole punch ends, also when the others move the read deadline of   *)
(* the socket again and again, and when the socket is closed meanwhile.    *)
PunchEnds == \A p \in MayPunch : pc[p] = "send" ~> pc[p] = "idle"

(* GetPublicAddress returns, with or without an answer.                    *)
QueryReturns == \A q \in Queries : pc[q] = "ask" ~> pc[q] = "idle"
=============================================================================
