-------------------------- MODULE ConnectionTable --------------------------
(***************************************************************************)
(* What the pool of connections promises, without callers, mutexes and     *)
(* sockets: a table of at most limit links to peers that changes one step  *)
(* at a time.  A live link is in the table and is never replaced, it goes  *)
(* out of the table and dies in the same step, and none comes back.        *)
(***************************************************************************)
EXTENDS Naturals, FiniteSets

CONSTANTS Peers, Links, Limits, None

VARIABLES
  limit,
  table,   \* the link to each peer, or None
  live,    \* the links that work
  used     \* the links that there have been

vars == <<limit, table, live, used>>

Occupied == {p \in Peers : table[p] # None}

Init ==
  /\ limit \in Limits
  /\ table = [p \in Peers |-> None]
  /\ live = {}
  /\ used = {}

\* A new link, where there is none or a dead one.
Add(p, c) ==
  /\ c \notin used
  /\ table[p] \notin live
  /\ Cardinality(Occupied) < limit
  /\ table' = [table EXCEPT ![p] = c]
  /\ live' = live \cup {c}
  /\ used' = used \cup {c}

Remove(gone) ==
  /\ gone \subseteq Occupied
  /\ table' = [p \in Peers |-> IF p \in gone THEN None ELSE table[p]]
  /\ live' = live \ {table[p] : p \in gone}
  /\ UNCHANGED used

\* A link fails, and stays in the table.
Fail(c) ==
  /\ live' = live \ {c}
  /\ UNCHANGED <<table, used>>

Next ==
  /\ \/ \E p \in Peers, c \in Links : Add(p, c)
     \/ \E gone \in SUBSET Peers : Remove(gone)
     \/ \E c \in live : Fail(c)
  /\ UNCHANGED limit

Spec == Init /\ [][Next]_vars
=============================================================================
