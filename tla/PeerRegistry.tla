---------------------------- MODULE PeerRegistry ----------------------------
(***************************************************************************)
(* What the discovery server promises, without connections that fail,      *)
(* goroutines and locks: a registry of members that changes one step at a  *)
(* time, never while somebody walks through it, and in which every removal *)
(* is followed by an announcement to all who are then members.             *)
(***************************************************************************)
CONSTANTS
  Ids, Conns, NoConn,
  Departures,   \* the registrations <<id, c>> whose end can be announced
  Walkers       \* who walks through the members: Departures, and others

VARIABLES
  members,  \* the connection of each ID, NoConn for an ID that is no member
  leaving,  \* the removals that have not been announced to the end
  toVisit,  \* the members that each walker has still to visit
  ended     \* nothing is promised any more: Stop was called, or a crash

vars == <<members, leaving, toVisit, ended>>

Members    == {id \in Ids : members[id] # NoConn}
Unwatched  == \A w \in Walkers : toVisit[w] = {}
May(w)     == w \in Departures => w \in leaving

Init ==
  /\ members = [id \in Ids |-> NoConn]
  /\ leaving = {}
  /\ toVisit = [w \in Walkers |-> {}]
  /\ ended = FALSE

\* A member joins; one of the same ID is replaced without an announcement.
Join(id, c) ==
  /\ ~ended /\ Unwatched
  /\ members' = [members EXCEPT ![id] = c]
  /\ UNCHANGED <<leaving, toVisit, ended>>

\* Members are removed, and each removal is one announcement to make.
Remove(gone) ==
  /\ ~ended /\ Unwatched
  /\ gone \subseteq Members
  /\ members' = [id \in Ids |-> IF id \in gone THEN NoConn ELSE members[id]]
  /\ LET news == {<<id, members[id]>> : id \in gone} IN
       /\ news \subseteq Departures \ leaving
       /\ leaving' = leaving \cup news
  /\ UNCHANGED <<toVisit, ended>>

\* A walk that would have nobody to visit is over at once.
StartWalk(w) ==
  /\ ~ended /\ May(w)
  /\ toVisit[w] = {}
  /\ toVisit' = [toVisit EXCEPT ![w] = Members]
  /\ leaving' = IF Members = {} THEN leaving \ {w} ELSE leaving
  /\ UNCHANGED <<members, ended>>

\* The last visit of an announcement completes it.
Visit(w, id) ==
  /\ id \in toVisit[w]
  /\ toVisit' = [toVisit EXCEPT ![w] = @ \ {id}]
  /\ leaving' = IF toVisit[w] = {id} THEN leaving \ {w} ELSE leaving
  /\ UNCHANGED <<members, ended>>

Stop ==
  /\ ~ended /\ Unwatched
  /\ ended' = TRUE
  /\ UNCHANGED <<members, leaving, toVisit>>

\* All that the server knew was in memory.
Crash ==
  /\ members' = [id \in Ids |-> NoConn]
  /\ leaving' = {}
  /\ toVisit' = [w \in Walkers |-> {}]
  /\ ended' = TRUE

Next ==
  \/ \E id \in Ids, c \in Conns : Join(id, c)
  \/ \E gone \in SUBSET Ids : Remove(gone)
  \/ \E w \in Walkers : StartWalk(w) \/ (\E id \in Ids : Visit(w, id))
  \/ Stop \/ Crash

Spec == Init /\ [][Next]_vars
=============================================================================
