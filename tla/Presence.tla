------------------------------ MODULE Presence ------------------------------
(***************************************************************************)
(* What the chat connection registry promises, without its data structures:*)
(* a socket arrives once as a guest, is attached to at most one account,   *)
(* departs once, and never comes back.  members[u] is the set of sockets a *)
(* push addressed to account u reaches.                                    *)
(***************************************************************************)
CONSTANTS Clients, UUIDs

VARIABLES
  arrived,   \* sockets that ever connected
  guests,    \* connected sockets that belong to no account yet
  members    \* [UUIDs -> SUBSET Clients]

vars == <<arrived, guests, members>>

Init ==
  /\ arrived = {}
  /\ guests = {}
  /\ members = [u \in UUIDs |-> {}]

Arrive(c) ==
  /\ c \notin arrived
  /\ arrived' = arrived \cup {c}
  /\ guests' = guests \cup {c}
  /\ UNCHANGED members

Attach(c, u) ==
  /\ c \in guests
  /\ guests' = guests \ {c}
  /\ members' = [members EXCEPT ![u] = @ \cup {c}]
  /\ UNCHANGED arrived

Depart(c) ==
  /\ c \in guests \/ \E u \in UUIDs : c \in members[u]
  /\ guests' = guests \ {c}
  /\ members' = [u \in UUIDs |-> members[u] \ {c}]
  /\ UNCHANGED arrived

Next ==
  \E c \in Clients :
    \/ Arrive(c)
    \/ \E u \in UUIDs : Attach(c, u)
    \/ Depart(c)

Spec == Init /\ [][Next]_vars

=============================================================================
