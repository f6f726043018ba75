------------------------- MODULE MCChatConnections -------------------------
(* ChatConnections on a small instance: the account table maps the n-th UUID
   to id n.  Sockets, accounts and HANDSHAKE invocations are interchangeable;
   with liveness TLC takes no SYMMETRY, so they come in order instead: c1
   connects first, for u1, and h2 is taken while h1 is. *)
EXTENDS ChatConnections, Naturals

CONSTANTS c1, c2, u1, u2, h1, h2

MCIdOf == [u \in UUIDs |-> IF u = u1 THEN 1 ELSE 2]

InOrder ==
  /\ phase'[c2] # "new" => phase'[c1] # "new"
  /\ auth'[c1] # u2
  /\ \A c \in Clients :
       handshake[c][h2] = "idle" /\ handshake'[c][h2] # "idle" => handshake[c][h1] # "idle"

MCSpec == Init /\ [][Next /\ InOrder]_vars /\ Fairness

=============================================================================
