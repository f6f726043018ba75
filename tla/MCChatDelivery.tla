--------------------------- MODULE MCChatDelivery ---------------------------
(* ChatDelivery with interchangeable sockets, messages and handlers, in two
   parts: one connection at a time with every message and cursor; or two with
   SYNC_CURSORs, and two messages of one timestamp that no client asks for. *)
EXTENDS ChatDelivery, TLC

VARIABLES part

Symmetry == Permutations(Sockets) \cup Permutations(Messages) \cup Permutations(Syncs)

MCInit == Init /\ part \in {"messages", "cursor"}

MCNext ==
  /\ Next
  /\ part = "messages" => /\ Cardinality({s \in Sockets : socket'[s] # "free"}) <= 1
                          /\ sync' = [k \in Syncs |-> Idle]
  /\ part = "cursor" => /\ clock' = 0
                        /\ Cardinality({m \in Messages : post'[m] # "none"}) <= 2
                        /\ \A s \in Sockets : cursor'[s] = NoMessage
  /\ UNCHANGED part

MCSpec == MCInit /\ [][MCNext]_<<vars, part>>

=============================================================================
