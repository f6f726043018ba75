----------------------------- MODULE MCSessions -----------------------------
(* Sessions with interchangeable authorization rows, session ids and requests. *)
EXTENDS Sessions, TLC

Symmetry == Permutations(States) \cup Permutations(Ids) \cup Permutations(Requests)

=============================================================================
