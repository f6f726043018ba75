-------------------------- MODULE MCRoomMembership --------------------------
(* RoomMembership with interchangeable users, tasks and fills. *)
EXTENDS RoomMembership, TLC

Symmetry == Permutations(Users) \cup Permutations(Tasks) \cup Permutations(Fills)

=============================================================================
