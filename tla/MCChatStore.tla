----------------------------- MODULE MCChatStore -----------------------------
(* Two callers on one page and one on a second. *)
EXTENDS ChatStore, TLC

CONSTANTS c1, c2, c3, t1, t2

MCTabOf == c1 :> t1 @@ c2 :> t1 @@ c3 :> t2
MCStamp == <<1, 1, 2>>
Symmetry == Permutations(Account) \cup Permutations({c1, c2})
=============================================================================
