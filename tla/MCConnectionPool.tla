--------------------------- MODULE MCConnectionPool -------------------------
(* Three callers on one page and one on a second page. *)
EXTENDS ConnectionPool, TLC

CONSTANTS c1, c2, c3, c4, t1, t2

MCTabOf == c1 :> t1 @@ c2 :> t1 @@ c3 :> t1 @@ c4 :> t2
=============================================================================
