------------------------------- MODULE JsMap -------------------------------
(***************************************************************************)
(* The JavaScript Map, as the services use it: a function whose DOMAIN is  *)
(* the set of keys.  Map.get(k) is f[k] guarded by k \in DOMAIN f, because *)
(* the code tells "no entry" (undefined) from "an empty entry".            *)
(***************************************************************************)

\* new Map()
EmptyMap == [k \in {} |-> {}]

\* Map.set(k, v)
MapSet(f, k, v) == [x \in DOMAIN f \cup {k} |-> IF x = k THEN v ELSE f[x]]

\* Map.delete(k)
MapDelete(f, k) == [x \in DOMAIN f \ {k} |-> f[x]]

\* Map.get(k) ?? {} for maps to sets
MapGetSet(f, k) == IF k \in DOMAIN f THEN f[k] ELSE {}

=============================================================================
