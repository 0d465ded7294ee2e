------------------------------ MODULE HashMaps ------------------------------
(***************************************************************************)
(* std::collections::HashMap: a function from the keys present to their    *)
(* values.                                                                 *)
(***************************************************************************)
EXTENDS Functions

EmptyMap == [k \in {} |-> k]

MapInsert(f, k, v) == [x \in DOMAIN f \cup {k} |-> IF x = k THEN v ELSE f[x]]

MapRemove(f, k) == Restrict(f, DOMAIN f \ {k})
=============================================================================
