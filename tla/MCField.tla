------------------------------ MODULE MCField -------------------------------
(***************************************************************************)
(* A field of five scalars and a few keywords: the least that keeps the    *)
(* keywords, the private key and the nonces apart.                         *)
(***************************************************************************)
EXTENDS Naturals

MCScalar == 0..4
MCMul(a, b) == (a * b) % 5
MCComponent == {"p", "a", "b"}
MCHash(w) == CASE w = "p" -> 1 [] w = "a" -> 2 [] w = "b" -> 4

\* Raw names, split at every slash.
P == <<"", "p">>
PA == <<"", "p", "a">>
PB == <<"", "p", "b">>
B == <<"", "b">>
PAB == <<"", "p", "a", "b">>
PslashA == <<"", "p", "", "a">>   \* "/p//a", an alias of "/p/a"
PABad == <<"p", "a">>             \* "p/a" does not parse
=============================================================================
