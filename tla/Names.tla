------------------------------- MODULE Names --------------------------------
(***************************************************************************)
(* NDN names (helper.rs) and their per-component PEKS images (name.rs).    *)
(*                                                                         *)
(* A name is the sequence of texts that splitting it at every '/' gives:   *)
(* "/a//b" is <<"", "a", "", "b">>, "a/b" is <<"a", "b">>, "" is <<"">>.   *)
(***************************************************************************)
EXTENDS Peks, Sequences, FiniteSets

ASSUME ComponentAssumption == "" \notin Component

RawName == Seq(Component \cup {""}) \ {<< >>}

\* The elements of s other than e, in their order (`filter(|s| !s.is_empty())`).
Without(s, e) ==
    LET I == {i \in 1..Len(s) : s[i] # e}
    IN  [k \in 1..Cardinality(I) |->
            s[CHOOSE i \in I : Cardinality(I \cap (1..i)) = k]]

parse_name(name) ==
    LET components == Without(Tail(name), "")
    IN  IF name = <<"">> THEN Err("Empty")
        ELSE IF name[1] # "" THEN Err("MissingLeadingSlash")
        ELSE IF components = << >> THEN Err("Empty")
        ELSE Ok(components)

\* Mutant: the trapdoor of the first component only.
name_to_trapdoor_FirstOnly(alpha, name) ==
    LET parsed == parse_name(name)
    IN  IF ~parsed.ok THEN parsed ELSE Ok(<<generate_trapdoor(alpha, parsed.val[1])>>)

name_to_trapdoor(alpha, name) ==
    LET parsed == parse_name(name)
    IN  IF ~parsed.ok THEN parsed
        ELSE Ok([i \in 1..Len(parsed.val) |-> generate_trapdoor(alpha, parsed.val[i])])

\* r holds the scalars that are drawn for the components, one after the other.
name_to_ciphertext(h, name, r) ==
    LET parsed == parse_name(name)
    IN  IF ~parsed.ok THEN parsed
        ELSE Ok([i \in 1..Len(parsed.val) |-> encrypt(h, parsed.val[i], r[i])])

\* There is a scalar in r for every component of the name.
Covers(r, name) == Len(parse_name(name).val) <= Len(r)

\* Names with the same components: nothing downstream of parse_name can
\* tell them apart.
Alias(m, n) == parse_name(m) = parse_name(n)

\* Two sequences of components are equal, but where r is zero: encryption
\* with zero hides nothing that test could compare.
AgreeWhereHidden(v, w, r) ==
    Len(v) = Len(w) /\ \A i \in 1..Len(v) : r[i] = Zero \/ v[i] = w[i]
=============================================================================
