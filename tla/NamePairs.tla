----------------------------- MODULE NamePairs ------------------------------
(***************************************************************************)
(* Two names that grow segment by segment, a component or an empty one:    *)
(* one is registered by the producer, the other asked for.                 *)
(***************************************************************************)
EXTENDS SortKeys

CONSTANTS
    private_key,
    nonce,        \* the scalars drawn to encrypt a name
    MaxSegments   \* bound on the segments of a name

ASSUME PairAssumption ==
    /\ private_key \in Scalar \ {Zero}
    /\ MaxSegments \in Nat
    /\ nonce \in Seq(Scalar \ {Zero}) /\ Len(nonce) = MaxSegments

VARIABLES registered, asked

vars == <<registered, asked>>

Init == registered \in {<<s>> : s \in Component \cup {""}} /\ asked = registered

Extend(name) == {Append(name, s) : s \in Component \cup {""}}

Next ==
    \/ Len(registered) < MaxSegments /\ registered' \in Extend(registered) /\ UNCHANGED asked
    \/ Len(asked) < MaxSegments /\ asked' \in Extend(asked) /\ UNCHANGED registered

Spec == Init /\ [][Next]_vars

-----------------------------------------------------------------------------
Trapdoors(name) == name_to_trapdoor(private_key, name)
Ciphertexts == name_to_ciphertext(PublicKey(private_key), asked, nonce)

\* The trapdoors of one name pass the tests of the other name's ciphertexts,
\* one by one and leaving none over, exactly when the names have the same
\* components: what table, content store and matching take for granted.
TestsCompareNames ==
    Trapdoors(registered).ok /\ Ciphertexts.ok =>
        LET nt == Trapdoors(registered).val
            nc == Ciphertexts.val
        IN  Alias(registered, asked) <=>
                Len(nt) = Len(nc) /\ \A i \in DOMAIN nt : test(nt[i], nc[i])

\* cs.rs: "Two sequences produce equal keys if and only if the trapdoors are
\* pairwise equal", although the key does not say where a trapdoor ends.  So
\* two names share a cache entry exactly when they have the same components.
KeysCompareNames ==
    Trapdoors(registered).ok /\ Trapdoors(asked).ok =>
        (Alias(registered, asked) <=>
            trapdoors_to_key(Trapdoors(registered).val) = trapdoors_to_key(Trapdoors(asked).val))

\* Comparing sort keys byte by byte orders the rows as comparing trapdoor by
\* trapdoor does: a sequence comes right before those it is a prefix of.
BytesOrderTrapdoors ==
    Trapdoors(registered).ok /\ Trapdoors(asked).ok =>
        LET nt == Trapdoors(registered).val
            other == Trapdoors(asked).val
        IN  KeyLess(sort_key(nt), sort_key(other)) <=> KeyLess(nt, other)
=============================================================================
