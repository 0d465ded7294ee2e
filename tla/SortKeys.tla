------------------------------ MODULE SortKeys ------------------------------
(***************************************************************************)
(* The byte strings that stand for trapdoor sequences: the sort key of a   *)
(* row of the trapdoor table, and the key of an entry of the content       *)
(* store.  TrapdoorTable and Router compare the sequences themselves;      *)
(* NamePairs says that this comes to the same.                             *)
(***************************************************************************)
EXTENDS TrapdoorTable

CONSTANTS
    Byte,                  \* the values of a byte
    Size,                  \* bytes of a compressed point of G1
    serialize_compressed   \* the bytes of each point

\* Points are written in one size, and the number that stands for a point is
\* that of its bytes.
ASSUME BytesAssumption ==
    /\ Byte \subseteq Nat /\ Size \in Nat \ {0}
    /\ serialize_compressed \in [Scalar -> [1..Size -> Byte]]
    /\ \A t, u \in Scalar :
          t < u => KeyLess(serialize_compressed[t], serialize_compressed[u])

\* Mutant: leading zeros are not written.
to_bytes_Trimmed(t) ==
    LET bytes == serialize_compressed[t]
        zeros == {i \in 1..Size : \A j \in 1..i : bytes[j] = 0}
    IN  SubSeq(bytes, Cardinality(zeros) + 1, Size)

to_bytes(t) == serialize_compressed[t]

Concatenated(trapdoors) == FlattenSeq([i \in 1..Len(trapdoors) |-> to_bytes(trapdoors[i])])

sort_key(nt) == Concatenated(nt)

trapdoors_to_key(trapdoors) == Concatenated(trapdoors)
=============================================================================
