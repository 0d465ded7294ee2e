--------------------------- MODULE TrapdoorTable ----------------------------
(***************************************************************************)
(* The trapdoor table of table.rs: a vector of rows that insert keeps      *)
(* sorted by the serialised trapdoors, searched by Algorithm 1.            *)
(* Rows are numbered from 1; row 0 stands for None.                        *)
(***************************************************************************)
EXTENDS Names, SequencesExt

NoName == << >>   \* the cleartext_name None: no RawName is empty

TrapdoorTableEntry ==
    [trapdoors : Seq(Scalar) \ {<< >>}, cleartext_name : RawName \cup {NoName}]

\* Lexicographic order of the sort keys.  Trapdoors serialise to the same
\* number of bytes, so comparing the bytes is comparing trapdoor by trapdoor.
KeyLess(k, l) ==
    \E n \in 1..Len(l) :
        /\ \A i \in 1..(n-1) : i <= Len(k) /\ k[i] = l[i]
        /\ n > Len(k) \/ k[n] < l[n]

Sorted(table) ==
    \A i, j \in 1..Len(table) :
        i < j => ~KeyLess(table[j].trapdoors, table[i].trapdoors)

\* Mutant: the row is pushed at the end.
InsertPositions_Append(table, key) == {Len(table) + 1}

\* What binary_search_by may return: any row with an equal key, else the
\* place that separates the smaller keys from the larger ones.
InsertPositions(table, key) ==
    LET same == {i \in 1..Len(table) : table[i].trapdoors = key}
    IN  IF same # {} THEN same
        ELSE {p \in 1..(Len(table) + 1) :
                 \A i \in 1..Len(table) : i < p <=> KeyLess(table[i].trapdoors, key)}

\* The tables that insert may leave.
insert(table, name_trapdoor, cleartext_name) ==
    {InsertAt(table, p, [trapdoors |-> name_trapdoor, cleartext_name |-> cleartext_name]) :
        p \in InsertPositions(table, name_trapdoor)}

-----------------------------------------------------------------------------
\* The first n tests of a row against a ciphertext sequence succeed.
Passes(trapdoors, ciphertext, n) ==
    /\ n <= Len(ciphertext) /\ n <= Len(trapdoors)
    /\ \A i \in 1..n : test(trapdoors[i], ciphertext[i])

\* The tests succeed up to match_length and no further.
IsMatchLength(trapdoors, ciphertext, n) ==
    Passes(trapdoors, ciphertext, n) /\ ~Passes(trapdoors, ciphertext, n + 1)

MatchLength(trapdoors, ciphertext) ==
    CHOOSE n \in 0..Len(ciphertext) : IsMatchLength(trapdoors, ciphertext, n)

\* Mutant: a row that is a prefix of the ciphertext matches exactly.
IsExact_NoLengthCheck(trapdoors, ciphertext) ==
    Passes(trapdoors, ciphertext, Len(trapdoors))

IsExact(trapdoors, ciphertext) ==
    Len(trapdoors) = Len(ciphertext) /\ Passes(trapdoors, ciphertext, Len(ciphertext))

\* r is the first of the rows that satisfy P, 0 if none does.
IsFirst(r, rows, P(_)) ==
    IF \E i \in rows : P(i) THEN r \in rows /\ P(r) /\ \A i \in rows : P(i) => r <= i
    ELSE r = 0

First(rows, P(_)) == CHOOSE r \in rows \cup {0} : IsFirst(r, rows, P)

match_exhaustive(table, ciphertext) ==
    LET exact == First(1..Len(table), LAMBDA i : IsExact(table[i].trapdoors, ciphertext))
        scanned == 1..(IF exact = 0 THEN Len(table) ELSE exact - 1)
        len(i) == MatchLength(table[i].trapdoors, ciphertext)
        longest == First(scanned, LAMBDA i : len(i) > 0 /\ \A j \in scanned : len(j) <= len(i))
    IN  [exact_match |-> exact,
         longest_prefix |-> [row |-> longest, len |-> IF longest = 0 THEN 0 ELSE len(longest)]]

get_trapdoors(table, row) == table[row].trapdoors

get_cleartext_name(table, row) == table[row].cleartext_name
=============================================================================
