-------------------------- MODULE MatchLoop_proofs --------------------------
(***************************************************************************)
(* The loops of match_exhaustive return what the operator of that name     *)
(* says, for every table, sorted or not, and every encrypted name.         *)
(***************************************************************************)
EXTENDS MatchLoop, Layers_proofs

\* The match length of row j, as the operator has it.
Length(j) == MatchLength(table[j].trapdoors, ciphertext)

\* What is known of the rows left behind.
Behind ==
    /\ \A j \in 1..(row_idx - 1) : ~IsExact(table[j].trapdoors, ciphertext)
    /\ \A j \in 1..(row_idx - 1) : Length(j) \in 0..Len(ciphertext)
    /\ Longest(table, ciphertext, row_idx - 1, longest_prefix)

\* What is known of the row the walk is at.
AtRow ==
    /\ pc # "done" => exact_match = 0
    /\ pc = "test" => i = match_length + 1 /\ Passes(trapdoors, ciphertext, match_length)
    /\ pc = "compare" => IsMatchLength(trapdoors, ciphertext, match_length)
    /\ pc = "done" =>
          \/ exact_match = 0 /\ row_idx = Len(table) + 1
          \/ exact_match = row_idx /\ row_idx <= Len(table) /\ IsExact(trapdoors, ciphertext)

\* The inductive invariant: the counters are in range only because the
\* inner loop has passed as many tests as it has counted.
IInv == TypeOK /\ Behind /\ AtRow

\* The arguments are sequences, and so is every row.
LEMMA ArgumentsTyped ==
    ASSUME TypeOK
    PROVE  /\ Len(table) \in Nat /\ Len(ciphertext) \in Nat /\ row_idx \in Nat \ {0}
           /\ \A j \in 1..Len(table) : Len(table[j].trapdoors) \in Nat
<1>1. /\ table \in Seq(TrapdoorTableEntry)
      /\ ciphertext \in Seq(Range(ciphertext))
    BY CallsAssumption DEF CallsAssumption, TypeOK
<1>2. \A j \in 1..Len(table) : table[j] \in TrapdoorTableEntry
    BY <1>1, ElementOfSeq
<1>3. \A j \in 1..Len(table) : Len(table[j].trapdoors) \in Nat
    BY <1>2 DEF TrapdoorTableEntry
<1> QED
    BY <1>1, <1>3 DEF TypeOK

\* Before the walk no row is left behind.
LEMMA InitIInv == Init => IInv
<1> SUFFICES ASSUME Init PROVE IInv
    OBVIOUS
<1>1. /\ table \in Seq(TrapdoorTableEntry)
      /\ ciphertext \in Seq(Range(ciphertext))
    BY CallsAssumption DEF CallsAssumption, Init
<1>2. Len(table) \in Nat /\ Len(ciphertext) \in Nat
    BY <1>1
<1>3. TypeOK
    BY <1>2 DEF Init, TypeOK
<1>4. Behind
    BY DEF Init, Behind, Longest
<1>5. AtRow
    BY DEF Init, AtRow
<1> QED
    BY <1>3, <1>4, <1>5 DEF IInv

\* The counters start afresh on a row.
LEMMA EnterRowIInv == IInv /\ EnterRow => IInv'
<1> SUFFICES ASSUME IInv, EnterRow PROVE IInv'
    OBVIOUS
<1>1. Len(table) \in Nat /\ Len(ciphertext) \in Nat /\ Len(trapdoors) \in Nat /\ row_idx \in Nat \ {0}
    BY ArgumentsTyped DEF IInv, EnterRow, trapdoors
<1>2. TypeOK'
    BY <1>1 DEF IInv, TypeOK, EnterRow, NoMatchYet
<1>3. Behind'
    BY DEF IInv, Behind, EnterRow, Length
<1>4. AtRow'
    BY <1>1 DEF IInv, AtRow, EnterRow, NoMatchYet, Passes, trapdoors
<1> QED
    BY <1>2, <1>3, <1>4 DEF IInv

\* One more test has passed.
LEMMA TestPassesIInv == IInv /\ TestPasses => IInv'
<1> SUFFICES ASSUME IInv, TestPasses PROVE IInv'
    OBVIOUS
<1>1. Len(table) \in Nat /\ Len(ciphertext) \in Nat /\ Len(trapdoors) \in Nat
    BY ArgumentsTyped DEF IInv, TypeOK, TestPasses, trapdoors
<1>2. i = match_length + 1 /\ Passes(trapdoors, ciphertext, match_length) /\ match_length \in Nat
    BY DEF IInv, AtRow, TypeOK, TestPasses
<1>3. TypeOK'
    BY <1>1, <1>2 DEF IInv, TypeOK, TestPasses, InBounds
<1>4. Behind'
    BY DEF IInv, Behind, TestPasses, Length
<1>5. Passes(trapdoors, ciphertext, match_length + 1)
    BY <1>1, <1>2 DEF Passes, TestPasses, InBounds
<1>6. AtRow'
    BY <1>2, <1>5 DEF IInv, AtRow, TestPasses, trapdoors
<1> QED
    BY <1>3, <1>4, <1>6 DEF IInv

\* The test fails, or one of the two sequences is at its end.
LEMMA LeaveRowIInv == IInv /\ LeaveRow => IInv'
<1> SUFFICES ASSUME IInv, LeaveRow PROVE IInv'
    OBVIOUS
<1>1. Len(table) \in Nat /\ Len(ciphertext) \in Nat /\ Len(trapdoors) \in Nat
    BY ArgumentsTyped DEF IInv, TypeOK, LeaveRow, trapdoors
<1>2. i = match_length + 1 /\ Passes(trapdoors, ciphertext, match_length) /\ match_length \in Nat
    BY DEF IInv, AtRow, TypeOK, LeaveRow
<1>3. IsMatchLength(trapdoors, ciphertext, match_length)
    BY <1>1, <1>2 DEF IsMatchLength, Passes, LeaveRow, InBounds
<1>4. TypeOK'
    BY DEF IInv, TypeOK, LeaveRow
<1>5. Behind'
    BY DEF IInv, Behind, LeaveRow, Length
<1>6. AtRow'
    BY <1>3 DEF IInv, AtRow, LeaveRow, trapdoors
<1> QED
    BY <1>4, <1>5, <1>6 DEF IInv

\* The counters decide whether the row matches exactly.
LEMMA WholeRowIsExact ==
    ASSUME IInv, pc = "compare"
    PROVE  /\ Length(row_idx) = match_length
           /\ WholeRow <=> IsExact(trapdoors, ciphertext)
<1>1. /\ Len(table) \in Nat /\ Len(ciphertext) \in Nat /\ Len(trapdoors) \in Nat
      /\ match_length \in 0..Len(ciphertext)
      /\ IsMatchLength(trapdoors, ciphertext, match_length)
    BY ArgumentsTyped DEF IInv, TypeOK, AtRow, trapdoors
<1>2. Length(row_idx) = match_length
    BY <1>1, MatchLengthIs DEF Length, trapdoors
<1>3. WholeRow => IsExact(trapdoors, ciphertext)
    BY <1>1 DEF WholeRow, IsExact, IsMatchLength
<1>4. IsExact(trapdoors, ciphertext) => WholeRow
    BY <1>1 DEF WholeRow, IsExact, IsMatchLength, Passes
<1> QED
    BY <1>2, <1>3, <1>4

\* The first row that matches exactly ends the walk.
LEMMA ExactMatchIInv == IInv /\ ExactMatch => IInv'
<1> SUFFICES ASSUME IInv, ExactMatch PROVE IInv'
    OBVIOUS
<1>1. row_idx <= Len(table) /\ row_idx \in Nat \ {0} /\ Len(table) \in Nat
    BY ArgumentsTyped DEF IInv, TypeOK, ExactMatch
<1>2. IsExact(trapdoors, ciphertext)
    BY WholeRowIsExact DEF ExactMatch
<1>3. TypeOK'
    BY <1>1 DEF IInv, TypeOK, ExactMatch
<1>4. Behind'
    BY DEF IInv, Behind, ExactMatch, Length
<1>5. AtRow'
    BY <1>1, <1>2 DEF IInv, AtRow, ExactMatch, trapdoors
<1> QED
    BY <1>3, <1>4, <1>5 DEF IInv

\* A row that does not match exactly is left behind, with its match length
\* compared: strictly, so that the first of equals stays.
LEMMA PrefixMatchIInv == IInv /\ PrefixMatch => IInv'
<1> SUFFICES ASSUME IInv, PrefixMatch PROVE IInv'
    OBVIOUS
<1>1. /\ row_idx <= Len(table) /\ row_idx \in Nat \ {0}
      /\ Len(table) \in Nat /\ Len(ciphertext) \in Nat
      /\ match_length \in 0..Len(ciphertext)
    BY ArgumentsTyped DEF IInv, TypeOK, PrefixMatch
<1>2. Length(row_idx) = match_length /\ ~IsExact(table[row_idx].trapdoors, ciphertext)
    BY WholeRowIsExact DEF PrefixMatch, trapdoors
<1>3. row_idx' = row_idx + 1 /\ UNCHANGED <<table, ciphertext>>
    BY DEF PrefixMatch
<1>4. TypeOK'
    BY <1>1 DEF IInv, TypeOK, PrefixMatch
<1>5. \A j \in 1..row_idx : j # row_idx => j \in 1..(row_idx - 1)
    BY <1>1
<1>6. /\ \A j \in 1..row_idx : ~IsExact(table[j].trapdoors, ciphertext)
      /\ \A j \in 1..row_idx : Length(j) \in 0..Len(ciphertext)
    BY <1>1, <1>2, <1>5 DEF IInv, Behind
<1>7. Longest(table, ciphertext, row_idx, longest_prefix')
    <2> DEFINE lp == longest_prefix
    <2>1. CASE lp = [row |-> 0, len |-> 0] /\ \A j \in 1..(row_idx - 1) : Length(j) = 0
        <3>1. longest_prefix' = IF match_length > 0
                                THEN [row |-> row_idx, len |-> match_length] ELSE lp
            BY <2>1 DEF PrefixMatch, Longer
        <3>2. CASE match_length > 0
            <4>1. \A j \in 1..row_idx : /\ Length(j) <= Length(row_idx)
                                        /\ Length(j) = Length(row_idx) => row_idx <= j
                BY <1>1, <1>2, <1>5, <2>1, <3>2
            <4> QED
                BY <1>1, <1>2, <3>1, <3>2, <4>1 DEF Longest, Length
        <3>3. CASE ~(match_length > 0)
            <4>1. \A j \in 1..row_idx : Length(j) = 0
                BY <1>1, <1>2, <1>5, <2>1, <3>3
            <4> QED
                BY <2>1, <3>1, <3>3, <4>1 DEF Longest, Length
        <3> QED
            BY <3>2, <3>3
    <2>2. ASSUME NEW r \in 1..(row_idx - 1), lp = [row |-> r, len |-> Length(r)], Length(r) > 0,
                 \A j \in 1..(row_idx - 1) :
                    Length(j) <= Length(r) /\ (Length(j) = Length(r) => r <= j)
          PROVE  Longest(table, ciphertext, row_idx, longest_prefix')
        <3>1. longest_prefix' = IF match_length > Length(r)
                                THEN [row |-> row_idx, len |-> match_length] ELSE lp
            BY <2>2 DEF PrefixMatch, Longer
        <3>2. Length(r) \in Nat /\ r \in Nat /\ r < row_idx
            BY <1>1, <1>6
        <3>3. CASE match_length > Length(r)
            <4>1. \A j \in 1..row_idx : /\ Length(j) <= Length(row_idx)
                                        /\ Length(j) = Length(row_idx) => row_idx <= j
                BY <1>1, <1>2, <1>5, <1>6, <2>2, <3>2, <3>3
            <4> QED
                BY <1>1, <1>2, <2>2, <3>1, <3>2, <3>3, <4>1 DEF Longest, Length
        <3>4. CASE ~(match_length > Length(r))
            <4>1. \A j \in 1..row_idx : /\ Length(j) <= Length(r)
                                        /\ Length(j) = Length(r) => r <= j
                BY <1>1, <1>2, <1>5, <1>6, <2>2, <3>2, <3>4
            <4> QED
                BY <1>1, <2>2, <3>1, <3>2, <3>4, <4>1 DEF Longest, Length
        <3> QED
            BY <3>3, <3>4
    <2> QED
        BY <2>1, <2>2 DEF IInv, Behind, Longest, Length
<1>8. Behind'
    <2>1. row_idx' - 1 = row_idx
        BY <1>1, <1>3
    <2> QED
        BY <1>3, <1>6, <1>7, <2>1 DEF Behind, Length
<1>9. AtRow'
    BY DEF IInv, AtRow, PrefixMatch
<1> QED
    BY <1>4, <1>8, <1>9 DEF IInv

\* No row is left.
LEMMA ExhaustedIInv == IInv /\ Exhausted => IInv'
<1> SUFFICES ASSUME IInv, Exhausted PROVE IInv'
    OBVIOUS
<1>1. row_idx = Len(table) + 1
    BY ArgumentsTyped DEF IInv, TypeOK, Exhausted
<1>2. TypeOK'
    BY DEF IInv, TypeOK, Exhausted
<1>3. Behind'
    BY DEF IInv, Behind, Exhausted, Length
<1>4. AtRow'
    BY <1>1 DEF IInv, AtRow, Exhausted
<1> QED
    BY <1>2, <1>3, <1>4 DEF IInv

\* Every step of the loops keeps the invariant.
LEMMA StepIInv == IInv /\ [Next]_vars => IInv'
<1> SUFFICES ASSUME IInv, [Next]_vars PROVE IInv'
    OBVIOUS
<1>1. CASE UNCHANGED vars
    BY <1>1 DEF vars, IInv, TypeOK, Behind, AtRow, Length, trapdoors
<1> QED
    BY <1>1, EnterRowIInv, TestPassesIInv, LeaveRowIInv, ExactMatchIInv, PrefixMatchIInv,
       ExhaustedIInv DEF Next

\* It holds until the loops end.
LEMMA SpecIInv == Spec => []IInv
BY InitIInv, StepIInv, PTL DEF Spec

\* The counters of match_exhaustive never leave the table or the encrypted
\* name, so that no index panics.
THEOREM LoopTypeOK == Spec => []TypeOK
<1>1. IInv => TypeOK
    BY DEF IInv
<1> QED
    BY <1>1, SpecIInv, PTL

\* What the two nested loops return when they end is the first exact match,
\* and the first of the longest prefixes among the rows before it.
THEOREM LoopIsOperator == Spec => []MatchCorrect
<1>1. IInv => MatchCorrect
    <2> SUFFICES ASSUME IInv, pc = "done"
                 PROVE  [exact_match |-> exact_match, longest_prefix |-> longest_prefix]
                            = match_exhaustive(table, ciphertext)
        BY DEF MatchCorrect
    <2> DEFINE exact == match_exhaustive(table, ciphertext).exact_match
    <2>1. Len(table) \in Nat /\ row_idx \in Nat \ {0}
        BY ArgumentsTyped DEF IInv
    <2>2. exact = exact_match /\ Scanned(table, ciphertext) = row_idx - 1
        <3>1. \/ exact = 0 /\ \A j \in 1..Len(table) : ~IsExact(table[j].trapdoors, ciphertext)
              \/ /\ exact \in 1..Len(table) /\ IsExact(table[exact].trapdoors, ciphertext)
                 /\ \A j \in 1..Len(table) : IsExact(table[j].trapdoors, ciphertext) => exact <= j
            BY <2>1, ExactMatchIsFirst
        <3> HIDE DEF exact
        <3>2. CASE exact_match = 0 /\ row_idx = Len(table) + 1
            <4>1. exact = 0
                BY <2>1, <3>1, <3>2 DEF IInv, Behind
            <4> QED
                BY <2>1, <3>2, <4>1 DEF Scanned, exact
        <3>3. CASE exact_match = row_idx /\ row_idx <= Len(table) /\ IsExact(trapdoors, ciphertext)
            <4>1. exact \in 1..Len(table) /\ exact <= row_idx
                BY <2>1, <3>1, <3>3 DEF trapdoors
            <4>2. ~(exact < row_idx)
                BY <2>1, <3>1, <4>1 DEF IInv, Behind
            <4>3. exact = row_idx
                BY <2>1, <4>1, <4>2
            <4> QED
                BY <2>1, <3>3, <4>3 DEF Scanned, exact
        <3> QED
            BY <3>2, <3>3 DEF IInv, AtRow
    <2>3. \A j \in 1..(row_idx - 1) : Length(j) \in Nat
        BY DEF IInv, Behind
    <2>4. match_exhaustive(table, ciphertext).longest_prefix = longest_prefix
        BY <2>1, <2>2, <2>3, LongestPrefixIs DEF IInv, Behind, Length
    <2>5. match_exhaustive(table, ciphertext)
            = [exact_match |-> exact,
               longest_prefix |-> match_exhaustive(table, ciphertext).longest_prefix]
        BY DEF match_exhaustive
    <2> QED
        BY <2>2, <2>4, <2>5
<1> QED
    BY <1>1, SpecIInv, PTL
=============================================================================
