----------------------------- MODULE MatchLoop ------------------------------
(***************************************************************************)
(* Algorithm 1 as match_exhaustive runs it: a walk over the rows, and in   *)
(* each row over the components until the first test that fails.  The      *)
(* operator match_exhaustive, which the router and the producer use, says  *)
(* what the walk returns; here it is compared with the walk itself.        *)
(***************************************************************************)
EXTENDS TrapdoorTable

CONSTANTS Tables, Ciphertexts   \* the calls

ASSUME CallsAssumption ==
    /\ \A t \in Tables : t \in Seq(TrapdoorTableEntry)
    /\ \A c \in Ciphertexts : c \in Seq(Range(c))

VARIABLES
    table, ciphertext,       \* the arguments of the call
    row_idx, i,              \* the loop counters, from 1
    match_length,
    exact_match,             \* 0 for None
    longest_prefix,          \* [row, len], both 0 for None
    pc

vars == <<table, ciphertext, row_idx, i, match_length, exact_match, longest_prefix, pc>>

trapdoors == table[row_idx].trapdoors

Init ==
    /\ table \in Tables
    /\ ciphertext \in Ciphertexts
    /\ row_idx = 1
    /\ i = 1
    /\ match_length = 0
    /\ exact_match = 0
    /\ longest_prefix = [row |-> 0, len |-> 0]
    /\ pc = "row"

\* Mutant: match_length carries over from row to row.
NoMatchYet_CarriesOver == match_length

NoMatchYet == 0

EnterRow ==
    /\ pc = "row" /\ row_idx <= Len(table)
    /\ match_length' = NoMatchYet
    /\ i' = 1
    /\ pc' = "test"
    /\ UNCHANGED <<table, ciphertext, row_idx, exact_match, longest_prefix>>

InBounds == i <= Len(ciphertext) /\ i <= Len(trapdoors)

TestPasses ==
    /\ pc = "test" /\ InBounds
    /\ test(trapdoors[i], ciphertext[i])
    /\ match_length' = match_length + 1
    /\ i' = i + 1
    /\ UNCHANGED <<table, ciphertext, row_idx, exact_match, longest_prefix, pc>>

LeaveRow ==
    /\ pc = "test"
    /\ InBounds => ~test(trapdoors[i], ciphertext[i])
    /\ pc' = "compare"
    /\ UNCHANGED <<table, ciphertext, row_idx, i, match_length, exact_match, longest_prefix>>

WholeRow == match_length = Len(ciphertext) /\ match_length = Len(trapdoors)

ExactMatch ==
    /\ pc = "compare" /\ WholeRow
    /\ exact_match' = row_idx
    /\ pc' = "done"
    /\ UNCHANGED <<table, ciphertext, row_idx, i, match_length, longest_prefix>>

\* Mutant: of equally long matches the last is kept.
Longer_OrEqual == match_length > 0 /\ match_length >= longest_prefix.len

Longer == match_length > longest_prefix.len

PrefixMatch ==
    /\ pc = "compare" /\ ~WholeRow
    /\ longest_prefix' = IF Longer
                         THEN [row |-> row_idx, len |-> match_length]
                         ELSE longest_prefix
    /\ row_idx' = row_idx + 1
    /\ pc' = "row"
    /\ UNCHANGED <<table, ciphertext, i, match_length, exact_match>>

Exhausted ==
    /\ pc = "row" /\ row_idx > Len(table)
    /\ pc' = "done"
    /\ UNCHANGED <<table, ciphertext, row_idx, i, match_length, exact_match, longest_prefix>>

Next == EnterRow \/ TestPasses \/ LeaveRow \/ ExactMatch \/ PrefixMatch \/ Exhausted

Spec == Init /\ [][Next]_vars

-----------------------------------------------------------------------------
\* Type invariant: the counters stay within the table and the ciphertext.
TypeOK ==
    /\ table \in Tables /\ ciphertext \in Ciphertexts
    /\ row_idx \in 1..(Len(table) + 1)
    /\ pc \in {"row", "test", "compare", "done"}
    /\ pc \in {"test", "compare"} => row_idx <= Len(table)
    /\ match_length \in 0..Len(ciphertext) /\ i \in 1..(Len(ciphertext) + 1)
    /\ exact_match \in 0..Len(table)
    /\ longest_prefix \in [row : 0..Len(table), len : 0..Len(ciphertext)]

\* The walk returns the first row that matches exactly, and among the rows
\* before it the first of those with the longest match, if any matches.
MatchCorrect ==
    pc = "done" =>
        [exact_match |-> exact_match, longest_prefix |-> longest_prefix]
            = match_exhaustive(table, ciphertext)
=============================================================================
