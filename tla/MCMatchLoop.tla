---------------------------- MODULE MCMatchLoop -----------------------------
(***************************************************************************)
(* Every table of up to three rows, each of one or two trapdoors, sorted   *)
(* or not, against every encrypted name of one or two components.          *)
(***************************************************************************)
EXTENDS MatchLoop, MCField

MCSequences(S) == {<<x>> : x \in S} \cup {<<x, y>> : x, y \in S}

MCRows == {[trapdoors |-> t, cleartext_name |-> NoName] :
              t \in MCSequences({generate_trapdoor(2, w) : w \in {"p", "a"}})}

MCTables == UNION {[1..n -> MCRows] : n \in 0..3}

MCCiphertexts == MCSequences({encrypt(PublicKey(2), w, 3) : w \in {"p", "a"}})
=============================================================================
