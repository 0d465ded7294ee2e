---------------------------- MODULE MCNamePairs -----------------------------
(***************************************************************************)
(* An instance of NamePairs for TLC: points in three bytes of two values,  *)
(* so that without leading zeros keys would run into each other.           *)
(***************************************************************************)
EXTENDS NamePairs, MCField

MCNonce == <<3, 1, 4, 2>>
MCByte == {0, 1}
MCSize == 3
MCBytes == [t \in MCScalar |-> [i \in 1..MCSize |-> (t \div 2 ^ (MCSize - i)) % 2]]
=============================================================================
