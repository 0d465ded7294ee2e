-------------------------------- MODULE Peks --------------------------------
(***************************************************************************)
(* The PEKS scheme of peks.rs, hash.rs and utils.rs.                       *)
(*                                                                         *)
(* Every group element is represented by its discrete logarithm, so that   *)
(* scalar multiplication and the pairing are both Mul, the multiplication  *)
(* of the scalar field Fr.  SHA-256 is collision free.  The natural number *)
(* that stands for a G1 element also stands for its 48 serialised bytes    *)
(* read as one number: sort keys are compared with it.                     *)
(***************************************************************************)
EXTENDS Naturals

CONSTANTS
    Scalar,        \* Fr, and the elements of G1, G2 and GT
    Mul(_, _),     \* multiplication of Fr
    Zero,          \* the zero of Fr, the identity of the groups
    Generator,     \* G2Projective::generator()
    Component,     \* keywords: the components of NDN names
    hash_to_g1(_)  \* H1 of DESIGN.md

ASSUME ScalarAssumption ==
    /\ Scalar \subseteq Nat
    /\ Zero \in Scalar /\ Generator \in Scalar \ {Zero}
    /\ \A a, b \in Scalar : Mul(a, b) \in Scalar /\ Mul(a, b) = Mul(b, a)
    /\ \A a, b, c \in Scalar : Mul(a, Mul(b, c)) = Mul(Mul(a, b), c)

\* Fr is a field of prime order: what is multiplied by a scalar other than
\* zero can be recovered, and zero absorbs.
ASSUME FieldAssumption ==
    /\ \A a, b, c \in Scalar : a # Zero /\ Mul(a, b) = Mul(a, c) => b = c
    /\ \A a \in Scalar : Mul(Zero, a) = Zero

\* hash_to_curve never returns the identity and does not collide.
ASSUME HashToCurveAssumption ==
    /\ \A w \in Component : hash_to_g1(w) \in Scalar \ {Zero}
    /\ \A v, w \in Component : hash_to_g1(v) = hash_to_g1(w) => v = w

\* What a fallible function returns.
Ok(v) == [ok |-> TRUE, val |-> v]
Err(e) == [ok |-> FALSE, err |-> e]

\* SHA-256: the digest of equal inputs only is equal.
Sha256(bytes) == [sha256 |-> bytes]

\* What generate_random may return: Fr::rand leaves out no scalar.
generate_random == Scalar

PublicKey(alpha) == Mul(Generator, alpha)

\* Mutants of encrypt: one scalar for every encryption; r left out of a.
encrypt_FixedScalar(h, w, r) ==
    [a |-> Generator, b |-> Sha256(Mul(hash_to_g1(w), h))]
encrypt_UnblindedA(h, w, r) ==
    [a |-> Generator, b |-> Sha256(Mul(hash_to_g1(w), Mul(h, r)))]

\* r is the scalar generate_random draws.
encrypt(h, w, r) ==
    [a |-> Mul(Generator, r), b |-> Sha256(Mul(hash_to_g1(w), Mul(h, r)))]

generate_trapdoor(alpha, w) == Mul(hash_to_g1(w), alpha)

test(t, c) == Sha256(Mul(t, c.a)) = c.b
=============================================================================
