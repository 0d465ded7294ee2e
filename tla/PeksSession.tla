---------------------------- MODULE PeksSession -----------------------------
(***************************************************************************)
(* One key pair in use: keywords are encrypted under it, trapdoors made    *)
(* from it, and every trapdoor is tested against every ciphertext.         *)
(* generate_random may draw any scalar, zero included.                     *)
(***************************************************************************)
EXTENDS Peks, FiniteSets

CONSTANTS
    NoKey,     \* before generate_key_pair
    MaxMade    \* bound on the ciphertexts made

ASSUME SessionAssumption == NoKey \notin Scalar /\ MaxMade \in Nat

VARIABLES
    private_key,
    public_key,
    ciphertexts,   \* history: [w, r, c]
    trapdoors      \* history: [w, t]

vars == <<private_key, public_key, ciphertexts, trapdoors>>

Init ==
    /\ private_key = NoKey /\ public_key = NoKey
    /\ ciphertexts = {} /\ trapdoors = {}

generate_key_pair(alpha) ==
    /\ private_key = NoKey
    /\ private_key' = alpha
    /\ public_key' = PublicKey(alpha)
    /\ UNCHANGED <<ciphertexts, trapdoors>>

Encrypt(w, r) ==
    /\ private_key # NoKey
    /\ Cardinality(ciphertexts) < MaxMade
    /\ ciphertexts' = ciphertexts \cup {[w |-> w, r |-> r, c |-> encrypt(public_key, w, r)]}
    /\ UNCHANGED <<private_key, public_key, trapdoors>>

GenerateTrapdoor(w) ==
    /\ private_key # NoKey
    /\ trapdoors' = trapdoors \cup {[w |-> w, t |-> generate_trapdoor(private_key, w)]}
    /\ UNCHANGED <<private_key, public_key, ciphertexts>>

Next ==
    \/ \E alpha \in generate_random : generate_key_pair(alpha)
    \/ \E w \in Component, r \in generate_random : Encrypt(w, r)
    \/ \E w \in Component : GenerateTrapdoor(w)

Spec == Init /\ [][Next]_vars

-----------------------------------------------------------------------------
\* A trapdoor passes the test of every encryption of its own keyword, and
\* of no other keyword's unless a zero was drawn for the key or for the
\* encryption: then it passes them all.
TestDecides ==
    \A e \in ciphertexts, d \in trapdoors :
        test(d.t, e.c) <=> (d.w = e.w \/ private_key = Zero \/ e.r = Zero)

\* Trapdoors are deterministic and tell keywords apart, as the tables and
\* the content store need; two encryptions of a keyword tell nothing, as
\* the pending tracker needs.
DeterminismAsUsed ==
    private_key # Zero =>
        /\ \A d, f \in trapdoors : d.t = f.t <=> d.w = f.w
        /\ \A e, f \in ciphertexts : e.c = f.c <=>
              e.r = f.r /\ (e.w = f.w \/ e.r = Zero)
=============================================================================
