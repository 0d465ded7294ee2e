------------------------- MODULE PeksSession_proofs -------------------------
(***************************************************************************)
(* The two invariants of a key pair in use, for every field, every hash to *)
(* it, every key and any number of ciphertexts and trapdoors.              *)
(***************************************************************************)
EXTENDS PeksSession, Layers_proofs

\* The inductive invariant: what was made was made with the one key drawn.
Made ==
    /\ private_key \in Scalar \cup {NoKey}
    /\ private_key = NoKey => ciphertexts = {} /\ trapdoors = {}
    /\ private_key # NoKey => public_key = PublicKey(private_key)
    /\ \A e \in ciphertexts :
          /\ e.w \in Component /\ e.r \in Scalar
          /\ e.c = encrypt(public_key, e.w, e.r)
    /\ \A d \in trapdoors :
          d.w \in Component /\ d.t = generate_trapdoor(private_key, d.w)

\* Before the key is drawn nothing is made.
LEMMA InitMade == Init => Made
BY DEF Init, Made

\* Each operation makes what it makes with the key there is.
LEMMA StepMade == Made /\ [Next]_vars => Made'
<1> SUFFICES ASSUME Made, [Next]_vars PROVE Made'
    OBVIOUS
<1>1. ASSUME NEW alpha \in generate_random, generate_key_pair(alpha) PROVE Made'
    BY <1>1, SessionAssumption DEF generate_key_pair, generate_random, Made, SessionAssumption
<1>2. ASSUME NEW w \in Component, NEW r \in generate_random, Encrypt(w, r) PROVE Made'
    BY <1>2 DEF Encrypt, generate_random, Made
<1>3. ASSUME NEW w \in Component, GenerateTrapdoor(w) PROVE Made'
    BY <1>3 DEF GenerateTrapdoor, Made
<1>4. CASE UNCHANGED vars
    BY <1>4 DEF vars, Made
<1> QED
    BY <1>1, <1>2, <1>3, <1>4 DEF Next

\* So whatever is made is made with that key.
LEMMA SpecMade == Spec => []Made
BY InitMade, StepMade, PTL DEF Spec

\* A trapdoor passes the tests of its own keyword's ciphertexts and of no
\* others, unless a zero was drawn: for any scalars and keywords.
THEOREM SessionTestDecides == Spec => []TestDecides
<1>1. Made => TestDecides
    <2> SUFFICES ASSUME Made, NEW e \in ciphertexts, NEW d \in trapdoors
                 PROVE  test(d.t, e.c) <=> (d.w = e.w \/ private_key = Zero \/ e.r = Zero)
        BY DEF TestDecides
    <2>1. private_key \in Scalar /\ public_key = PublicKey(private_key)
        BY DEF Made
    <2>2. /\ e.w \in Component /\ e.r \in Scalar /\ d.w \in Component
          /\ e.c = encrypt(PublicKey(private_key), e.w, e.r)
          /\ d.t = generate_trapdoor(private_key, d.w)
        BY <2>1 DEF Made
    <2> QED
        BY <2>1, <2>2, TestIsEquality
<1> QED
    BY <1>1, SpecMade, PTL

\* Trapdoors are equal for equal keywords only, ciphertexts for equal
\* scalars only: for any scalars and keywords.
THEOREM SessionDeterminism == Spec => []DeterminismAsUsed
<1>1. Made => DeterminismAsUsed
    <2> SUFFICES ASSUME Made, private_key # Zero
                 PROVE  /\ \A d, f \in trapdoors : d.t = f.t <=> d.w = f.w
                        /\ \A e, f \in ciphertexts : e.c = f.c <=>
                              e.r = f.r /\ (e.w = f.w \/ e.r = Zero)
        BY DEF DeterminismAsUsed
    <2>1. ASSUME NEW d \in trapdoors, NEW f \in trapdoors
          PROVE  d.t = f.t <=> d.w = f.w
        <3>1. private_key \in Scalar \ {Zero}
            BY DEF Made
        <3>2. /\ d.w \in Component /\ d.t = generate_trapdoor(private_key, d.w)
              /\ f.w \in Component /\ f.t = generate_trapdoor(private_key, f.w)
            BY DEF Made
        <3> QED
            BY <3>1, <3>2, TrapdoorInjective
    <2>2. ASSUME NEW e \in ciphertexts, NEW f \in ciphertexts
          PROVE  e.c = f.c <=> e.r = f.r /\ (e.w = f.w \/ e.r = Zero)
        <3>1. private_key \in Scalar \ {Zero} /\ public_key = PublicKey(private_key)
            BY DEF Made
        <3>2. /\ e.w \in Component /\ e.r \in Scalar /\ e.c = encrypt(PublicKey(private_key), e.w, e.r)
              /\ f.w \in Component /\ f.r \in Scalar /\ f.c = encrypt(PublicKey(private_key), f.w, f.r)
            BY <3>1 DEF Made
        <3> QED
            BY <3>1, <3>2, EncryptInjective
    <2> QED
        BY <2>1, <2>2
<1> QED
    BY <1>1, SpecMade, PTL
=============================================================================
