--------------------------- MODULE Layers_proofs ----------------------------
(***************************************************************************)
(* What the layers below the router promise it, for every field, every     *)
(* hash to it, every name, URI and table: the scheme, the names made of    *)
(* keywords, the URIs that carry them, and the trapdoor table that they    *)
(* are looked up in.                                                       *)
(***************************************************************************)
EXTENDS Wire, TrapdoorTable, SequenceTheorems, FiniteSetTheorems,
        WellFoundedInduction, TLAPS


-----------------------------------------------------------------------------
(* The scheme.                                                             *)

\* Of two scalars other than zero the product is not zero.
LEMMA MulNonzero ==
    ASSUME NEW a \in Scalar \ {Zero}, NEW b \in Scalar \ {Zero}
    PROVE  Mul(a, b) \in Scalar \ {Zero}
<1>1. Mul(a, Zero) = Zero
    BY ScalarAssumption, FieldAssumption DEF ScalarAssumption, FieldAssumption
<1>2. Mul(a, b) # Zero
    BY <1>1, ScalarAssumption, FieldAssumption DEF ScalarAssumption, FieldAssumption
<1> QED
    BY <1>2, ScalarAssumption DEF ScalarAssumption

\* What is multiplied by the same scalar, not zero, can be compared.
LEMMA MulCancel ==
    ASSUME NEW a \in Scalar \ {Zero}, NEW b \in Scalar, NEW c \in Scalar
    PROVE  Mul(b, a) = Mul(c, a) <=> b = c
BY ScalarAssumption, FieldAssumption DEF ScalarAssumption, FieldAssumption

\* The public key hides the private key, and is not the identity.
LEMMA PublicKeyNonzero ==
    ASSUME NEW alpha \in Scalar \ {Zero}
    PROVE  PublicKey(alpha) \in Scalar \ {Zero}
BY MulNonzero, ScalarAssumption DEF ScalarAssumption, PublicKey

\* A trapdoor is a point of G1.
LEMMA TrapdoorType ==
    ASSUME NEW alpha \in Scalar, NEW w \in Component
    PROVE  generate_trapdoor(alpha, w) \in Scalar
BY ScalarAssumption, HashToCurveAssumption
   DEF ScalarAssumption, HashToCurveAssumption, generate_trapdoor

\* Trapdoors tell keywords apart.
LEMMA TrapdoorInjective ==
    ASSUME NEW alpha \in Scalar \ {Zero}, NEW v \in Component, NEW w \in Component
    PROVE  generate_trapdoor(alpha, v) = generate_trapdoor(alpha, w) <=> v = w
<1>1. hash_to_g1(v) \in Scalar /\ hash_to_g1(w) \in Scalar
    BY HashToCurveAssumption DEF HashToCurveAssumption
<1>2. generate_trapdoor(alpha, v) = generate_trapdoor(alpha, w) <=> hash_to_g1(v) = hash_to_g1(w)
    BY <1>1, MulCancel DEF generate_trapdoor
<1> QED
    BY <1>2, HashToCurveAssumption DEF HashToCurveAssumption

\* The bilinearity that the test rests on: it multiplies the same three
\* scalars as the encryption, the generator aside, in another order.
LEMMA TestMultiplies ==
    ASSUME NEW alpha \in Scalar, NEW r \in Scalar, NEW v \in Component, NEW w \in Component
    PROVE  test(generate_trapdoor(alpha, v), encrypt(PublicKey(alpha), w, r)) <=>
              Mul(hash_to_g1(v), Mul(PublicKey(alpha), r)) = Mul(hash_to_g1(w), Mul(PublicKey(alpha), r))
<1> DEFINE h == hash_to_g1(v)
<1>1. h \in Scalar /\ Generator \in Scalar
    BY HashToCurveAssumption, ScalarAssumption DEF HashToCurveAssumption, ScalarAssumption
<1> HIDE DEF h
<1>2. Mul(Mul(h, alpha), Mul(Generator, r)) = Mul(h, Mul(Mul(Generator, alpha), r))
    <2>1. Mul(alpha, Mul(Generator, r)) = Mul(Mul(Generator, alpha), r)
        BY <1>1, ScalarAssumption DEF ScalarAssumption
    <2>2. \A g \in Scalar : Mul(h, Mul(alpha, g)) = Mul(Mul(h, alpha), g)
        BY <1>1, ScalarAssumption DEF ScalarAssumption
    <2>3. Mul(Generator, r) \in Scalar
        BY <1>1, ScalarAssumption DEF ScalarAssumption
    <2> QED
        BY <2>1, <2>2, <2>3
<1>3. Sha256(Mul(Mul(h, alpha), Mul(Generator, r))) = Sha256(Mul(hash_to_g1(w), Mul(PublicKey(alpha), r)))
        <=> Mul(Mul(h, alpha), Mul(Generator, r)) = Mul(hash_to_g1(w), Mul(PublicKey(alpha), r))
    BY DEF Sha256
<1> QED
    BY <1>2, <1>3 DEF test, generate_trapdoor, encrypt, PublicKey, h

\* test() decides the equality of keywords, and takes all of them for equal
\* when a zero was drawn for the key or for the encryption.
THEOREM TestIsEquality ==
    ASSUME NEW alpha \in Scalar, NEW r \in Scalar, NEW v \in Component, NEW w \in Component
    PROVE  test(generate_trapdoor(alpha, v), encrypt(PublicKey(alpha), w, r)) <=>
              v = w \/ alpha = Zero \/ r = Zero
<1> DEFINE m == Mul(PublicKey(alpha), r)
<1>1. /\ hash_to_g1(v) \in Scalar /\ hash_to_g1(w) \in Scalar
      /\ hash_to_g1(v) = hash_to_g1(w) => v = w
    BY HashToCurveAssumption DEF HashToCurveAssumption
<1>2. CASE alpha # Zero /\ r # Zero
    <2>1. m \in Scalar \ {Zero}
        BY <1>2, PublicKeyNonzero, MulNonzero
    <2> HIDE DEF m
    <2>2. Mul(hash_to_g1(v), m) = Mul(hash_to_g1(w), m) <=> v = w
        BY <1>1, <2>1, MulCancel
    <2> QED
        BY <1>2, <2>2, TestMultiplies DEF m
<1>3. CASE alpha = Zero \/ r = Zero
    <2>1. \A a \in Scalar : Mul(a, Zero) = Zero /\ Mul(Zero, a) = Zero
        <3>1. Zero \in Scalar /\ \A a, b \in Scalar : Mul(a, b) = Mul(b, a)
            BY ScalarAssumption, FieldAssumption DEF ScalarAssumption, FieldAssumption
        <3>2. \A a \in Scalar : Mul(Zero, a) = Zero
            BY FieldAssumption DEF FieldAssumption
        <3> QED
            BY <3>1, <3>2
    <2>2. PublicKey(alpha) \in Scalar /\ (alpha = Zero => PublicKey(alpha) = Zero)
        BY <2>1, ScalarAssumption DEF ScalarAssumption, PublicKey
    <2>3. m = Zero
        BY <1>3, <2>1, <2>2
    <2> QED
        BY <1>1, <1>3, <2>1, <2>3, TestMultiplies
<1> QED
    BY <1>2, <1>3

\* Whatever a ciphertext encrypts, and under whatever key: unless its first
\* element is the identity, one trapdoor at most passes its test.
LEMMA TestFixesTrapdoor ==
    ASSUME NEW t \in Scalar, NEW u \in Scalar, NEW c, c.a \in Scalar \ {Zero},
           test(t, c), test(u, c)
    PROVE  t = u
BY MulCancel DEF test, Sha256

\* Two encryptions under one key are equal only for one scalar, and, unless
\* this is zero, only for one keyword.
LEMMA EncryptInjective ==
    ASSUME NEW alpha \in Scalar \ {Zero}, NEW r \in Scalar, NEW s \in Scalar,
           NEW v \in Component, NEW w \in Component
    PROVE  encrypt(PublicKey(alpha), v, r) = encrypt(PublicKey(alpha), w, s) <=>
              r = s /\ (v = w \/ r = Zero)
<1> DEFINE E(x, k) == encrypt(PublicKey(alpha), x, k)
<1>1. E(v, r) = E(w, s) <=> E(v, r).a = E(w, s).a /\ E(v, r).b = E(w, s).b
    BY DEF encrypt
<1>2. E(v, r).a = E(w, s).a <=> r = s
    BY MulCancel, ScalarAssumption DEF ScalarAssumption, encrypt
<1>3. E(v, r).b = E(w, r).b <=> v = w \/ r = Zero
    <2>1. test(generate_trapdoor(alpha, v), E(w, r)) <=> E(v, r).b = E(w, r).b
        BY TestMultiplies DEF encrypt, Sha256
    <2> QED
        BY <2>1, TestIsEquality
<1> QED
    BY <1>1, <1>2, <1>3

-----------------------------------------------------------------------------
(* Splitting and filtering.                                                *)

\* A set of positions that is not empty has a first one.
LEMMA LeastPosition ==
    ASSUME NEW T \in SUBSET Nat, T # {}
    PROVE  \E x \in T : \A y \in T : x <= y
<1>1. PICK x \in T : \A y \in T : <<y, x>> \notin OpToRel(<, Nat)
    BY NatLessThanWellFounded, WFMin
<1>2. \A y \in T : ~(y < x)
    BY <1>1 DEF OpToRel
<1> QED
    BY <1>2

\* The positions of a sequence, counted.
LEMMA FirstPositions ==
    ASSUME NEW n \in Nat
    PROVE  IsFiniteSet(1..n) /\ Cardinality(1..n) = n
<1>1. Cardinality(1..n) = IF 1 > n THEN 0 ELSE n - 1 + 1
    BY FS_Interval
<1>2. IsFiniteSet(1..n)
    BY FS_Interval
<1> QED
    BY <1>1, <1>2

\* The positions up to n that are in I, counted from the left: there is a
\* k-th one for every k up to their number.
LEMMA KthPosition ==
    ASSUME NEW n \in Nat, NEW I \in SUBSET (1..n), NEW k \in 1..Cardinality(I)
    PROVE  \E i \in I : Cardinality(I \cap (1..i)) = k
<1> DEFINE Upto(i) == I \cap (1..i)
           T == {i \in 0..n : Cardinality(Upto(i)) >= k}
<1>1. IsFiniteSet(I)
    <2>1. IsFiniteSet(1..n)
        BY FirstPositions
    <2> QED
        BY <2>1, FS_Subset
<1>2. Cardinality(I) \in Nat /\ k \in Nat \ {0}
    <2>1. Cardinality(I) \in Nat
        BY <1>1, FS_CardinalityType
    <2> QED
        BY <2>1
<1>3. ASSUME NEW i \in Nat PROVE IsFiniteSet(Upto(i)) /\ Cardinality(Upto(i)) \in Nat
    <2>1. IsFiniteSet(Upto(i))
        BY <1>1, FS_Subset
    <2> QED
        BY <2>1, FS_CardinalityType
<1>4. Cardinality(Upto(n)) = Cardinality(I)
    <2>1. Upto(n) = I
        OBVIOUS
    <2> QED
        BY <2>1
<1>5. Cardinality(Upto(0)) = 0
    <2>1. Upto(0) = {}
        OBVIOUS
    <2> QED
        BY <2>1, FS_EmptySet
<1>6. \A i \in 1..n : Upto(i) = Upto(i - 1) \cup (I \cap {i}) /\ i \notin Upto(i - 1)
    OBVIOUS
<1> HIDE DEF Upto
<1>7. PICK i \in T : \A j \in T : i <= j
    <2>1. T \in SUBSET Nat
        OBVIOUS
    <2>2. n \in T
        BY <1>2, <1>4
    <2> HIDE DEF T
    <2> QED
        BY <2>1, <2>2, LeastPosition
<1>8. i \in 1..n /\ i - 1 \in Nat
    BY <1>2, <1>5, <1>7
<1>9. Cardinality(Upto(i - 1)) < k
    BY <1>2, <1>3, <1>7, <1>8
<1>10. i \in I
    <2>1. SUFFICES ASSUME i \notin I PROVE FALSE
        OBVIOUS
    <2>2. Upto(i) = Upto(i - 1)
        BY <1>6, <1>8, <2>1
    <2> QED
        BY <1>2, <1>3, <1>7, <1>8, <1>9, <2>2
<1>11. Cardinality(Upto(i)) = Cardinality(Upto(i - 1)) + 1
    <2>1. Upto(i) = Upto(i - 1) \cup {i} /\ i \notin Upto(i - 1)
        BY <1>6, <1>8, <1>10
    <2> QED
        BY <1>3, <1>8, <2>1, FS_AddElement
<1>12. Cardinality(Upto(i)) = k
    BY <1>2, <1>3, <1>7, <1>8, <1>9, <1>11
<1> QED
    BY <1>10, <1>12 DEF Upto

\* What is left of a sequence without e: elements of it other than e.
LEMMA WithoutIsSeq ==
    ASSUME NEW S, NEW s \in Seq(S), NEW e
    PROVE  Without(s, e) \in Seq(S \ {e})
<1> DEFINE I == {i \in 1..Len(s) : s[i] # e}
           Kth(k) == CHOOSE i \in I : Cardinality(I \cap (1..i)) = k
<1>1. Len(s) \in Nat /\ I \in SUBSET (1..Len(s))
    OBVIOUS
<1>2. Cardinality(I) \in Nat
    <2> HIDE DEF I
    <2>1. IsFiniteSet(I)
        BY <1>1, FirstPositions, FS_Subset
    <2> QED
        BY <2>1, FS_CardinalityType
<1>3. \A k \in 1..Cardinality(I) : Kth(k) \in I
    <2> HIDE DEF I
    <2> TAKE k \in 1..Cardinality(I)
    <2>1. \E i \in I : Cardinality(I \cap (1..i)) = k
        BY <1>1, KthPosition
    <2> QED
        BY <2>1
<1>4. \A k \in 1..Cardinality(I) : s[Kth(k)] \in S \ {e}
    <2>1. \A i \in I : s[i] \in S \ {e}
        BY ElementOfSeq
    <2> QED
        BY <1>3, <2>1
<1>5. Without(s, e) = [k \in 1..Cardinality(I) |-> s[Kth(k)]]
    BY DEF Without
<1> HIDE DEF I, Kth
<1> QED
    BY <1>2, <1>4, <1>5

\* A sequence in which e does not occur is left as it is.
LEMMA WithoutNone ==
    ASSUME NEW S, NEW s \in Seq(S), NEW e, \A i \in 1..Len(s) : s[i] # e
    PROVE  Without(s, e) = s
<1> DEFINE I == {i \in 1..Len(s) : s[i] # e}
           Kth(k) == CHOOSE i \in I : Cardinality(I \cap (1..i)) = k
<1>1. Len(s) \in Nat /\ I = 1..Len(s)
    OBVIOUS
<1>2. Cardinality(I) = Len(s)
    BY <1>1, FirstPositions
<1>3. \A i \in I : Cardinality(I \cap (1..i)) = i
    <2> TAKE i \in I
    <2>1. I \cap (1..i) = 1..i /\ i \in Nat /\ i >= 1
        BY <1>1
    <2> QED
        BY <2>1, FirstPositions
<1>4. \A k \in 1..Len(s) : Kth(k) = k
    BY <1>1, <1>3
<1>5. Without(s, e) = [k \in 1..Cardinality(I) |-> s[Kth(k)]]
    BY DEF Without
<1> HIDE DEF I, Kth
<1>6. Without(s, e) = [k \in 1..Len(s) |-> s[k]]
    BY <1>2, <1>4, <1>5
<1> QED
    BY <1>6

\* No two elements of a set of positions have equally many before them.
LEMMA KthUnique ==
    ASSUME NEW n \in Nat, NEW I \in SUBSET (1..n), NEW i \in I, NEW j \in I,
           Cardinality(I \cap (1..i)) = Cardinality(I \cap (1..j))
    PROVE  i = j
<1>1. IsFiniteSet(I)
    BY FirstPositions, FS_Subset
<1>2. ASSUME NEW k \in I, NEW l \in I, k < l
      PROVE  Cardinality(I \cap (1..k)) # Cardinality(I \cap (1..l))
    <2>1. I \cap (1..k) \subseteq I \cap (1..l) /\ l \in I \cap (1..l) /\ l \notin I \cap (1..k)
        BY <1>2
    <2>2. IsFiniteSet(I \cap (1..l))
        BY <1>1, FS_Subset
    <2> QED
        BY <2>1, <2>2, FS_Subset
<1> QED
    BY <1>2

\* Moving positions changes nothing about their number.
LEMMA ShiftedPositions ==
    ASSUME NEW I \in SUBSET Nat, IsFiniteSet(I), NEW m \in Nat
    PROVE  LET J == {m + k : k \in I}
           IN  IsFiniteSet(J) /\ Cardinality(J) = Cardinality(I)
<1> DEFINE J == {m + k : k \in I}
           f == [k \in I |-> m + k]
<1>1. f \in Bijection(I, J)
    <2>1. f \in [I -> J]
        OBVIOUS
    <2>2. \A k, l \in I : f[k] = f[l] => k = l
        OBVIOUS
    <2>3. \A j \in J : \E k \in I : f[k] = j
        OBVIOUS
    <2> HIDE DEF f, J
    <2>4. f \in Injection(I, J)
        BY <2>1, <2>2 DEF Injection, IsInjective
    <2>5. f \in Surjection(I, J)
        BY <2>1, <2>3 DEF Surjection
    <2> QED
        BY <2>4, <2>5 DEF Bijection
<1>2. ExistsBijection(I, J)
    BY <1>1 DEF ExistsBijection
<1> HIDE DEF J
<1> QED
    BY <1>2, FS_Bijection DEF J

\* The places of s where its elements other than e are.
Kept(s, e) == {i \in 1..Len(s) : s[i] # e}

\* w is what is left of s at the places in I.
InPlace(S, s, I, w) ==
    /\ IsFiniteSet(I) /\ Cardinality(I) \in Nat
    /\ w \in Seq(S) /\ Len(w) = Cardinality(I)
    /\ \A i \in I : /\ Cardinality(I \cap (1..i)) \in 1..Len(w)
                    /\ w[Cardinality(I \cap (1..i))] = s[i]

\* An element that is kept goes where the number of those up to it says.
LEMMA WithoutKeeps ==
    ASSUME NEW S, NEW s \in Seq(S), NEW e
    PROVE  InPlace(S, s, Kept(s, e), Without(s, e))
<1> DEFINE I == Kept(s, e)
           Count(i) == Cardinality(I \cap (1..i))
           Kth(k) == CHOOSE i \in I : Count(i) = k
<1>1. Len(s) \in Nat /\ I \in SUBSET (1..Len(s))
    BY DEF Kept
<1>2. IsFiniteSet(I) /\ Cardinality(I) \in Nat
    <2> HIDE DEF I
    <2>1. IsFiniteSet(I)
        BY <1>1, FirstPositions, FS_Subset
    <2> QED
        BY <2>1, FS_CardinalityType
<1>3. Without(s, e) = [k \in 1..Cardinality(I) |-> s[Kth(k)]]
    BY DEF Without, Kept
<1>4. Without(s, e) \in Seq(S)
    <2>1. Without(s, e) \in Seq(S \ {e})
        BY WithoutIsSeq
    <2> QED
        BY <2>1, SeqMonotonic
<1> HIDE DEF I
<1>5. Len(Without(s, e)) = Cardinality(I)
    BY <1>2, <1>3, <1>4
<1>6. ASSUME NEW i \in I
      PROVE  Count(i) \in 1..Cardinality(I) /\ Without(s, e)[Count(i)] = s[i]
    <2>1. IsFiniteSet(I \cap (1..i)) /\ Count(i) <= Cardinality(I) /\ Count(i) \in Nat
        BY <1>2, FS_Subset, FS_CardinalityType
    <2>2. Count(i) # 0
        <3>1. i \in I \cap (1..i)
            BY <1>1
        <3> QED
            BY <2>1, <3>1, FS_EmptySet
    <2>3. Count(i) \in 1..Cardinality(I)
        BY <1>2, <2>1, <2>2
    <2>4. Kth(Count(i)) \in I /\ Count(Kth(Count(i))) = Count(i)
        OBVIOUS
    <2>5. Kth(Count(i)) = i
        BY <1>1, <2>4, KthUnique
    <2> HIDE DEF Kth, Count
    <2> QED
        BY <1>3, <2>3, <2>5
<1> HIDE DEF Count
<1> QED
    BY <1>2, <1>4, <1>5, <1>6 DEF Count, I, InPlace

\* Filtering goes part by part.
LEMMA WithoutConcat ==
    ASSUME NEW S, NEW a \in Seq(S), NEW b \in Seq(S), NEW e
    PROVE  Without(a \o b, e) = Without(a, e) \o Without(b, e)
<1> DEFINE s == a \o b
           m == Len(a)
           A == Kept(a, e)
           B == Kept(b, e)
           K == Kept(s, e)
           Moved(J) == {m + k : k \in J}
           wa == Without(a, e)
           wb == Without(b, e)
           ws == Without(s, e)
<1>1. /\ s \in Seq(S) /\ Len(s) = m + Len(b) /\ m \in Nat /\ Len(b) \in Nat
      /\ \A i \in 1..m : s[i] = a[i]
      /\ \A j \in 1..Len(b) : s[m + j] = b[j]
    BY ConcatProperties
<1>2. InPlace(S, a, A, wa)
    BY WithoutKeeps
<1>3. InPlace(S, b, B, wb)
    BY WithoutKeeps
<1> HIDE DEF s
<1>4. /\ InPlace(S, s, K, ws)
      /\ \A k \in 1..Cardinality(K) : \E i \in K : Cardinality(K \cap (1..i)) = k
    <2> HIDE DEF K, ws
    <2>1. InPlace(S, s, K, ws)
        BY <1>1, WithoutKeeps DEF K, ws
    <2>2. \A k \in 1..Cardinality(K) : \E i \in K : Cardinality(K \cap (1..i)) = k
        <3>1. K \in SUBSET (1..Len(s)) /\ Len(s) \in Nat
            BY <1>1 DEF K, Kept
        <3> QED
            BY <3>1, KthPosition
    <2> QED
        BY <2>1, <2>2
<1>5. A \subseteq 1..m /\ B \subseteq 1..Len(b) /\ K = A \cup Moved(B) /\ A \cap Moved(B) = {}
    <2>1. A \subseteq 1..m /\ B \subseteq 1..Len(b) /\ K \subseteq 1..(m + Len(b))
        BY <1>1 DEF Kept
    <2>2. \A i \in 1..m : i \in K <=> i \in A
        BY <1>1 DEF Kept
    <2>3. \A j \in 1..Len(b) : m + j \in K <=> j \in B
        BY <1>1 DEF Kept
    <2> HIDE DEF A, B, K, m
    <2>4. \A i \in 1..(m + Len(b)) : i \in 1..m \/ (i - m \in 1..Len(b) /\ i = m + (i - m))
        BY <1>1
    <2>5. \A i \in K : i \in A \cup Moved(B)
        BY <2>1, <2>2, <2>3, <2>4
    <2>6. \A i \in Moved(B) : i \in K /\ i \notin 1..m
        BY <1>1, <2>1, <2>3
    <2> QED
        BY <2>1, <2>2, <2>5, <2>6
<1> HIDE DEF A, B, K, m, wa, wb, ws
<1>6. ASSUME NEW J \in SUBSET B
      PROVE  Cardinality(A \cup Moved(J)) = Cardinality(A) + Cardinality(J) /\ Cardinality(J) \in Nat
    <2>1. IsFiniteSet(J) /\ J \in SUBSET Nat /\ Cardinality(J) \in Nat
        <3>1. IsFiniteSet(J)
            BY <1>3, FS_Subset DEF InPlace
        <3>2. J \in SUBSET Nat
            BY <1>5
        <3>3. Cardinality(J) \in Nat
            BY <3>1, FS_CardinalityType
        <3> QED
            BY <3>1, <3>2, <3>3
    <2>2. IsFiniteSet(Moved(J)) /\ Cardinality(Moved(J)) = Cardinality(J)
        BY <1>1, <2>1, ShiftedPositions
    <2>3. A \cap Moved(J) = {}
        BY <1>5
    <2> HIDE DEF Moved
    <2>4. Cardinality(A \cup Moved(J)) = Cardinality(A) + Cardinality(Moved(J)) - Cardinality({})
        BY <1>2, <2>2, <2>3, FS_Union DEF InPlace
    <2> QED
        BY <1>2, <2>1, <2>2, <2>4, FS_EmptySet DEF InPlace
<1>7. Cardinality(K) = Cardinality(A) + Cardinality(B)
    BY <1>5, <1>6
<1>8. /\ wa \o wb \in Seq(S) /\ Len(wa \o wb) = Len(ws)
      /\ \A k \in 1..Len(wa) : (wa \o wb)[k] = wa[k]
      /\ \A k \in 1..Len(wb) : (wa \o wb)[Len(wa) + k] = wb[k]
    <2>1. /\ wa \o wb \in Seq(S) /\ Len(wa \o wb) = Len(wa) + Len(wb)
          /\ \A k \in 1..Len(wa) : (wa \o wb)[k] = wa[k]
          /\ \A k \in 1..Len(wb) : (wa \o wb)[Len(wa) + k] = wb[k]
        <3>1. wa \in Seq(S) /\ wb \in Seq(S)
            BY <1>2, <1>3 DEF InPlace
        <3> QED
            BY <3>1, ConcatProperties
    <2> QED
        BY <1>2, <1>3, <1>4, <1>7, <2>1 DEF InPlace
<1>9. ASSUME NEW k \in 1..Len(ws) PROVE ws[k] = (wa \o wb)[k]
    <2>1. PICK i \in K : Cardinality(K \cap (1..i)) = k
        BY <1>4 DEF InPlace
    <2>2. ws[k] = s[i]
        BY <1>4, <2>1 DEF InPlace
    <2>3. CASE i \in A
        <3>1. K \cap (1..i) = A \cap (1..i)
            BY <1>1, <1>5, <2>3
        <3>2. k \in 1..Len(wa) /\ wa[k] = a[i] /\ s[i] = a[i]
            BY <1>1, <1>2, <1>5, <2>1, <2>3, <3>1 DEF InPlace
        <3> QED
            BY <1>8, <2>2, <3>2
    <2>4. ASSUME NEW j \in B, i = m + j PROVE ws[k] = (wa \o wb)[k]
        <3>1. j \in Nat
            BY <1>5
        <3>2. \A l \in Nat : m + l \in 1..i <=> l <= j /\ 1 <= m + l
            BY <1>1, <2>4, <3>1
        <3>3. A \subseteq 1..i
            BY <1>1, <1>5, <2>4, <3>1
        <3>4. K \cap (1..i) = A \cup Moved(B \cap (1..j))
            <4>1. \A l \in B : m + l \in 1..i <=> l \in 1..j
                BY <1>1, <1>5, <3>1, <2>4
            <4>2. Moved(B) \cap (1..i) = Moved(B \cap (1..j))
                BY <4>1
            <4> QED
                BY <1>5, <3>3, <4>2
        <3>5. k = Len(wa) + Cardinality(B \cap (1..j))
            BY <1>2, <1>6, <2>1, <3>4 DEF InPlace
        <3>6. s[i] = b[j]
            BY <1>1, <1>5, <2>4
        <3> QED
            BY <1>3, <1>8, <2>2, <2>4, <3>5, <3>6 DEF InPlace
    <2> QED
        BY <1>5, <2>3, <2>4
<1> QED
    BY <1>4, <1>8, <1>9, SeqEqual DEF wa, wb, ws, s, InPlace

\* Of e alone nothing is left.
LEMMA WithoutOne ==
    ASSUME NEW S, NEW e \in S
    PROVE  <<e>> \in Seq(S) /\ Without(<<e>>, e) = << >>
<1> DEFINE one == <<e>>
<1>1. one \in Seq(S) /\ \A j \in 1..Len(one) : one[j] = e
    OBVIOUS
<1> HIDE DEF one
<1>2. Without(one, e) \in Seq(S \ {e})
    BY <1>1, WithoutIsSeq
<1>3. InPlace(S, one, Kept(one, e), Without(one, e))
    BY <1>1, WithoutKeeps
<1>4. Kept(one, e) = {}
    BY <1>1 DEF Kept
<1>5. Len(Without(one, e)) = 0
    BY <1>3, <1>4, FS_EmptySet DEF InPlace
<1>6. Without(one, e) = << >>
    BY <1>2, <1>5, EmptySeq
<1> QED
    BY <1>1, <1>6 DEF one

\* An element e more makes no difference.
LEMMA WithoutInserted ==
    ASSUME NEW S, NEW s \in Seq(S), NEW e \in S, NEW i \in 1..(Len(s) + 1)
    PROVE  InsertAt(s, i, e) \in Seq(S) \ {<< >>} /\ Without(InsertAt(s, i, e), e) = Without(s, e)
<1> DEFINE a == SubSeq(s, 1, i - 1)
           b == SubSeq(s, i, Len(s))
           one == <<e>>
<1>1. Len(s) \in Nat /\ i \in Nat \ {0} /\ i <= Len(s) + 1
    OBVIOUS
<1>2. a \in Seq(S) /\ b \in Seq(S)
    <2>1. \A k \in 1..Len(s) : s[k] \in S
        BY ElementOfSeq
    <2>2. (\A k \in 1..(i - 1) : s[k] \in S) /\ (\A k \in i..Len(s) : s[k] \in S)
        BY <1>1, <2>1
    <2> QED
        BY <1>1, <2>2, SubSeqProperties
<1>3. s = a \o b
    <2>1. ASSUME NEW k \in 0..Len(s)
          PROVE  SubSeq(s, 1, k) \o SubSeq(s, k + 1, Len(s)) = SubSeq(s, 1, Len(s))
        <3>1. 1 \in 1..(Len(s) + 1) /\ k \in (1 - 1)..Len(s) /\ Len(s) \in k..Len(s)
            BY <1>1, <2>1
        <3> QED
            BY <3>1, ConcatAdjacentSubSeq
    <2>2. i - 1 \in 0..Len(s) /\ (i - 1) + 1 = i
        BY <1>1
    <2>3. SubSeq(s, 1, i - 1) \o SubSeq(s, i, Len(s)) = SubSeq(s, 1, Len(s))
        BY <2>1, <2>2
    <2> QED
        BY <2>3, SubSeqFull
<1>4. one \in Seq(S) /\ Len(one) = 1 /\ Without(one, e) = << >>
    BY WithoutOne
<1>5. InsertAt(s, i, e) = (a \o one) \o b
    BY DEF InsertAt
<1> HIDE DEF a, b, one
<1> DEFINE ab == a \o one
<1>6. ab \in Seq(S) /\ Len(ab) = Len(a) + 1 /\ Without(ab, e) = Without(a, e)
    <2>1. ab \in Seq(S) /\ Len(ab) = Len(a) + Len(one)
        BY <1>2, <1>4, ConcatProperties
    <2>2. Without(ab, e) = Without(a, e) \o Without(one, e)
        <3>1. a \in Seq(S) /\ one \in Seq(S)
            BY <1>2, <1>4
        <3> QED
            BY <3>1, WithoutConcat
    <2>3. Without(a, e) \in Seq(S \ {e})
        BY <1>2, WithoutIsSeq
    <2>4. Without(a, e) \o << >> = Without(a, e)
        BY <2>3, ConcatEmptySeq
    <2> QED
        BY <1>4, <2>1, <2>2, <2>4
<1>7. InsertAt(s, i, e) = ab \o b
    BY <1>5
<1> HIDE DEF ab
<1>8. ab \o b \in Seq(S) /\ Len(ab \o b) = Len(ab) + Len(b)
    BY <1>2, <1>6, ConcatProperties
<1>9. Without(ab \o b, e) = Without(a \o b, e)
    <2>1. Without(ab \o b, e) = Without(ab, e) \o Without(b, e)
        <3>1. ab \in Seq(S) /\ b \in Seq(S)
            BY <1>2, <1>6
        <3> QED
            BY <3>1, WithoutConcat
    <2>2. Without(a \o b, e) = Without(a, e) \o Without(b, e)
        BY <1>2, WithoutConcat
    <2> QED
        BY <1>6, <2>1, <2>2
<1>10. ab \o b # << >>
    <2>1. Len(ab \o b) # 0
        BY <1>2, <1>6, <1>8
    <2> QED
        BY <2>1
<1> QED
    BY <1>3, <1>7, <1>8, <1>9, <1>10

\* A first element other than e stays the first.
LEMMA WithoutTail ==
    ASSUME NEW S, NEW s \in Seq(S) \ {<< >>}, NEW e, s[1] # e
    PROVE  /\ Without(s, e) # << >> /\ Without(s, e)[1] = s[1]
           /\ Tail(Without(s, e)) = Without(Tail(s), e)
<1> DEFINE one == <<s[1]>>
           t == Tail(s)
<1>1. s[1] \in S
    BY EmptySeq, ElementOfSeq
<1>2. t \in Seq(S) /\ s = one \o t
    BY HeadTailProperties
<1>3. one \in Seq(S) /\ Len(one) = 1 /\ one[1] = s[1]
    BY <1>1
<1> HIDE DEF one, t
<1>4. Without(s, e) = Without(one, e) \o Without(t, e)
    BY <1>2, <1>3, WithoutConcat
<1>5. Without(one, e) = one
    <2>1. \A i \in 1..Len(one) : one[i] # e
        BY <1>3
    <2> QED
        BY <1>3, <2>1, WithoutNone
<1>6. Without(t, e) \in Seq(S \ {e})
    BY <1>2, WithoutIsSeq
<1>7. Without(s, e) = one \o Without(t, e) /\ one = <<s[1]>>
    BY <1>4, <1>5 DEF one
<1> QED
    BY <1>6, <1>7 DEF t

-----------------------------------------------------------------------------
(* Names.                                                                  *)

\* The components of a name: at least one, none of them empty.
LEMMA ParsedName ==
    ASSUME NEW name \in RawName, parse_name(name).ok
    PROVE  /\ parse_name(name).val \in Seq(Component) \ {<< >>}
           /\ parse_name(name) = Ok(parse_name(name).val)
<1> DEFINE components == Without(Tail(name), "")
<1>1. /\ parse_name(name) = Ok(components)
      /\ components # << >>
    BY DEF parse_name, Ok, Err
<1>2. Tail(name) \in Seq(Component \cup {""})
    BY HeadTailProperties DEF RawName
<1>3. components \in Seq((Component \cup {""}) \ {""})
    BY <1>2, WithoutIsSeq
<1>4. (Component \cup {""}) \ {""} = Component
    BY ComponentAssumption DEF ComponentAssumption
<1>5. components \in Seq(Component) \ {<< >>}
    BY <1>1, <1>3, <1>4
<1> HIDE DEF components
<1>6. parse_name(name).val = components
    BY <1>1 DEF Ok
<1> QED
    BY <1>1, <1>5, <1>6

\* A name written without empty components parses to its components.
LEMMA PlainName ==
    ASSUME NEW components \in Seq(Component) \ {<< >>}
    PROVE  /\ <<"">> \o components \in RawName
           /\ parse_name(<<"">> \o components) = Ok(components)
<1> DEFINE slash == <<"">>
           name == slash \o components
           Chars == Component \cup {""}
           n == Len(components)
<1>1. n \in Nat /\ n # 0
    BY EmptySeq
<1>2. components \in Seq(Chars)
    BY SeqMonotonic
<1>3. slash \in Seq(Chars) /\ Len(slash) = 1
    OBVIOUS
<1> HIDE DEF Chars, slash
<1>4. /\ name \in Seq(Chars) /\ Len(name) = 1 + n
      /\ name[1] = slash[1]
      /\ \A i \in 1..n : name[i + 1] = components[i]
    <2> DEFINE m == Len(slash)
    <2>1. /\ name \in Seq(Chars) /\ Len(name) = m + n
          /\ \A i \in 1..(m + n) : name[i] = IF i <= m THEN slash[i] ELSE components[i - m]
        BY <1>2, <1>3, ConcatProperties
    <2> HIDE DEF name, n
    <2>2. m = 1
        BY <1>3
    <2> HIDE DEF m
    <2>3. name[1] = slash[1]
        BY <1>1, <2>1, <2>2
    <2>4. \A i \in 1..n : name[i + 1] = components[i]
        BY <1>1, <2>1, <2>2
    <2> QED
        BY <2>1, <2>2, <2>3, <2>4
<1> HIDE DEF name, n
<1>5. Len(name) # 0 /\ Len(name) # 1
    BY <1>1, <1>4
<1>6. name # << >> /\ name # slash
    <2>1. Len(<< >>) = 0
        OBVIOUS
    <2> QED
        BY <1>3, <1>5, <2>1, Zenon
<1>7. /\ Tail(name) \in Seq(Chars) /\ Len(Tail(name)) = n
      /\ \A i \in 1..n : Tail(name)[i] = name[i + 1]
    BY <1>1, <1>4, <1>6, HeadTailProperties
<1>8. Tail(name) = components
    BY <1>2, <1>4, <1>7, SeqEqual DEF n
<1>9. Without(components, "") = components
    <2>1. \A i \in 1..Len(components) : components[i] # ""
        BY ElementOfSeq, ComponentAssumption DEF ComponentAssumption
    <2> QED
        BY <2>1, WithoutNone
<1>10. name \in RawName
    BY <1>4, <1>6 DEF RawName, Chars
<1>11. name[1] = ""
    BY <1>4 DEF slash
<1>12. parse_name(name) = Ok(components)
    BY <1>6, <1>8, <1>9, <1>11 DEF parse_name, slash
<1> QED
    BY <1>10, <1>12 DEF name, slash

\* The trapdoors of a name: one for each of its components.
LEMMA TrapdoorsOfName ==
    ASSUME NEW alpha \in Scalar, NEW name \in RawName, parse_name(name).ok
    PROVE  LET nt == name_to_trapdoor(alpha, name)
               components == parse_name(name).val
           IN  /\ nt.ok /\ nt.val \in Seq(Scalar) \ {<< >>}
               /\ Len(nt.val) = Len(components)
               /\ \A i \in 1..Len(components) : nt.val[i] = generate_trapdoor(alpha, components[i])
<1> DEFINE components == parse_name(name).val
           nt == name_to_trapdoor(alpha, name)
<1>1. components \in Seq(Component) /\ Len(components) \in Nat \ {0}
    BY ParsedName, EmptySeq
<1>2. \A i \in 1..Len(components) : generate_trapdoor(alpha, components[i]) \in Scalar
    BY <1>1, ElementOfSeq, TrapdoorType
<1>3. nt = Ok([i \in 1..Len(components) |-> generate_trapdoor(alpha, components[i])])
    BY DEF name_to_trapdoor
<1> HIDE DEF components, nt
<1>4. nt.ok /\ nt.val = [i \in 1..Len(components) |-> generate_trapdoor(alpha, components[i])]
    BY <1>3 DEF Ok
<1> QED
    BY <1>1, <1>2, <1>4 DEF components, nt

\* The ciphertexts of a name: one for each of its components.
LEMMA CiphertextsOfName ==
    ASSUME NEW h, NEW r, NEW name \in RawName, parse_name(name).ok
    PROVE  LET nc == name_to_ciphertext(h, name, r)
               components == parse_name(name).val
           IN  /\ nc.ok /\ nc.val \in Seq(Range(nc.val)) \ {<< >>}
               /\ Len(nc.val) = Len(components)
               /\ \A i \in 1..Len(components) : nc.val[i] = encrypt(h, components[i], r[i])
<1> DEFINE components == parse_name(name).val
           nc == name_to_ciphertext(h, name, r)
<1>1. components \in Seq(Component) /\ Len(components) \in Nat \ {0}
    BY ParsedName, EmptySeq
<1>2. nc = Ok([i \in 1..Len(components) |-> encrypt(h, components[i], r[i])])
    BY DEF name_to_ciphertext
<1> HIDE DEF components, nc
<1>3. nc.ok /\ nc.val = [i \in 1..Len(components) |-> encrypt(h, components[i], r[i])]
    BY <1>2 DEF Ok
<1>4. nc.val \in Seq(Range(nc.val))
    BY <1>1, <1>3 DEF Range
<1> QED
    BY <1>1, <1>3, <1>4 DEF components, nc

\* Names that do not parse have neither; those that do have both.
LEMMA ParseDecides ==
    ASSUME NEW k, NEW r, NEW name
    PROVE  /\ name_to_trapdoor(k, name).ok <=> parse_name(name).ok
           /\ name_to_ciphertext(k, name, r).ok <=> parse_name(name).ok
BY DEF name_to_trapdoor, name_to_ciphertext, parse_name, Ok, Err

\* Two names have the same components exactly when these are equal one by
\* one.
LEMMA AliasIsComponentwise ==
    ASSUME NEW m \in RawName, NEW n \in RawName, parse_name(m).ok, parse_name(n).ok
    PROVE  Alias(m, n) <=> /\ Len(parse_name(m).val) = Len(parse_name(n).val)
                           /\ \A i \in 1..Len(parse_name(m).val) :
                                 parse_name(m).val[i] = parse_name(n).val[i]
<1> DEFINE v == parse_name(m).val
           w == parse_name(n).val
<1>1. v \in Seq(Component) /\ w \in Seq(Component) /\ parse_name(m) = Ok(v) /\ parse_name(n) = Ok(w)
    BY ParsedName
<1> HIDE DEF v, w
<1>2. Alias(m, n) <=> v = w
    <2>1. Ok(v) = Ok(w) <=> v = w
        BY DEF Ok
    <2> QED
        BY <1>1, <2>1 DEF Alias
<1>3. v = w <=> Len(v) = Len(w) /\ \A i \in 1..Len(v) : v[i] = w[i]
    BY <1>1, SeqEqual
<1> QED
    BY <1>2, <1>3 DEF v, w

\* There is a scalar for every component of a name.
LEMMA ScalarOfComponent ==
    ASSUME NEW S, NEW r \in Seq(S), NEW n \in RawName, parse_name(n).ok, Covers(r, n),
           NEW i \in 1..Len(parse_name(n).val)
    PROVE  r[i] \in S
<1>1. Len(parse_name(n).val) \in Nat /\ Len(r) \in Nat
    BY ParsedName, EmptySeq
<1>2. i \in 1..Len(r)
    BY <1>1 DEF Covers
<1> QED
    BY <1>2, ElementOfSeq

\* The trapdoors of one name pass the tests of another name's ciphertexts,
\* one by one and leaving none over, exactly when the names have the same
\* components but for those that were encrypted with zero: name.rs on top of
\* peks.rs compares what the scalars hide.
THEOREM NamesTested ==
    ASSUME NEW alpha \in Scalar \ {Zero}, NEW r \in Seq(Scalar),
           NEW m \in RawName, NEW n \in RawName, parse_name(m).ok, parse_name(n).ok, Covers(r, n)
    PROVE  LET nt == name_to_trapdoor(alpha, m).val
               nc == name_to_ciphertext(PublicKey(alpha), n, r).val
           IN  (Len(nt) = Len(nc) /\ \A i \in 1..Len(nt) : test(nt[i], nc[i]))
                  <=> AgreeWhereHidden(parse_name(m).val, parse_name(n).val, r)
<1> DEFINE nt == name_to_trapdoor(alpha, m).val
           nc == name_to_ciphertext(PublicKey(alpha), n, r).val
           v == parse_name(m).val
           w == parse_name(n).val
<1>1. /\ Len(nt) = Len(v)
      /\ \A i \in 1..Len(v) : nt[i] = generate_trapdoor(alpha, v[i])
    BY TrapdoorsOfName
<1>2. /\ Len(nc) = Len(w)
      /\ \A i \in 1..Len(w) : nc[i] = encrypt(PublicKey(alpha), w[i], r[i])
    BY CiphertextsOfName
<1>3. v \in Seq(Component) /\ w \in Seq(Component)
    BY ParsedName
<1>4. \A i \in 1..Len(w) : r[i] \in Scalar
    BY ScalarOfComponent
<1> HIDE DEF nt, nc, v, w
<1>5. ASSUME Len(v) = Len(w), NEW i \in 1..Len(v)
      PROVE  test(nt[i], nc[i]) <=> r[i] = Zero \/ v[i] = w[i]
    <2>1. v[i] \in Component /\ w[i] \in Component /\ r[i] \in Scalar
        BY <1>3, <1>4, <1>5, ElementOfSeq
    <2> QED
        BY <1>1, <1>2, <1>5, <2>1, TestIsEquality
<1>6. (Len(nt) = Len(nc) /\ \A i \in 1..Len(nt) : test(nt[i], nc[i])) <=> AgreeWhereHidden(v, w, r)
    BY <1>1, <1>2, <1>5 DEF AgreeWhereHidden
<1> QED
    BY <1>6 DEF nt, nc, v, w

\* Scalars other than zero leave no component out of the comparison.
LEMMA AgreementIsAlias ==
    ASSUME NEW r \in Seq(Scalar \ {Zero}), NEW m \in RawName, NEW n \in RawName,
           parse_name(m).ok, parse_name(n).ok, Covers(r, n)
    PROVE  AgreeWhereHidden(parse_name(m).val, parse_name(n).val, r) <=> Alias(m, n)
<1> DEFINE v == parse_name(m).val
           w == parse_name(n).val
<1>1. Alias(m, n) <=> Len(v) = Len(w) /\ \A i \in 1..Len(v) : v[i] = w[i]
    BY AliasIsComponentwise
<1>2. \A i \in 1..Len(w) : r[i] # Zero
    BY ScalarOfComponent
<1> QED
    BY <1>1, <1>2 DEF AgreeWhereHidden

\* So with scalars other than zero name.rs compares names.
THEOREM NamesCompared ==
    ASSUME NEW alpha \in Scalar \ {Zero}, NEW r \in Seq(Scalar \ {Zero}),
           NEW m \in RawName, NEW n \in RawName, parse_name(m).ok, parse_name(n).ok, Covers(r, n)
    PROVE  LET nt == name_to_trapdoor(alpha, m).val
               nc == name_to_ciphertext(PublicKey(alpha), n, r).val
           IN  Alias(m, n) <=> /\ Len(nt) = Len(nc)
                               /\ \A i \in 1..Len(nt) : test(nt[i], nc[i])
<1>1. r \in Seq(Scalar)
    OBVIOUS
<1> QED
    BY <1>1, NamesTested, AgreementIsAlias

\* Trapdoor sequences tell names apart as far as their components do.
LEMMA TrapdoorsTellNames ==
    ASSUME NEW alpha \in Scalar \ {Zero}, NEW m \in RawName, NEW n \in RawName,
           parse_name(m).ok, parse_name(n).ok
    PROVE  name_to_trapdoor(alpha, m).val = name_to_trapdoor(alpha, n).val <=> Alias(m, n)
<1> DEFINE s == name_to_trapdoor(alpha, m).val
           t == name_to_trapdoor(alpha, n).val
           v == parse_name(m).val
           w == parse_name(n).val
<1>1. /\ s \in Seq(Scalar) /\ Len(s) = Len(v)
      /\ \A i \in 1..Len(v) : s[i] = generate_trapdoor(alpha, v[i])
    BY TrapdoorsOfName
<1>2. /\ t \in Seq(Scalar) /\ Len(t) = Len(w)
      /\ \A i \in 1..Len(w) : t[i] = generate_trapdoor(alpha, w[i])
    BY TrapdoorsOfName
<1>3. v \in Seq(Component) /\ w \in Seq(Component)
    BY ParsedName
<1>4. Alias(m, n) <=> Len(v) = Len(w) /\ \A i \in 1..Len(v) : v[i] = w[i]
    BY AliasIsComponentwise
<1> HIDE DEF s, t, v, w
<1>5. s = t <=> Len(s) = Len(t) /\ \A i \in 1..Len(s) : s[i] = t[i]
    BY <1>1, <1>2, SeqEqual
<1>6. ASSUME Len(v) = Len(w), NEW i \in 1..Len(v)
      PROVE  s[i] = t[i] <=> v[i] = w[i]
    <2>1. v[i] \in Component /\ w[i] \in Component
        BY <1>3, <1>6, ElementOfSeq
    <2> QED
        BY <1>1, <1>2, <1>6, <2>1, TrapdoorInjective
<1> QED
    BY <1>1, <1>2, <1>4, <1>5, <1>6 DEF s, t

\* Encryptions of names are equal only if their first scalars are: no
\* interest is made twice.
LEMMA CiphertextsTellInterests ==
    ASSUME NEW alpha \in Scalar \ {Zero}, NEW r \in Seq(Scalar), NEW s \in Seq(Scalar),
           NEW m \in RawName, NEW n \in RawName, parse_name(m).ok, parse_name(n).ok,
           Covers(r, m), Covers(s, n),
           name_to_ciphertext(PublicKey(alpha), m, r).val = name_to_ciphertext(PublicKey(alpha), n, s).val
    PROVE  r[1] = s[1]
<1> DEFINE v == parse_name(m).val
           w == parse_name(n).val
           c == name_to_ciphertext(PublicKey(alpha), m, r).val
<1>1. v \in Seq(Component) /\ w \in Seq(Component) /\ Len(v) \in Nat \ {0}
    BY ParsedName, EmptySeq
<1>2. /\ Len(c) = Len(v) /\ Len(c) = Len(w)
      /\ \A i \in 1..Len(v) : c[i] = encrypt(PublicKey(alpha), v[i], r[i])
      /\ \A i \in 1..Len(w) : c[i] = encrypt(PublicKey(alpha), w[i], s[i])
    BY CiphertextsOfName
<1>3. /\ \A i \in 1..Len(v) : r[i] \in Scalar
      /\ \A i \in 1..Len(w) : s[i] \in Scalar
    BY ScalarOfComponent
<1> HIDE DEF v, w, c
<1>4. 1 \in 1..Len(v) /\ 1 \in 1..Len(w)
    BY <1>1, <1>2
<1>5. v[1] \in Component /\ w[1] \in Component
    BY <1>1, <1>4, ElementOfSeq
<1>6. encrypt(PublicKey(alpha), v[1], r[1]) = encrypt(PublicKey(alpha), w[1], s[1])
    BY <1>2, <1>4
<1>7. r[1] \in Scalar /\ s[1] \in Scalar
    BY <1>3, <1>4
<1> QED
    BY <1>5, <1>6, <1>7, EncryptInjective

-----------------------------------------------------------------------------
(* URIs.                                                                   *)

\* What Rust's str::split makes of the text after the prefix.
IsPath(path) == path \in Seq(Range(path)) \ {<< >>}

-----------------------------------------------------------------------------
(* Any URI.                                                                *)

\* An accepted registration carries a point of G1.
LEMMA RegistrationDecoded ==
    ASSUME NEW uri, decode_trapdoor_registration(uri).ok
    PROVE  decode_trapdoor_registration(uri).val \in Scalar
BY DEF decode_trapdoor_registration, AfterMarker, DecodeTrapdoor, Trapdoor_from_bytes,
       Decode64, Ok, Err

\* Decoding each of some components gives the values in their order, unless
\* one of them cannot be decoded.
LEMMA TrapdoorsEachDecoded ==
    ASSUME NEW comps, Len(comps) \in Nat
    PROVE  LET each == DecodeEach(comps, DecodeTrapdoor)
           IN  /\ each.ok <=> \A i \in 1..Len(comps) : DecodeTrapdoor(comps[i]).ok
               /\ each.ok => each = Ok([i \in 1..Len(comps) |-> DecodeTrapdoor(comps[i]).val])
<1> DEFINE each == DecodeEach(comps, DecodeTrapdoor)
           bad == {i \in 1..Len(comps) : ~DecodeTrapdoor(comps[i]).ok}
<1>1. CASE bad = {}
    <2>1. each = Ok([i \in 1..Len(comps) |-> DecodeTrapdoor(comps[i]).val])
        BY <1>1 DEF DecodeEach
    <2>2. each.ok
        BY <2>1 DEF Ok
    <2> HIDE DEF each
    <2> QED
        BY <1>1, <2>1, <2>2 DEF each
<1>2. CASE bad # {}
    <2> DEFINE i == CHOOSE i \in bad : \A j \in bad : i <= j
    <2>1. each = DecodeTrapdoor(comps[i])
        BY <1>2 DEF DecodeEach
    <2>2. i \in bad
        <3>1. bad \in SUBSET Nat
            OBVIOUS
        <3> HIDE DEF bad
        <3> QED
            BY <1>2, <3>1, LeastPosition
    <2>3. ~each.ok
        BY <2>1, <2>2
    <2> QED
        BY <2>2, <2>3
<1> QED
    BY <1>1, <1>2

\* The same for the components of an interest.
LEMMA CiphertextsEachDecoded ==
    ASSUME NEW comps, Len(comps) \in Nat
    PROVE  LET each == DecodeEach(comps, DecodeCiphertext)
           IN  /\ each.ok <=> \A i \in 1..Len(comps) : DecodeCiphertext(comps[i]).ok
               /\ each.ok => each = Ok([i \in 1..Len(comps) |-> DecodeCiphertext(comps[i]).val])
<1> DEFINE each == DecodeEach(comps, DecodeCiphertext)
           bad == {i \in 1..Len(comps) : ~DecodeCiphertext(comps[i]).ok}
<1>1. CASE bad = {}
    <2>1. each = Ok([i \in 1..Len(comps) |-> DecodeCiphertext(comps[i]).val])
        BY <1>1 DEF DecodeEach
    <2>2. each.ok
        BY <2>1 DEF Ok
    <2> HIDE DEF each
    <2> QED
        BY <1>1, <2>1, <2>2 DEF each
<1>2. CASE bad # {}
    <2> DEFINE i == CHOOSE i \in bad : \A j \in bad : i <= j
    <2>1. each = DecodeCiphertext(comps[i])
        BY <1>2 DEF DecodeEach
    <2>2. i \in bad
        <3>1. bad \in SUBSET Nat
            OBVIOUS
        <3> HIDE DEF bad
        <3> QED
            BY <1>2, <3>1, LeastPosition
    <2>3. ~each.ok
        BY <2>1, <2>2
    <2> QED
        BY <2>2, <2>3
<1> QED
    BY <1>1, <1>2

\* An accepted update carries at least one trapdoor, each a point of G1.
LEMMA UpdateDecoded ==
    ASSUME NEW uri, IsPath(uri.path), decode_trapdoor_update(uri).ok
    PROVE  decode_trapdoor_update(uri).val.trapdoors \in Seq(Scalar) \ {<< >>}
<1> DEFINE comps == AfterMarker(uri, Tw)
           front == Front(comps.val)
           trapdoors == DecodeEach(front, DecodeTrapdoor)
<1>1. /\ comps.ok /\ ~(Len(comps.val) < 2) /\ trapdoors.ok
      /\ decode_trapdoor_update(uri).val.trapdoors = trapdoors.val
    BY DEF decode_trapdoor_update, Ok, Err
<1>2. comps.val = Without(Tail(uri.path), Text(""))
    BY <1>1 DEF AfterMarker, Ok, Err
<1>3. Tail(uri.path) \in Seq(Range(uri.path))
    BY HeadTailProperties DEF IsPath
<1> DEFINE T == Range(uri.path) \ {Text("")}
<1>4. comps.val \in Seq(T)
    <2> DEFINE S == Range(uri.path)
               path == Tail(uri.path)
               e == Text("")
               val == comps.val
    <2>1. val = Without(path, e) /\ path \in Seq(S) /\ T = S \ {e}
        BY <1>2, <1>3
    <2> HIDE DEF S, path, e, val, T, comps
    <2>2. val \in Seq(T)
        BY <2>1, WithoutIsSeq
    <2> QED
        BY <2>2 DEF val
<1> HIDE DEF comps, T
<1> DEFINE n == Len(comps.val)
<1>5. Len(front) \in Nat \ {0}
    <2>1. n \in Nat /\ 2 <= n
        BY <1>1, <1>4
    <2>2. \A i \in 1..(n - 1) : comps.val[i] \in T
        BY <1>4, <2>1, ElementOfSeq
    <2>3. front = SubSeq(comps.val, 1, n - 1)
        BY DEF Front
    <2> HIDE DEF front, n
    <2>4. Len(SubSeq(comps.val, 1, n - 1)) = n - 1
        BY <2>1, <2>2, SubSeqProperties
    <2>5. Len(front) = n - 1
        BY <2>3, <2>4
    <2> QED
        BY <2>1, <2>5
<1> HIDE DEF front
<1>6. /\ \A i \in 1..Len(front) : DecodeTrapdoor(front[i]).ok
      /\ trapdoors = Ok([i \in 1..Len(front) |-> DecodeTrapdoor(front[i]).val])
    BY <1>1, <1>5, TrapdoorsEachDecoded
<1> HIDE DEF trapdoors
<1>7. trapdoors.val = [i \in 1..Len(front) |-> DecodeTrapdoor(front[i]).val]
    BY <1>6 DEF Ok
<1>8. \A i \in 1..Len(front) : DecodeTrapdoor(front[i]).val \in Scalar
    BY <1>6 DEF DecodeTrapdoor, Trapdoor_from_bytes, Ok, Err
<1> QED
    BY <1>1, <1>5, <1>7, <1>8

-----------------------------------------------------------------------------
(* The encoders' own URIs.                                                 *)

\* The markers are not empty.
LEMMA TextsDiffer == Tw # Text("") /\ TwReg # Text("") /\ Tw # TwReg
BY DEF Tw, TwReg, Text

\* base64 text is neither empty nor a marker, and decodes to its bytes.
LEMMA Base64 ==
    ASSUME NEW bytes, bytes # NoBytes
    PROVE  /\ Encode64(bytes) = [base64 |-> bytes]
           /\ Encode64(bytes) # Text("") /\ Encode64(bytes) # Tw /\ Encode64(bytes) # TwReg
           /\ Decode64(Encode64(bytes)) = Ok(bytes)
<1>1. Encode64(bytes) = [base64 |-> bytes]
    BY DEF Encode64
<1>2. \A s : [base64 |-> bytes] # [text |-> s]
    <2>1. DOMAIN [base64 |-> bytes] = {"base64"}
        OBVIOUS
    <2>2. \A s : DOMAIN [text |-> s] = {"text"}
        OBVIOUS
    <2>3. {"base64"} # {"text"}
        OBVIOUS
    <2> QED
        BY <2>1, <2>2, <2>3
<1>3. Decode64([base64 |-> bytes]) = Ok(bytes)
    BY DEF Decode64
<1> QED
    BY <1>1, <1>2, <1>3 DEF Text, Tw, TwReg

\* A point's bytes decode to the point.
LEMMA TrapdoorRoundTrip ==
    ASSUME NEW t \in Scalar
    PROVE  /\ TrapdoorBytes(t) # NoBytes
           /\ DecodeTrapdoor(Encode64(TrapdoorBytes(t))) = Ok(t)
<1>1. TrapdoorBytes(t) # NoBytes
    <2>1. DOMAIN TrapdoorBytes(t) = {"trapdoor"} /\ DOMAIN NoBytes = {"bytes"}
        BY DEF TrapdoorBytes, NoBytes
    <2>2. {"trapdoor"} # {"bytes"}
        OBVIOUS
    <2> QED
        BY <2>1, <2>2
<1>2. Decode64(Encode64(TrapdoorBytes(t))) = Ok(TrapdoorBytes(t))
    BY <1>1, Base64
<1>3. Trapdoor_from_bytes(TrapdoorBytes(t)) = Ok(t)
    BY DEF Trapdoor_from_bytes, TrapdoorBytes
<1> QED
    BY <1>1, <1>2, <1>3 DEF DecodeTrapdoor, Ok

\* So do a ciphertext's.
LEMMA CiphertextRoundTrip ==
    ASSUME NEW c
    PROVE  /\ CiphertextBytes(c) # NoBytes
           /\ DecodeCiphertext(Encode64(CiphertextBytes(c))) = Ok(c)
<1>1. CiphertextBytes(c) # NoBytes
    <2>1. DOMAIN CiphertextBytes(c) = {"ciphertext"} /\ DOMAIN NoBytes = {"bytes"}
        BY DEF CiphertextBytes, NoBytes
    <2>2. {"ciphertext"} # {"bytes"}
        OBVIOUS
    <2> QED
        BY <2>1, <2>2
<1>2. Decode64(Encode64(CiphertextBytes(c))) = Ok(CiphertextBytes(c))
    BY <1>1, Base64
<1>3. Ciphertext_from_bytes(CiphertextBytes(c)) = Ok(c)
    BY DEF Ciphertext_from_bytes, CiphertextBytes
<1> QED
    BY <1>1, <1>2, <1>3 DEF DecodeCiphertext, Ok

\* Components that no decoder skips or takes for a marker.
Plain(comps) ==
    IsPath(comps) /\ \A i \in 1..Len(comps) : comps[i] \notin {Text(""), Tw, TwReg}

\* No decoder skips any of them.
LEMMA PlainKept ==
    ASSUME NEW comps, Plain(comps)
    PROVE  Without(comps, Text("")) = comps
<1>1. comps \in Seq(Range(comps)) /\ \A i \in 1..Len(comps) : comps[i] # Text("")
    BY DEF Plain, IsPath
<1> QED
    BY <1>1, WithoutNone

\* The components of an interest.
Ciphers(nc) == [i \in 1..Len(nc) |-> Encode64(CiphertextBytes(nc[i]))]

\* The base64 text of ciphertexts is plain, and decodes to them.
LEMMA CiphersDecoded ==
    ASSUME NEW S, NEW nc \in Seq(S) \ {<< >>}
    PROVE  Plain(Ciphers(nc)) /\ DecodeEach(Ciphers(nc), DecodeCiphertext) = Ok(nc)
<1> DEFINE comps == Ciphers(nc)
<1>1. Len(nc) \in Nat \ {0} /\ \A i \in 1..Len(nc) : nc[i] \in S
    BY EmptySeq, ElementOfSeq
<1>2. /\ comps \in Seq(Range(comps)) /\ Len(comps) = Len(nc)
      /\ \A i \in 1..Len(nc) : comps[i] = Encode64(CiphertextBytes(nc[i]))
    BY <1>1 DEF Range, Ciphers
<1> HIDE DEF comps
<1>3. ASSUME NEW i \in 1..Len(nc)
      PROVE  comps[i] \notin {Text(""), Tw, TwReg} /\ DecodeCiphertext(comps[i]) = Ok(nc[i])
    <2>1. comps[i] = Encode64(CiphertextBytes(nc[i])) /\ CiphertextBytes(nc[i]) # NoBytes
        BY <1>2, CiphertextRoundTrip
    <2>2. comps[i] # Text("") /\ comps[i] # Tw /\ comps[i] # TwReg
        BY <2>1, Base64
    <2> QED
        BY <2>1, <2>2, CiphertextRoundTrip
<1>4. comps # << >>
    BY <1>1, <1>2, EmptySeq
<1>5. Plain(comps)
    BY <1>2, <1>3, <1>4 DEF Plain, IsPath
<1>6. DecodeEach(comps, DecodeCiphertext) = Ok(nc)
    <2>1. \A c : Ok(c).ok /\ Ok(c).val = c
        BY DEF Ok
    <2>2. \A i \in 1..Len(nc) : DecodeCiphertext(comps[i]).ok /\ DecodeCiphertext(comps[i]).val = nc[i]
        BY <1>3, <2>1
    <2>3. DecodeEach(comps, DecodeCiphertext) = Ok([i \in 1..Len(nc) |-> DecodeCiphertext(comps[i]).val])
        BY <1>1, <1>2, <2>2, CiphertextsEachDecoded
    <2>4. [i \in 1..Len(nc) |-> DecodeCiphertext(comps[i]).val] = nc
        BY <1>1, <2>2, SeqEqual
    <2> QED
        BY <2>3, <2>4
<1> QED
    BY <1>5, <1>6 DEF comps

\* So is and does that of trapdoors.
LEMMA TrapdoorsDecoded ==
    ASSUME NEW nt \in Seq(Scalar) \ {<< >>}
    PROVE  /\ Plain(TrapdoorComponents(nt)) /\ Len(TrapdoorComponents(nt)) = Len(nt)
           /\ DecodeEach(TrapdoorComponents(nt), DecodeTrapdoor) = Ok(nt)
<1> DEFINE comps == TrapdoorComponents(nt)
<1>1. Len(nt) \in Nat \ {0} /\ \A i \in 1..Len(nt) : nt[i] \in Scalar
    BY EmptySeq, ElementOfSeq
<1>2. /\ comps \in Seq(Range(comps)) /\ Len(comps) = Len(nt)
      /\ \A i \in 1..Len(nt) : comps[i] = Encode64(TrapdoorBytes(nt[i]))
    BY <1>1 DEF Range, TrapdoorComponents
<1> HIDE DEF comps
<1>3. ASSUME NEW i \in 1..Len(nt)
      PROVE  comps[i] \notin {Text(""), Tw, TwReg} /\ DecodeTrapdoor(comps[i]) = Ok(nt[i])
    <2>1. comps[i] = Encode64(TrapdoorBytes(nt[i])) /\ TrapdoorBytes(nt[i]) # NoBytes
        BY <1>1, <1>2, TrapdoorRoundTrip
    <2>2. comps[i] # Text("") /\ comps[i] # Tw /\ comps[i] # TwReg
        BY <2>1, Base64
    <2> QED
        BY <1>1, <2>1, <2>2, TrapdoorRoundTrip
<1>4. comps # << >>
    BY <1>1, <1>2, EmptySeq
<1>5. Plain(comps)
    BY <1>2, <1>3, <1>4 DEF Plain, IsPath
<1>6. DecodeEach(comps, DecodeTrapdoor) = Ok(nt)
    <2>1. \A c : Ok(c).ok /\ Ok(c).val = c
        BY DEF Ok
    <2>2. \A i \in 1..Len(nt) : DecodeTrapdoor(comps[i]).ok /\ DecodeTrapdoor(comps[i]).val = nt[i]
        BY <1>3, <2>1
    <2>3. DecodeEach(comps, DecodeTrapdoor) = Ok([i \in 1..Len(nt) |-> DecodeTrapdoor(comps[i]).val])
        BY <1>1, <1>2, <2>2, TrapdoorsEachDecoded
    <2>4. [i \in 1..Len(nt) |-> DecodeTrapdoor(comps[i]).val] = nt
        BY <1>1, <2>2, SeqEqual
    <2> QED
        BY <2>3, <2>4
<1> QED
    BY <1>2, <1>5, <1>6 DEF comps

\* A URI whose first component is a marker.
Marked(marker, payload) == <<marker>> \o payload

\* Nothing of it is skipped.
LEMMA MarkedKept ==
    ASSUME NEW marker \in {Tw, TwReg}, NEW payload, Plain(payload)
    PROVE  /\ IsPath(Marked(marker, payload)) /\ Marked(marker, payload)[1] = marker
           /\ Tail(Marked(marker, payload)) = payload
           /\ Without(Marked(marker, payload), Text("")) = Marked(marker, payload)
<1> DEFINE path == Marked(marker, payload)
           one == <<marker>>
           S == Range(payload) \cup {marker}
           e == Text("")
<1>1. marker # e
    BY TextsDiffer
<1>2. payload \in Seq(S) /\ one \in Seq(S) /\ Len(one) = 1 /\ one[1] = marker
    <2>1. payload \in Seq(Range(payload))
        BY DEF Plain, IsPath
    <2> QED
        BY <2>1, SeqMonotonic
<1>3. Without(payload, e) = payload
    BY PlainKept
<1>4. path \in Seq(S) /\ path # << >> /\ path[1] = marker /\ Tail(path) = payload
    BY <1>2 DEF Marked
<1>5. IsPath(path)
    BY <1>4, SeqOfRange DEF IsPath
<1> HIDE DEF e, S, one
<1>6. Without(one, e) = one
    <2>1. \A i \in 1..Len(one) : one[i] # e
        BY <1>1, <1>2
    <2> QED
        BY <1>2, <2>1, WithoutNone
<1>7. Without(one \o payload, e) = Without(one, e) \o Without(payload, e)
    BY <1>2, WithoutConcat
<1>8. Without(path, e) = path
    BY <1>3, <1>6, <1>7 DEF Marked, one
<1> QED
    BY <1>4, <1>5, <1>8 DEF e

\* Past the marker there is what followed it when it was sent, whatever
\* slashes were gained behind it.
LEMMA AfterOwnMarker ==
    ASSUME NEW uri, uri.strategy = TRUE, IsPath(uri.path), uri.path[1] # Text(""),
           NEW marker \in {Tw, TwReg}, NEW payload, Plain(payload),
           Without(uri.path, Text("")) = Marked(marker, payload)
    PROVE  AfterMarker(uri, marker) = Ok(payload)
<1> DEFINE path == uri.path
           e == Text("")
           S == Range(path)
<1>1. path \in Seq(S) \ {<< >>} /\ path[1] # e
    BY DEF IsPath
<1> HIDE DEF path, e, S
<1>2. Without(path, e)[1] = path[1] /\ Tail(Without(path, e)) = Without(Tail(path), e)
    BY <1>1, WithoutTail
<1>3. Marked(marker, payload)[1] = marker /\ Tail(Marked(marker, payload)) = payload
    BY MarkedKept
<1>4. path[1] = marker /\ Without(Tail(path), e) = payload
    BY <1>2, <1>3 DEF path, e
<1> QED
    BY <1>4 DEF AfterMarker, path, e

\* An interest comes back from a URI that may have gained slashes.
LEMMA InterestCarried ==
    ASSUME NEW S, NEW nc \in Seq(S) \ {<< >>}, NEW uri, uri.strategy = TRUE,
           uri.path[1] \notin {Tw, TwReg}, Without(uri.path, Text("")) = Ciphers(nc)
    PROVE  decode_ciphertext_name(uri) = Ok(nc)
<1>1. Plain(Ciphers(nc)) /\ DecodeEach(Ciphers(nc), DecodeCiphertext) = Ok(nc)
    BY CiphersDecoded
<1>2. Ciphers(nc) # << >>
    BY <1>1 DEF Plain, IsPath
<1> QED
    BY <1>1, <1>2 DEF decode_ciphertext_name

\* A registration comes back from what follows its marker.
LEMMA RegistrationCarried ==
    ASSUME NEW t \in Scalar, NEW uri, AfterMarker(uri, TwReg) = Ok(TrapdoorComponents(<<t>>))
    PROVE  decode_trapdoor_registration(uri) = Ok(t)
<1> DEFINE comps == TrapdoorComponents(<<t>>)
<1>1. Len(comps) = 1 /\ comps[1] = Encode64(TrapdoorBytes(t))
    BY DEF TrapdoorComponents
<1>2. AfterMarker(uri, TwReg).ok /\ AfterMarker(uri, TwReg).val = comps
    BY DEF Ok
<1> HIDE DEF comps
<1>3. DecodeTrapdoor(comps[1]) = Ok(t)
    BY <1>1, TrapdoorRoundTrip
<1> QED
    BY <1>1, <1>2, <1>3 DEF decode_trapdoor_registration

\* So does an update.
LEMMA UpdateCarried ==
    ASSUME NEW nt \in Seq(Scalar) \ {<< >>}, NEW hash, hash # NoBytes, NEW uri,
           AfterMarker(uri, Tw) = Ok(Append(TrapdoorComponents(nt), Encode64(hash)))
    PROVE  decode_trapdoor_update(uri) = Ok([trapdoors |-> nt, hash |-> hash])
<1> DEFINE front == TrapdoorComponents(nt)
           last == Encode64(hash)
           comps == Append(front, last)
           S == Range(front) \cup {last}
<1>1. /\ front \in Seq(Range(front)) /\ Len(front) = Len(nt)
      /\ DecodeEach(front, DecodeTrapdoor) = Ok(nt)
    BY TrapdoorsDecoded DEF Plain, IsPath
<1>2. Len(nt) \in Nat \ {0}
    BY EmptySeq
<1>3. Decode64(last) = Ok(hash)
    BY Base64
<1>4. AfterMarker(uri, Tw) = Ok(comps)
    OBVIOUS
<1> HIDE DEF front, last
<1>5. front \in Seq(S) /\ last \in S
    BY <1>1, SeqMonotonic
<1> HIDE DEF S, comps
<1>6. Len(comps) = Len(nt) + 1 /\ Front(comps) = front /\ Last(comps) = last
    BY <1>1, <1>2, <1>5 DEF Front, Last, comps
<1>7. \A c : Ok(c).ok /\ Ok(c).val = c
    BY DEF Ok
<1> QED
    BY <1>1, <1>2, <1>3, <1>4, <1>6, <1>7 DEF decode_trapdoor_update

\* The hash added to plain components leaves them plain.
LEMMA PlainWithHash ==
    ASSUME NEW comps, Plain(comps), NEW hash, hash # NoBytes
    PROVE  Plain(Append(comps, Encode64(hash)))
<1> DEFINE last == Encode64(hash)
           both == Append(comps, last)
           S == Range(comps) \cup {last}
<1>1. last # Text("") /\ last # Tw /\ last # TwReg
    BY Base64
<1>2. comps \in Seq(Range(comps)) /\ \A i \in 1..Len(comps) : comps[i] \notin {Text(""), Tw, TwReg}
    BY DEF Plain, IsPath
<1> HIDE DEF last
<1>3. comps \in Seq(S) /\ last \in S
    BY <1>2, SeqMonotonic
<1>4. /\ both \in Seq(S) /\ both # << >> /\ Len(both) = Len(comps) + 1
      /\ \A i \in 1..Len(comps) : both[i] = comps[i]
      /\ both[Len(comps) + 1] = last
    BY <1>3, AppendProperties
<1> HIDE DEF both, S
<1>5. both \in Seq(Range(both))
    BY <1>4, SeqOfRange
<1>6. \A i \in 1..Len(both) : i \in 1..Len(comps) \/ i = Len(comps) + 1
    BY <1>3, <1>4
<1>7. \A i \in 1..Len(both) : both[i] \notin {Text(""), Tw, TwReg}
    BY <1>1, <1>2, <1>4, <1>6
<1> QED
    BY <1>4, <1>5, <1>7 DEF Plain, IsPath, both, last

\* An interest URI decodes to the encrypted name it was made from.
THEOREM InterestRoundTrip ==
    ASSUME NEW S, NEW nc \in Seq(S) \ {<< >>}
    PROVE  decode_ciphertext_name(encode_ciphertext_name(nc)) = Ok(nc)
<1> DEFINE uri == encode_ciphertext_name(nc)
<1>1. Plain(Ciphers(nc))
    BY CiphersDecoded
<1>2. Ciphers(nc) # << >> /\ Ciphers(nc)[1] \notin {Tw, TwReg}
    <2>1. Len(Ciphers(nc)) \in Nat \ {0}
        BY <1>1, EmptySeq DEF Plain, IsPath
    <2>2. 1 \in 1..Len(Ciphers(nc))
        BY <2>1
    <2> QED
        BY <1>1, <2>2 DEF Plain, IsPath
<1>3. uri.strategy = TRUE /\ uri.path = Ciphers(nc)
    BY <1>2 DEF encode_ciphertext_name, PeksUri, Join, Ciphers
<1>4. Without(Ciphers(nc), Text("")) = Ciphers(nc)
    BY <1>1, PlainKept
<1> HIDE DEF uri
<1>5. decode_ciphertext_name(uri) = Ok(nc)
    BY <1>2, <1>3, <1>4, InterestCarried
<1> QED
    BY <1>5 DEF uri

\* Different encrypted names give different interest URIs.
LEMMA InterestUriInjective ==
    ASSUME NEW S, NEW nc \in Seq(S) \ {<< >>}, NEW mc \in Seq(S) \ {<< >>},
           encode_ciphertext_name(nc) = encode_ciphertext_name(mc)
    PROVE  nc = mc
<1>1. Ok(nc) = Ok(mc)
    BY InterestRoundTrip
<1> QED
    BY <1>1 DEF Ok

\* A URI that has gained no slash carries all that follows its marker.
LEMMA MarkedUri ==
    ASSUME NEW uri, uri.strategy = TRUE, NEW marker \in {Tw, TwReg},
           NEW payload, Plain(payload), uri.path = Marked(marker, payload)
    PROVE  AfterMarker(uri, marker) = Ok(payload)
<1>1. /\ IsPath(uri.path) /\ uri.path[1] = marker
      /\ Without(uri.path, Text("")) = Marked(marker, payload)
    <2>1. /\ IsPath(Marked(marker, payload)) /\ Marked(marker, payload)[1] = marker
          /\ Without(Marked(marker, payload), Text("")) = Marked(marker, payload)
        BY MarkedKept
    <2> QED
        BY <2>1
<1>2. uri.path[1] # Text("")
    BY <1>1, TextsDiffer
<1> QED
    BY <1>1, <1>2, AfterOwnMarker

\* A registration URI is its marker and the base64 text of its trapdoor.
LEMMA RegistrationEncoded ==
    ASSUME NEW t
    PROVE  encode_trapdoor_registration(t) = PeksUri(Marked(TwReg, TrapdoorComponents(<<t>>)))
<1> DEFINE comp == Encode64(TrapdoorBytes(t))
<1>1. TrapdoorComponents(<<t>>) = <<comp>>
    BY DEF TrapdoorComponents
<1> HIDE DEF comp
<1>2. <<TwReg, comp>> = <<TwReg>> \o <<comp>>
    OBVIOUS
<1> QED
    BY <1>1, <1>2 DEF encode_trapdoor_registration, Marked, comp

\* The same for a trapdoor name,
LEMMA NameEncoded ==
    ASSUME NEW nt \in Seq(Scalar) \ {<< >>}
    PROVE  encode_trapdoor_name(nt) = PeksUri(Marked(Tw, TrapdoorComponents(nt)))
<1>1. TrapdoorComponents(nt) # << >>
    BY TrapdoorsDecoded DEF Plain, IsPath
<1> QED
    BY <1>1 DEF encode_trapdoor_name, Join, Marked

\* and for an update.
LEMMA UpdateEncoded ==
    ASSUME NEW nt \in Seq(Scalar) \ {<< >>}, NEW hash
    PROVE  encode_trapdoor_update(nt, hash)
              = PeksUri(Marked(Tw, Append(TrapdoorComponents(nt), Encode64(hash))))
<1> DEFINE comps == TrapdoorComponents(nt)
           last == Encode64(hash)
           S == Range(comps) \cup {Tw, last}
<1>1. comps \in Seq(Range(comps)) /\ comps # << >>
    BY TrapdoorsDecoded DEF Plain, IsPath
<1>2. Join(comps) = comps
    BY <1>1 DEF Join
<1>3. comps \in Seq(S) /\ Tw \in S /\ last \in S
    BY <1>1, SeqMonotonic
<1> HIDE DEF comps, last, S
<1>4. <<Tw>> \o comps \o <<last>> = <<Tw>> \o Append(comps, last)
    BY <1>3
<1> QED
    BY <1>2, <1>4 DEF encode_trapdoor_update, Marked, comps, last

\* A registration URI decodes to the trapdoor it was made from.
THEOREM RegistrationRoundTrip ==
    ASSUME NEW t \in Scalar
    PROVE  decode_trapdoor_registration(encode_trapdoor_registration(t)) = Ok(t)
<1> DEFINE uri == encode_trapdoor_registration(t)
           payload == TrapdoorComponents(<<t>>)
<1>1. <<t>> \in Seq(Scalar) \ {<< >>}
    OBVIOUS
<1>2. Plain(payload)
    BY <1>1, TrapdoorsDecoded
<1>3. uri.strategy = TRUE /\ uri.path = Marked(TwReg, payload)
    BY RegistrationEncoded DEF PeksUri
<1> HIDE DEF uri
<1>4. AfterMarker(uri, TwReg) = Ok(payload)
    BY <1>2, <1>3, MarkedUri
<1>5. decode_trapdoor_registration(uri) = Ok(t)
    BY <1>4, RegistrationCarried
<1> QED
    BY <1>5 DEF uri

\* An update URI decodes to the trapdoors and the hash it was made from.
THEOREM UpdateRoundTrip ==
    ASSUME NEW nt \in Seq(Scalar) \ {<< >>}, NEW hash, hash # NoBytes
    PROVE  decode_trapdoor_update(encode_trapdoor_update(nt, hash))
              = Ok([trapdoors |-> nt, hash |-> hash])
<1> DEFINE uri == encode_trapdoor_update(nt, hash)
           payload == Append(TrapdoorComponents(nt), Encode64(hash))
<1>1. Plain(payload)
    BY TrapdoorsDecoded, PlainWithHash
<1>2. uri.strategy = TRUE /\ uri.path = Marked(Tw, payload)
    BY UpdateEncoded DEF PeksUri
<1> HIDE DEF uri, payload
<1>3. AfterMarker(uri, Tw) = Ok(payload)
    BY <1>1, <1>2, MarkedUri
<1>4. decode_trapdoor_update(uri) = Ok([trapdoors |-> nt, hash |-> hash])
    BY <1>3, UpdateCarried DEF payload
<1> QED
    BY <1>4 DEF uri

-----------------------------------------------------------------------------
(* The URIs of a name.                                                     *)

\* A name that parses comes out of its interest as it was encrypted.
LEMMA NameInInterest ==
    ASSUME NEW h, NEW r, NEW name \in RawName, parse_name(name).ok
    PROVE  LET nc == name_to_ciphertext(h, name, r).val
           IN  decode_ciphertext_name(encode_ciphertext_name(nc)) = Ok(nc)
<1> DEFINE nc == name_to_ciphertext(h, name, r).val
           S == Range(nc)
<1>1. nc \in Seq(S) \ {<< >>}
    BY CiphertextsOfName
<1> HIDE DEF nc, S
<1>2. decode_ciphertext_name(encode_ciphertext_name(nc)) = Ok(nc)
    BY <1>1, InterestRoundTrip
<1> QED
    BY <1>2 DEF nc

\* The first trapdoor of a plain name comes out of its registration.
LEMMA NameInRegistration ==
    ASSUME NEW alpha \in Scalar, NEW components \in Seq(Component) \ {<< >>}
    PROVE  LET t == name_to_trapdoor(alpha, <<"">> \o components).val[1]
           IN  t \in Scalar /\ decode_trapdoor_registration(encode_trapdoor_registration(t)) = Ok(t)
<1> DEFINE name == <<"">> \o components
           nt == name_to_trapdoor(alpha, name).val
<1>1. name \in RawName /\ parse_name(name) = Ok(components)
    BY PlainName
<1> HIDE DEF name
<1>2. parse_name(name).ok
    BY <1>1 DEF Ok
<1>3. nt \in Seq(Scalar) \ {<< >>}
    BY <1>1, <1>2, TrapdoorsOfName
<1> HIDE DEF nt
<1>4. nt[1] \in Scalar
    BY <1>3, EmptySeq, ElementOfSeq
<1> QED
    BY <1>4, RegistrationRoundTrip DEF nt, name

\* A digest is not the empty string.
LEMMA DigestNotEmpty ==
    ASSUME NEW uri
    PROVE  Sha256(uri) # NoBytes
<1>1. DOMAIN Sha256(uri) = {"sha256"} /\ DOMAIN NoBytes = {"bytes"}
    BY DEF Sha256, NoBytes
<1>2. {"sha256"} # {"bytes"}
    OBVIOUS
<1> QED
    BY <1>1, <1>2

\* The trapdoors of a name come out of its update, with the hash.
LEMMA NameInUpdate ==
    ASSUME NEW alpha \in Scalar, NEW name \in RawName, parse_name(name).ok, NEW uri
    PROVE  LET nt == name_to_trapdoor(alpha, name).val
           IN  decode_trapdoor_update(encode_trapdoor_update(nt, Sha256(uri)))
                  = Ok([trapdoors |-> nt, hash |-> Sha256(uri)])
<1>1. Sha256(uri) # NoBytes
    BY DigestNotEmpty
<1>2. name_to_trapdoor(alpha, name).val \in Seq(Scalar) \ {<< >>}
    BY TrapdoorsOfName
<1> QED
    BY <1>1, <1>2, UpdateRoundTrip

\* URIs that begin with a marker.
IsMarked(uri) == uri.strategy = TRUE /\ IsPath(uri.path) /\ uri.path[1] \in {Tw, TwReg}

\* They are not taken for interests.
LEMMA MarkedRejected ==
    ASSUME NEW uri, IsMarked(uri)
    PROVE  ~decode_ciphertext_name(uri).ok
BY DEF IsMarked, decode_ciphertext_name, Err

\* Registrations are among them,
LEMMA RegistrationMarked ==
    ASSUME NEW t \in Scalar
    PROVE  IsMarked(encode_trapdoor_registration(t))
<1> DEFINE uri == encode_trapdoor_registration(t)
           payload == TrapdoorComponents(<<t>>)
<1>1. <<t>> \in Seq(Scalar) \ {<< >>}
    OBVIOUS
<1>2. Plain(payload)
    BY <1>1, TrapdoorsDecoded
<1>3. uri.strategy = TRUE /\ uri.path = Marked(TwReg, payload)
    BY RegistrationEncoded DEF PeksUri
<1> HIDE DEF uri, payload
<1>4. IsPath(Marked(TwReg, payload)) /\ Marked(TwReg, payload)[1] = TwReg
    BY <1>2, MarkedKept
<1>5. IsMarked(uri)
    BY <1>3, <1>4 DEF IsMarked
<1> QED
    BY <1>5 DEF uri

\* and updates.
LEMMA UpdateMarked ==
    ASSUME NEW nt \in Seq(Scalar) \ {<< >>}, NEW hash, hash # NoBytes
    PROVE  IsMarked(encode_trapdoor_update(nt, hash))
<1> DEFINE uri == encode_trapdoor_update(nt, hash)
           payload == Append(TrapdoorComponents(nt), Encode64(hash))
<1>1. Plain(payload)
    BY TrapdoorsDecoded, PlainWithHash
<1>2. uri.strategy = TRUE /\ uri.path = Marked(Tw, payload)
    BY UpdateEncoded DEF PeksUri
<1> HIDE DEF uri, payload
<1>3. IsPath(Marked(Tw, payload)) /\ Marked(Tw, payload)[1] = Tw
    BY <1>1, MarkedKept
<1>4. IsMarked(uri)
    BY <1>2, <1>3 DEF IsMarked
<1> QED
    BY <1>4 DEF uri

\* An interest has a path, too.
LEMMA InterestPath ==
    ASSUME NEW S, NEW nc \in Seq(S) \ {<< >>}
    PROVE  IsPath(encode_ciphertext_name(nc).path)
<1>1. IsPath(Ciphers(nc))
    BY CiphersDecoded DEF Plain
<1>2. Ciphers(nc) # << >>
    BY <1>1 DEF IsPath
<1>3. encode_ciphertext_name(nc).path = Ciphers(nc)
    BY <1>2 DEF encode_ciphertext_name, PeksUri, Join, Ciphers
<1> QED
    BY <1>1, <1>3

-----------------------------------------------------------------------------
(* The trapdoor table: what insert leaves behind and what match_exhaustive  *)
(* finds, for every table, row and encrypted name.                         *)

\* Keys of any numbers are compared strictly: of two at most one is the
\* smaller.
LEMMA KeyLessAsymmetric ==
    ASSUME NEW S \in SUBSET Nat, NEW k \in Seq(S), NEW l \in Seq(S), KeyLess(k, l)
    PROVE  ~KeyLess(l, k)
<1> SUFFICES ASSUME KeyLess(l, k) PROVE FALSE
    OBVIOUS
<1>1. PICK n \in 1..Len(l) :
        /\ \A i \in 1..(n-1) : i <= Len(k) /\ k[i] = l[i]
        /\ n > Len(k) \/ k[n] < l[n]
    BY DEF KeyLess
<1>2. PICK m \in 1..Len(k) :
        /\ \A i \in 1..(m-1) : i <= Len(l) /\ l[i] = k[i]
        /\ m > Len(l) \/ l[m] < k[m]
    BY DEF KeyLess
<1>3. /\ \A i \in 1..Len(k) : k[i] \in Nat
      /\ \A i \in 1..Len(l) : l[i] \in Nat
    BY ElementOfSeq
<1>4. CASE n < m
    <2>1. n \in 1..(m-1) /\ n \in 1..Len(k)
        BY <1>4
    <2> QED
        BY <1>1, <1>2, <1>3, <2>1
<1>5. CASE m < n
    <2>1. m \in 1..(n-1) /\ m \in 1..Len(l)
        BY <1>5
    <2> QED
        BY <1>1, <1>2, <1>3, <2>1
<1>6. CASE n = m
    BY <1>1, <1>2, <1>3, <1>6
<1> QED
    BY <1>4, <1>5, <1>6

\* Vec::insert: the rows before p keep their place, those from p on move up.
LEMMA InsertAtRows ==
    ASSUME NEW S, NEW s \in Seq(S), NEW e \in S, NEW p \in 1..(Len(s) + 1)
    PROVE  /\ InsertAt(s, p, e) \in Seq(S)
           /\ Len(InsertAt(s, p, e)) = Len(s) + 1
           /\ \A i \in 1..(Len(s) + 1) :
                 InsertAt(s, p, e)[i] = IF i < p THEN s[i] ELSE IF i = p THEN e ELSE s[i-1]
<1> DEFINE a == SubSeq(s, 1, p-1)
           b == SubSeq(s, p, Len(s))
<1>1. /\ a \in Seq(S) /\ Len(a) = p - 1
      /\ \A i \in 1..(p-1) : a[i] = s[i]
    BY SubSeqProperties
<1>2. /\ b \in Seq(S) /\ Len(b) = Len(s) - p + 1
      /\ \A i \in 1..(Len(s) - p + 1) : b[i] = s[p + i - 1]
    BY SubSeqProperties
<1>3. /\ <<e>> \in Seq(S) /\ Len(<<e>>) = 1 /\ <<e>>[1] = e
    OBVIOUS
<1> DEFINE ae == a \o <<e>>
<1>4. /\ ae \in Seq(S) /\ Len(ae) = p
      /\ \A i \in 1..p : ae[i] = IF i < p THEN s[i] ELSE e
    BY <1>1, <1>3, ConcatProperties
<1>5. InsertAt(s, p, e) = ae \o b
    BY DEF InsertAt
<1> HIDE DEF ae, a, b
<1>6. /\ ae \o b \in Seq(S) /\ Len(ae \o b) = Len(s) + 1
      /\ \A i \in 1..(Len(s) + 1) :
            (ae \o b)[i] = IF i < p THEN s[i] ELSE IF i = p THEN e ELSE s[i-1]
    BY <1>2, <1>4, ConcatProperties
<1> QED
    BY <1>5, <1>6

-----------------------------------------------------------------------------
Entry(trapdoors, name) == [trapdoors |-> trapdoors, cleartext_name |-> name]

\* A table that insert may leave holds the new row and the rows there were.
LEMMA InsertRows ==
    ASSUME NEW table \in Seq(TrapdoorTableEntry),
           NEW key \in Seq(Scalar) \ {<< >>}, NEW name \in RawName \cup {NoName},
           NEW table2 \in insert(table, key, name)
    PROVE  /\ table2 \in Seq(TrapdoorTableEntry)
           /\ Len(table2) = Len(table) + 1
           /\ \E p \in InsertPositions(table, key) :
                 \A i \in 1..(Len(table) + 1) :
                    table2[i] = IF i < p THEN table[i]
                                ELSE IF i = p THEN Entry(key, name) ELSE table[i-1]
<1>1. PICK p \in InsertPositions(table, key) : table2 = InsertAt(table, p, Entry(key, name))
    BY DEF insert, Entry
<1>2. p \in 1..(Len(table) + 1)
    BY DEF InsertPositions
<1>3. Entry(key, name) \in TrapdoorTableEntry
    BY DEF Entry, TrapdoorTableEntry
<1> DEFINE t == InsertAt(table, p, Entry(key, name))
<1>4. /\ t \in Seq(TrapdoorTableEntry) /\ Len(t) = Len(table) + 1
      /\ \A i \in 1..(Len(table) + 1) :
            t[i] = IF i < p THEN table[i] ELSE IF i = p THEN Entry(key, name) ELSE table[i-1]
    BY <1>2, <1>3, InsertAtRows
<1> QED
    BY <1>1, <1>4

\* insert keeps a sorted table sorted, whichever of the equal rows the
\* binary search stops at.
THEOREM InsertKeepsSorted ==
    ASSUME NEW table \in Seq(TrapdoorTableEntry), Sorted(table),
           NEW key \in Seq(Scalar) \ {<< >>}, NEW name \in RawName \cup {NoName},
           NEW table2 \in insert(table, key, name)
    PROVE  Sorted(table2)
<1> DEFINE n == Len(table)
           Key(i) == table[i].trapdoors
<1>1. PICK p \in InsertPositions(table, key) :
        \A i \in 1..(n + 1) : table2[i] = IF i < p THEN table[i]
                                          ELSE IF i = p THEN Entry(key, name) ELSE table[i-1]
    BY InsertRows
<1>2. Len(table2) = n + 1 /\ p \in 1..(n + 1) /\ n \in Nat
    BY InsertRows DEF InsertPositions
<1>3. \A i \in 1..n : Key(i) \in Seq(Scalar)
    <2>1. \A i \in 1..n : table[i] \in TrapdoorTableEntry
        BY ElementOfSeq
    <2> QED
        BY <2>1 DEF TrapdoorTableEntry
<1>4. \A i, j \in 1..n : i < j => ~KeyLess(Key(j), Key(i))
    BY DEF Sorted
<1>5. \A i \in 1..n : i < p => ~KeyLess(key, Key(i))
    <2>1. CASE p \in 1..n /\ Key(p) = key
        BY <1>2, <1>4, <2>1
    <2>2. CASE \A i \in 1..n : i < p <=> KeyLess(Key(i), key)
        BY <1>3, <2>2, KeyLessAsymmetric, ScalarAssumption DEF ScalarAssumption
    <2> QED
        BY <2>1, <2>2 DEF InsertPositions
<1>6. \A i \in 1..n : p <= i => ~KeyLess(Key(i), key)
    <2>1. CASE p \in 1..n /\ Key(p) = key
        BY <1>2, <1>3, <1>4, <2>1, KeyLessAsymmetric, ScalarAssumption DEF ScalarAssumption
    <2>2. CASE \A i \in 1..n : i < p <=> KeyLess(Key(i), key)
        BY <1>2, <2>2
    <2> QED
        BY <2>1, <2>2 DEF InsertPositions
<1>7. \A i \in 1..(n + 1) :
        table2[i].trapdoors = IF i < p THEN Key(i) ELSE IF i = p THEN key ELSE Key(i-1)
    BY <1>1 DEF Entry
<1> HIDE DEF n, Key
<1>8. ASSUME NEW i \in 1..(n + 1), NEW j \in 1..(n + 1), i < j
      PROVE  ~KeyLess(table2[j].trapdoors, table2[i].trapdoors)
    <2>1. CASE j < p
        BY <1>2, <1>4, <1>7, <1>8, <2>1
    <2>2. CASE j = p
        BY <1>2, <1>5, <1>7, <1>8, <2>2
    <2>3. CASE i < p /\ p < j
        BY <1>2, <1>4, <1>7, <1>8, <2>3
    <2>4. CASE i = p
        <3>1. j - 1 \in 1..n /\ p <= j - 1
            BY <1>2, <1>8, <2>4
        <3> QED
            BY <1>2, <1>6, <1>7, <1>8, <2>4, <3>1
    <2>5. CASE p < i
        <3>1. i - 1 \in 1..n /\ j - 1 \in 1..n /\ i - 1 < j - 1
            BY <1>2, <1>8, <2>5
        <3> QED
            BY <1>2, <1>4, <1>7, <1>8, <2>5, <3>1
    <2> QED
        BY <1>2, <1>8, <2>1, <2>2, <2>3, <2>4, <2>5
<1> QED
    BY <1>2, <1>8 DEF Sorted

\* The rows of a table that insert may leave are the new one and the old ones.
LEMMA InsertEntries ==
    ASSUME NEW table \in Seq(TrapdoorTableEntry),
           NEW key \in Seq(Scalar) \ {<< >>}, NEW name \in RawName \cup {NoName},
           NEW table2 \in insert(table, key, name)
    PROVE  /\ \A i \in 1..Len(table) : \E j \in 1..Len(table2) : table2[j] = table[i]
           /\ \E j \in 1..Len(table2) : table2[j] = Entry(key, name)
           /\ \A j \in 1..Len(table2) :
                 table2[j] = Entry(key, name) \/ \E i \in 1..Len(table) : table2[j] = table[i]
<1> DEFINE n == Len(table)
<1>1. PICK p \in InsertPositions(table, key) :
        \A i \in 1..(n + 1) : table2[i] = IF i < p THEN table[i]
                                          ELSE IF i = p THEN Entry(key, name) ELSE table[i-1]
    BY InsertRows
<1>2. p \in 1..(n + 1) /\ n \in Nat /\ Len(table2) = n + 1
    BY InsertRows DEF InsertPositions
<1> HIDE DEF n
<1>3. ASSUME NEW i \in 1..n PROVE \E j \in 1..(n + 1) : table2[j] = table[i]
    <2>1. CASE i < p
        BY <1>1, <1>2, <2>1
    <2>2. CASE ~(i < p)
        <3>1. i + 1 \in 1..(n + 1) /\ table2[i + 1] = table[i]
            BY <1>1, <1>2, <2>2
        <3> QED
            BY <3>1
    <2> QED
        BY <2>1, <2>2
<1>4. table2[p] = Entry(key, name)
    BY <1>1, <1>2
<1>5. ASSUME NEW j \in 1..(n + 1), j # p PROVE \E i \in 1..n : table2[j] = table[i]
    <2>1. CASE j < p
        BY <1>1, <1>2, <2>1
    <2>2. CASE p < j
        <3>1. j - 1 \in 1..n /\ table2[j] = table[j-1]
            BY <1>1, <1>2, <2>2
        <3> QED
            BY <3>1
    <2> QED
        BY <1>2, <1>5, <2>1, <2>2
<1> QED
    BY <1>2, <1>3, <1>4, <1>5 DEF n

\* So are their keys.
LEMMA InsertKeys ==
    ASSUME NEW table \in Seq(TrapdoorTableEntry),
           NEW key \in Seq(Scalar) \ {<< >>}, NEW name \in RawName \cup {NoName},
           NEW table2 \in insert(table, key, name)
    PROVE  /\ \A i \in 1..Len(table) :
                 \E j \in 1..Len(table2) : table2[j].trapdoors = table[i].trapdoors
           /\ \E j \in 1..Len(table2) : table2[j].trapdoors = key
           /\ \A j \in 1..Len(table2) :
                 \/ table2[j].trapdoors = key
                 \/ \E i \in 1..Len(table) : table2[j].trapdoors = table[i].trapdoors
<1> DEFINE e == Entry(key, name)
<1>1. e.trapdoors = key
    BY DEF Entry
<1>2. /\ \A i \in 1..Len(table) : \E j \in 1..Len(table2) : table2[j] = table[i]
      /\ \E j \in 1..Len(table2) : table2[j] = e
      /\ \A j \in 1..Len(table2) : table2[j] = e \/ \E i \in 1..Len(table) : table2[j] = table[i]
    BY InsertEntries
<1> HIDE DEF e
<1>3. ASSUME NEW i \in 1..Len(table)
      PROVE  \E j \in 1..Len(table2) : table2[j].trapdoors = table[i].trapdoors
    BY <1>2
<1> QED
    BY <1>1, <1>2, <1>3

-----------------------------------------------------------------------------
(* What match_exhaustive finds.                                            *)

\* The exact match of match_exhaustive is the first row all of whose
\* trapdoors pass, 0 when there is none.
LEMMA ExactMatchIsFirst ==
    ASSUME NEW table, Len(table) \in Nat, NEW ciphertext
    PROVE  LET exact == match_exhaustive(table, ciphertext).exact_match
               Exact(i) == IsExact(table[i].trapdoors, ciphertext)
           IN  \/ exact = 0 /\ \A i \in 1..Len(table) : ~Exact(i)
               \/ /\ exact \in 1..Len(table) /\ Exact(exact)
                  /\ \A i \in 1..Len(table) : Exact(i) => exact <= i
<1> DEFINE Exact(i) == IsExact(table[i].trapdoors, ciphertext)
           rows == 1..Len(table)
           Fits(r) == IF \E i \in rows : Exact(i)
                      THEN r \in rows /\ Exact(r) /\ \A i \in rows : Exact(i) => r <= i
                      ELSE r = 0
           E == {i \in rows : Exact(i)}
<1>1. match_exhaustive(table, ciphertext).exact_match = CHOOSE r \in rows \cup {0} : Fits(r)
    BY DEF match_exhaustive, First, IsFirst
<1>2. \E r \in rows \cup {0} : Fits(r)
    <2>1. CASE E = {}
        BY <2>1
    <2>2. CASE E # {}
        <3>1. E \in SUBSET Nat
            OBVIOUS
        <3>2. PICK r \in E : \A i \in E : r <= i
            BY <2>2, <3>1, LeastPosition
        <3> QED
            BY <3>2
    <2> QED
        BY <2>1, <2>2
<1> HIDE DEF Fits
<1>3. Fits(match_exhaustive(table, ciphertext).exact_match)
    BY <1>1, <1>2
<1> QED
    BY <1>3 DEF Fits

\* The tests of a row stop at one place only, which MatchLength finds.
LEMMA MatchLengthIs ==
    ASSUME NEW t, Len(t) \in Nat, NEW c, Len(c) \in Nat,
           NEW n \in 0..Len(c), IsMatchLength(t, c, n)
    PROVE  MatchLength(t, c) = n
<1>1. ASSUME NEW m \in 0..Len(c), IsMatchLength(t, c, m)
      PROVE  m = n
    <2>1. CASE m < n
        <3>1. Passes(t, c, m + 1)
            BY <2>1 DEF IsMatchLength, Passes
        <3> QED
            BY <1>1, <3>1 DEF IsMatchLength
    <2>2. CASE n < m
        <3>1. Passes(t, c, n + 1)
            BY <1>1, <2>2 DEF IsMatchLength, Passes
        <3> QED
            BY <3>1 DEF IsMatchLength
    <2> QED
        BY <2>1, <2>2
<1> HIDE DEF IsMatchLength
<1> QED
    BY <1>1 DEF MatchLength

\* lp is the first of the first n rows with the longest match, if any.
Longest(table, ciphertext, n, lp) ==
    LET len(i) == MatchLength(table[i].trapdoors, ciphertext)
    IN  \/ lp = [row |-> 0, len |-> 0] /\ \A j \in 1..n : len(j) = 0
        \/ \E r \in 1..n :
              /\ lp = [row |-> r, len |-> len(r)] /\ len(r) > 0
              /\ \A j \in 1..n : len(j) <= len(r) /\ (len(j) = len(r) => r <= j)

\* The rows that match_exhaustive scans for the longest prefix.
Scanned(table, ciphertext) ==
    LET exact == match_exhaustive(table, ciphertext).exact_match
    IN  IF exact = 0 THEN Len(table) ELSE exact - 1

\* The longest prefix of match_exhaustive is the one with this property.
LEMMA LongestPrefixIs ==
    ASSUME NEW table, NEW ciphertext, Scanned(table, ciphertext) \in Nat,
           \A i \in 1..Scanned(table, ciphertext) :
              MatchLength(table[i].trapdoors, ciphertext) \in Nat,
           NEW lp, Longest(table, ciphertext, Scanned(table, ciphertext), lp)
    PROVE  match_exhaustive(table, ciphertext).longest_prefix = lp
<1> DEFINE exact == First(1..Len(table), LAMBDA i : IsExact(table[i].trapdoors, ciphertext))
           n == IF exact = 0 THEN Len(table) ELSE exact - 1
           len(i) == MatchLength(table[i].trapdoors, ciphertext)
           Best(i) == len(i) > 0 /\ \A j \in 1..n : len(j) <= len(i)
           Fits(r) == IF \E i \in 1..n : Best(i)
                      THEN r \in 1..n /\ Best(r) /\ \A i \in 1..n : Best(i) => r <= i
                      ELSE r = 0
           longest == CHOOSE r \in 1..n \cup {0} : Fits(r)
<1>1. match_exhaustive(table, ciphertext).longest_prefix
        = [row |-> longest, len |-> IF longest = 0 THEN 0 ELSE len(longest)]
    BY DEF match_exhaustive, First, IsFirst
<1>2. n = Scanned(table, ciphertext)
    BY DEF Scanned, match_exhaustive
<1> HIDE DEF n
<1>3. n \in Nat /\ (\A i \in 1..n : len(i) \in Nat) /\ Longest(table, ciphertext, n, lp)
    BY <1>2
<1> HIDE DEF len
<1>4. CASE lp = [row |-> 0, len |-> 0] /\ \A j \in 1..n : len(j) = 0
    <2>1. \A r \in 1..n \cup {0} : Fits(r) <=> r = 0
        BY <1>3, <1>4
    <2>2. longest = 0
        BY <2>1
    <2> QED
        BY <1>1, <1>4, <2>2
<1>5. ASSUME NEW r \in 1..n, lp = [row |-> r, len |-> len(r)], len(r) > 0,
             \A j \in 1..n : len(j) <= len(r) /\ (len(j) = len(r) => r <= j)
      PROVE  match_exhaustive(table, ciphertext).longest_prefix = lp
    <2>1. Best(r) /\ \A i \in 1..n : Best(i) => r <= i
        BY <1>3, <1>5
    <2> HIDE DEF Best
    <2>2. \A s \in 1..n \cup {0} : Fits(s) <=> s = r
        BY <2>1
    <2>3. longest = r
        BY <2>2
    <2>4. r # 0
        OBVIOUS
    <2> HIDE DEF longest
    <2> QED
        BY <1>1, <1>5, <2>3, <2>4
<1> QED
    BY <1>3, <1>4, <1>5 DEF Longest, len

\* A row matches for some length exactly when its first trapdoor passes.
LEMMA MatchLengthPositive ==
    ASSUME NEW t, Len(t) \in Nat, NEW c, Len(c) \in Nat
    PROVE  /\ MatchLength(t, c) \in 0..Len(c)
           /\ MatchLength(t, c) > 0 <=> Passes(t, c, 1)
<1> DEFINE T == {n \in 0..Len(c) : ~Passes(t, c, n + 1)}
<1>1. Len(c) \in T /\ T \in SUBSET Nat
    BY DEF Passes
<1>2. PICK n \in T : \A m \in T : n <= m
    BY <1>1, LeastPosition
<1>3. n \in 0..Len(c) /\ ~Passes(t, c, n + 1)
    BY <1>2
<1>4. Passes(t, c, n) /\ (n > 0 <=> Passes(t, c, 1))
    <2>1. CASE n = 0
        BY <1>3, <2>1 DEF Passes
    <2>2. CASE n > 0
        <3>1. n - 1 \in 0..Len(c) /\ n - 1 \notin T
            <4>1. n - 1 \in 0..Len(c) /\ ~(n <= n - 1)
                BY <1>3, <2>2
            <4> HIDE DEF T
            <4> QED
                BY <1>2, <4>1
        <3>2. Passes(t, c, n)
            <4>1. n - 1 + 1 = n
                BY <1>3
            <4> QED
                BY <3>1, <4>1
        <3>3. Passes(t, c, 1)
            BY <1>3, <2>2, <3>2 DEF Passes
        <3> QED
            BY <2>2, <3>2, <3>3
    <2> QED
        BY <1>3, <2>1, <2>2
<1>5. MatchLength(t, c) = n
    BY <1>3, <1>4, MatchLengthIs DEF IsMatchLength
<1> QED
    BY <1>3, <1>4, <1>5

\* Row r is the first with the longest match.
IsFirstLongest(n, f, r) == \A j \in 1..n : f[j] <= f[r] /\ (f[j] = f[r] => r <= j)

\* Of some rows with their match lengths, one is the first with the longest.
LEMMA FirstLongest ==
    ASSUME NEW n \in Nat, NEW max \in Nat, NEW f \in [1..n -> 0..max], NEW k \in 1..n
    PROVE  \E r \in 1..n : IsFirstLongest(n, f, r)
<1> DEFINE T == {max - f[i] : i \in 1..n}
<1>1. T \in SUBSET Nat /\ T # {}
    OBVIOUS
<1>2. PICK x \in T : \A y \in T : x <= y
    BY <1>1, LeastPosition
<1>3. PICK i \in 1..n : x = max - f[i]
    OBVIOUS
<1>4. ASSUME NEW j \in 1..n PROVE f[j] <= f[i]
    <2>1. max - f[j] \in T
        OBVIOUS
    <2>2. x <= max - f[j]
        BY <1>2, <2>1
    <2> QED
        BY <1>3, <2>2
<1> HIDE DEF T
<1> DEFINE E == {j \in 1..n : f[j] = f[i]}
<1>5. E \in SUBSET Nat /\ i \in E
    OBVIOUS
<1> HIDE DEF E
<1>6. PICK r \in E : \A j \in E : r <= j
    BY <1>5, LeastPosition
<1>7. r \in 1..n /\ f[r] = f[i]
    BY <1>6 DEF E
<1>8. \A j \in 1..n : f[j] = f[r] => r <= j
    BY <1>6, <1>7 DEF E
<1> QED
    BY <1>4, <1>7, <1>8 DEF IsFirstLongest

\* match_exhaustive finds a row, as exact match or as longest prefix, unless
\* the first trapdoor of none of the rows passes.
THEOREM MatchFound ==
    ASSUME NEW table \in Seq(TrapdoorTableEntry), NEW ciphertext, Len(ciphertext) \in Nat \ {0}
    PROVE  LET match == match_exhaustive(table, ciphertext)
           IN  (match.exact_match # 0 \/ match.longest_prefix.row # 0) <=>
                  \E i \in 1..Len(table) : Passes(table[i].trapdoors, ciphertext, 1)
<1> DEFINE exact == match_exhaustive(table, ciphertext).exact_match
           longest == match_exhaustive(table, ciphertext).longest_prefix
           First1(i) == Passes(table[i].trapdoors, ciphertext, 1)
           n == Len(table)
           max == Len(ciphertext)
<1>1. n \in Nat /\ max \in Nat \ {0}
    OBVIOUS
<1>2. \/ exact = 0
      \/ exact \in 1..n /\ IsExact(table[exact].trapdoors, ciphertext)
    BY ExactMatchIsFirst
<1>3. ASSUME NEW i \in 1..n PROVE Len(table[i].trapdoors) \in Nat
    <2>1. table[i] \in TrapdoorTableEntry
        BY ElementOfSeq
    <2> QED
        BY <2>1 DEF TrapdoorTableEntry
<1> DEFINE f == [i \in 1..n |-> MatchLength(table[i].trapdoors, ciphertext)]
<1>4. ASSUME NEW i \in 1..n PROVE f[i] \in 0..max /\ (f[i] > 0 <=> First1(i))
    <2>1. /\ MatchLength(table[i].trapdoors, ciphertext) \in 0..max
          /\ MatchLength(table[i].trapdoors, ciphertext) > 0 <=> First1(i)
        BY <1>1, <1>3, MatchLengthPositive
    <2> QED
        BY <2>1
<1>5. f \in [1..n -> 0..max]
    BY <1>4
<1>6. CASE exact # 0
    <2>1. First1(exact)
        BY <1>1, <1>2, <1>6 DEF IsExact, Passes
    <2> HIDE DEF exact, longest
    <2> QED
        BY <1>2, <1>6, <2>1 DEF exact, longest
<1>7. CASE exact = 0
    <2>1. Scanned(table, ciphertext) = n
        BY <1>7 DEF Scanned
    <2>2. \A i \in 1..n : MatchLength(table[i].trapdoors, ciphertext) = f[i]
        OBVIOUS
    <2> HIDE DEF f
    <2>3. ASSUME NEW lp, Longest(table, ciphertext, n, lp) PROVE longest = lp
        <3>1. \A i \in 1..n : MatchLength(table[i].trapdoors, ciphertext) \in Nat
            BY <1>4, <2>2
        <3> QED
            BY <1>1, <2>1, <2>3, <3>1, LongestPrefixIs
    <2> HIDE DEF First1, n, exact, longest, max
    <2>4. CASE \A i \in 1..n : ~First1(i)
        <3> DEFINE lp == [row |-> 0, len |-> 0]
        <3>1. \A i \in 1..n : f[i] = 0
            BY <1>1, <1>4, <2>4
        <3>2. Longest(table, ciphertext, n, lp)
            BY <2>2, <3>1 DEF Longest
        <3>3. longest.row = 0
            BY <2>3, <3>2
        <3> QED
            BY <1>7, <2>4, <3>3 DEF First1, n, exact, longest
    <2>5. ASSUME NEW k \in 1..n, First1(k)
          PROVE  longest.row # 0
        <3>1. PICK r \in 1..n : \A j \in 1..n : f[j] <= f[r] /\ (f[j] = f[r] => r <= j)
            <4>1. n \in Nat /\ max \in Nat /\ f \in [1..n -> 0..max]
                BY <1>1, <1>5
            <4>2. \E r \in 1..n : IsFirstLongest(n, f, r)
                BY <4>1, FirstLongest
            <4> QED
                BY <4>2 DEF IsFirstLongest
        <3>2. f[r] > 0
            BY <1>1, <1>4, <2>5, <3>1
        <3> DEFINE lp == [row |-> r, len |-> f[r]]
        <3>3. Longest(table, ciphertext, n, lp)
            BY <2>2, <3>1, <3>2 DEF Longest
        <3>4. longest.row = r
            BY <2>3, <3>3
        <3> QED
            BY <3>4
    <2> QED
        BY <1>7, <2>4, <2>5 DEF First1, n, exact, longest
<1> QED
    BY <1>6, <1>7

-----------------------------------------------------------------------------
(* Later inserts.                                                          *)

\* The ciphertexts were encrypted with scalars other than zero.
Hiding(ciphertext) == \A i \in 1..Len(ciphertext) : ciphertext[i].a \in Scalar \ {Zero}

\* Such ciphertexts match one trapdoor sequence exactly, at most.
LEMMA ExactKeyUnique ==
    ASSUME NEW k \in Seq(Scalar), NEW l \in Seq(Scalar),
           NEW ciphertext, Hiding(ciphertext),
           IsExact(k, ciphertext), IsExact(l, ciphertext)
    PROVE  k = l
<1>1. Len(k) = Len(ciphertext) /\ Len(l) = Len(ciphertext) /\ Len(k) \in Nat
    BY DEF IsExact
<1>2. ASSUME NEW i \in 1..Len(k) PROVE k[i] = l[i]
    <2>1. test(k[i], ciphertext[i]) /\ test(l[i], ciphertext[i])
        BY <1>1 DEF IsExact, Passes
    <2>2. k[i] \in Scalar /\ l[i] \in Scalar /\ ciphertext[i].a \in Scalar \ {Zero}
        BY <1>1, ElementOfSeq DEF Hiding
    <2> QED
        BY <2>1, <2>2, TestFixesTrapdoor
<1> QED
    BY <1>1, <1>2, SeqEqual

\* What match_exhaustive finds for them, it still finds after an insert, at
\* a row with the same trapdoors: no later row gets in front.
THEOREM InsertKeepsExact ==
    ASSUME NEW table \in Seq(TrapdoorTableEntry),
           NEW key \in Seq(Scalar) \ {<< >>}, NEW name \in RawName \cup {NoName},
           NEW table2 \in insert(table, key, name),
           NEW ciphertext, Hiding(ciphertext),
           match_exhaustive(table, ciphertext).exact_match # 0
    PROVE  /\ match_exhaustive(table2, ciphertext).exact_match # 0
           /\ table2[match_exhaustive(table2, ciphertext).exact_match].trapdoors
                 = table[match_exhaustive(table, ciphertext).exact_match].trapdoors
<1> DEFINE r == match_exhaustive(table, ciphertext).exact_match
           r2 == match_exhaustive(table2, ciphertext).exact_match
<1>1. table2 \in Seq(TrapdoorTableEntry)
    BY InsertRows
<1>2. r \in 1..Len(table) /\ IsExact(table[r].trapdoors, ciphertext)
    BY ExactMatchIsFirst
<1>3. PICK j \in 1..Len(table2) : table2[j].trapdoors = table[r].trapdoors
    BY <1>2, InsertKeys
<1>4. r2 \in 1..Len(table2) /\ IsExact(table2[r2].trapdoors, ciphertext)
    BY <1>1, <1>2, <1>3, ExactMatchIsFirst
<1> HIDE DEF r, r2
<1>5. table[r] \in TrapdoorTableEntry /\ table2[r2] \in TrapdoorTableEntry
    BY <1>1, <1>2, <1>4, ElementOfSeq
<1>6. table2[r2].trapdoors = table[r].trapdoors
    BY <1>2, <1>4, <1>5, ExactKeyUnique DEF TrapdoorTableEntry
<1>7. r2 # 0
    BY <1>4
<1> QED
    BY <1>6, <1>7 DEF r, r2

-----------------------------------------------------------------------------
(* Encrypted names.                                                        *)

\* The ciphertexts of a name hide it if no scalar is zero.
LEMMA NameHidden ==
    ASSUME NEW h, NEW name \in RawName, parse_name(name).ok,
           NEW r \in Seq(Scalar \ {Zero}), Covers(r, name)
    PROVE  Hiding(name_to_ciphertext(h, name, r).val)
<1> DEFINE nc == name_to_ciphertext(h, name, r).val
           components == parse_name(name).val
<1>1. /\ Len(nc) = Len(components)
      /\ \A i \in 1..Len(components) : nc[i] = encrypt(h, components[i], r[i])
    BY CiphertextsOfName
<1>2. \A i \in 1..Len(components) : r[i] \in Scalar \ {Zero}
    BY ScalarOfComponent
<1> HIDE DEF nc, components
<1>3. \A w, k : encrypt(h, w, k).a = Mul(Generator, k)
    BY DEF encrypt
<1>4. \A k \in Scalar \ {Zero} : Mul(Generator, k) \in Scalar \ {Zero}
    BY MulNonzero, ScalarAssumption DEF ScalarAssumption
<1> QED
    BY <1>1, <1>2, <1>3, <1>4 DEF Hiding, nc

\* The trapdoors of a name match an encrypted name exactly when the two have
\* the same components, but for those that a zero scalar leaves open.
LEMMA NameTested ==
    ASSUME NEW alpha \in Scalar \ {Zero}, NEW r \in Seq(Scalar),
           NEW m \in RawName, parse_name(m).ok, NEW n \in RawName, parse_name(n).ok, Covers(r, n)
    PROVE  IsExact(name_to_trapdoor(alpha, m).val, name_to_ciphertext(PublicKey(alpha), n, r).val)
              <=> AgreeWhereHidden(parse_name(m).val, parse_name(n).val, r)
<1> DEFINE nt == name_to_trapdoor(alpha, m).val
           nc == name_to_ciphertext(PublicKey(alpha), n, r).val
           agree == AgreeWhereHidden(parse_name(m).val, parse_name(n).val, r)
<1>1. (Len(nt) = Len(nc) /\ \A i \in 1..Len(nt) : test(nt[i], nc[i])) <=> agree
    BY NamesTested
<1>2. Len(nt) \in Nat
    BY TrapdoorsOfName, ParsedName
<1> HIDE DEF nt, nc, agree
<1>3. IsExact(nt, nc) <=> Len(nt) = Len(nc) /\ \A i \in 1..Len(nt) : test(nt[i], nc[i])
    BY <1>2 DEF IsExact, Passes
<1> QED
    BY <1>1, <1>3 DEF nt, nc, agree

\* With scalars other than zero, they match exactly when the two have the
\* same components.
LEMMA NameMatched ==
    ASSUME NEW alpha \in Scalar \ {Zero}, NEW r \in Seq(Scalar \ {Zero}),
           NEW m \in RawName, parse_name(m).ok, NEW n \in RawName, parse_name(n).ok, Covers(r, n)
    PROVE  IsExact(name_to_trapdoor(alpha, m).val, name_to_ciphertext(PublicKey(alpha), n, r).val)
              <=> Alias(m, n)
<1>1. r \in Seq(Scalar)
    OBVIOUS
<1> QED
    BY <1>1, NameTested, AgreementIsAlias
=============================================================================
