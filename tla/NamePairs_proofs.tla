-------------------------- MODULE NamePairs_proofs --------------------------
(***************************************************************************)
(* Keys are bytes run together without separators: they still tell the     *)
(* trapdoor sequences apart and keep their order, whatever the size of a   *)
(* point and the length of the names.                                      *)
(*                                                                         *)
(* What FlattenSeq computes is known by induction on the position, stated  *)
(* as: a set of positions that fail would have a least one.                *)
(***************************************************************************)
EXTENDS NamePairs, Layers_proofs

-----------------------------------------------------------------------------
(* Sequences run together.                                                 *)

\* f tells what the first i sequences of s give when they are run together.
RunsTogether(S, s, f) ==
    /\ f \in [1..Len(s) -> Seq(S)]
    /\ \A i \in 1..Len(s) : f[i] = IF i = 1 THEN s[1] ELSE f[i-1] \o s[i]

\* There is such an f.
LEMMA RunsTogetherExists ==
    ASSUME NEW S, NEW s \in Seq(Seq(S))
    PROVE  \E f : RunsTogether(S, s, f)
<1> DEFINE n == Len(s)
           Upto(m, f) == /\ f \in [1..m -> Seq(S)]
                         /\ \A i \in 1..m : f[i] = IF i = 1 THEN s[1] ELSE f[i-1] \o s[i]
           T == {m \in 0..n : ~ \E f : Upto(m, f)}
<1>1. n \in Nat /\ \A i \in 1..n : s[i] \in Seq(S)
    BY ElementOfSeq
<1>2. T = {}
    <2> SUFFICES ASSUME T # {} PROVE FALSE
        OBVIOUS
    <2>1. PICK m \in T : \A k \in T : m <= k
        <3>1. T \in SUBSET Nat
            BY <1>1
        <3> HIDE DEF T
        <3> QED
            BY <3>1, LeastPosition
    <2>2. m # 0
        <3> DEFINE f0 == [i \in 1..0 |-> s[1]]
        <3>1. Upto(0, f0)
            OBVIOUS
        <3> HIDE DEF Upto, f0
        <3> QED
            BY <2>1, <3>1
    <2>3. m \in 1..n /\ m - 1 \in 0..n /\ m - 1 \notin T
        <3> DEFINE P(k) == \E f : Upto(k, f)
        <3> HIDE DEF n, P
        <3>1. m \in 0..n /\ \A k \in 0..n : ~P(k) => m <= k
            BY <2>1 DEF P
        <3> HIDE DEF T
        <3>2. m \in 1..n /\ m - 1 \in 0..n /\ ~(m <= m - 1)
            BY <1>1, <2>2, <3>1
        <3>3. P(m - 1)
            BY <3>1, <3>2
        <3> QED
            BY <3>2, <3>3 DEF P, T
    <2>4. PICK f : Upto(m - 1, f)
        BY <2>3
    <2> DEFINE last == IF m = 1 THEN s[1] ELSE f[m-1] \o s[m]
               g == [i \in 1..m |-> IF i = m THEN last ELSE f[i]]
    <2>5. last \in Seq(S)
        <3>1. m # 1 => f[m-1] \in Seq(S)
            BY <1>1, <2>3, <2>4
        <3> QED
            BY <1>1, <2>3, <3>1
    <2>6. Upto(m, g)
        <3> HIDE DEF n, last, T
        <3>1. g \in [1..m -> Seq(S)]
            BY <1>1, <2>3, <2>4, <2>5
        <3>2. \A i \in 1..m : g[i] = IF i = 1 THEN s[1] ELSE g[i-1] \o s[i]
            <4> TAKE i \in 1..m
            <4>1. CASE i = m
                <5>1. m # 1 => g[m-1] = f[m-1]
                    BY <1>1, <2>3
                <5> QED
                    BY <2>3, <4>1, <5>1 DEF last
            <4>2. CASE i # m
                <5>1. i \in 1..(m - 1) /\ g[i] = f[i] /\ (i # 1 => g[i-1] = f[i-1])
                    BY <1>1, <2>3, <4>2
                <5> QED
                    BY <2>4, <5>1
            <4> QED
                BY <4>1, <4>2
        <3> QED
            BY <3>1, <3>2
    <2> HIDE DEF Upto, g
    <2> QED
        BY <2>1, <2>6
<1>3. n \in 0..n
    BY <1>1
<1>4. PICK f : Upto(n, f)
    BY <1>2, <1>3
<1> QED
    BY <1>4 DEF RunsTogether

\* FlattenSeq runs them all together.
LEMMA FlattenRuns ==
    ASSUME NEW S, NEW s \in Seq(Seq(S)) \ {<< >>}
    PROVE  \E f : RunsTogether(S, s, f) /\ FlattenSeq(s) = f[Len(s)]
<1> DEFINE n == Len(s)
           Step(f) == [i \in 1..n |-> IF i = 1 THEN s[i] ELSE f[i-1] \o s[i]]
           flatten == CHOOSE f : f = Step(f)
<1>1. n \in Nat \ {0}
    BY EmptySeq
<1>2. FlattenSeq(s) = flatten[n]
    BY <1>1 DEF FlattenSeq
<1>3. PICK f : RunsTogether(S, s, f)
    BY RunsTogetherExists
<1>4. f = Step(f)
    BY <1>3 DEF RunsTogether
<1>5. flatten = Step(flatten)
    BY <1>4
<1> HIDE DEF flatten
<1>6. \A i \in 1..n : flatten[i] = IF i = 1 THEN s[1] ELSE flatten[i-1] \o s[i]
    BY <1>5
<1>7. \A i \in 1..n : f[i] = IF i = 1 THEN s[1] ELSE f[i-1] \o s[i]
    BY <1>3 DEF RunsTogether
<1> DEFINE T == {i \in 1..n : flatten[i] # f[i]}
<1>8. T = {}
    <2> SUFFICES ASSUME T # {} PROVE FALSE
        OBVIOUS
    <2> HIDE DEF n
    <2>1. PICK i \in T : \A k \in T : i <= k
        <3>1. T \in SUBSET Nat
            BY <1>1
        <3> HIDE DEF T
        <3> QED
            BY <3>1, LeastPosition
    <2>2. i # 1
        BY <1>6, <1>7, <2>1
    <2>3. i - 1 \in 1..n /\ ~(i <= i - 1)
        BY <1>1, <2>1, <2>2
    <2>4. flatten[i-1] = f[i-1]
        BY <2>1, <2>3
    <2> QED
        BY <1>6, <1>7, <2>1, <2>2, <2>4
<1>9. n \in 1..n
    BY <1>1
<1>10. flatten[n] = f[n]
    BY <1>8, <1>9
<1> QED
    BY <1>2, <1>3, <1>10

\* Up to a position the result depends on the sequences up to it only.
LEMMA RunsAgree ==
    ASSUME NEW S, NEW s, NEW t, NEW f, NEW g, RunsTogether(S, s, f), RunsTogether(S, t, g),
           Len(s) \in Nat, Len(t) \in Nat,
           NEW m \in 1..Len(s), m <= Len(t), \A i \in 1..m : s[i] = t[i]
    PROVE  f[m] = g[m]
<1> DEFINE T == {i \in 1..m : f[i] # g[i]}
<1>1. m \in Nat /\ \A i \in 1..m : i \in 1..Len(s) /\ i \in 1..Len(t)
    OBVIOUS
<1>2. /\ \A i \in 1..m : f[i] = IF i = 1 THEN s[1] ELSE f[i-1] \o s[i]
      /\ \A i \in 1..m : g[i] = IF i = 1 THEN t[1] ELSE g[i-1] \o t[i]
    BY <1>1 DEF RunsTogether
<1>3. T = {}
    <2> SUFFICES ASSUME T # {} PROVE FALSE
        OBVIOUS
    <2>1. PICK i \in T : \A k \in T : i <= k
        <3>1. T \in SUBSET Nat
            BY <1>1
        <3> HIDE DEF T
        <3> QED
            BY <3>1, LeastPosition
    <2>2. i # 1
        BY <1>1, <1>2, <2>1
    <2>3. i - 1 \in 1..m /\ ~(i <= i - 1)
        BY <1>1, <2>1, <2>2
    <2>4. f[i-1] = g[i-1]
        BY <2>1, <2>3
    <2> QED
        BY <1>2, <2>1, <2>2, <2>4
<1>4. m \in 1..m
    BY <1>1
<1> QED
    BY <1>3, <1>4

\* u is p with something behind.
Begins(S, p, u) == \E rest \in Seq(S) : u = p \o rest

\* Nothing may be behind.
LEMMA BeginsReflexive ==
    ASSUME NEW S, NEW p \in Seq(S)
    PROVE  Begins(S, p, p)
<1>1. << >> \in Seq(S) /\ p = p \o << >>
    BY ConcatEmptySeq
<1> QED
    BY <1>1 DEF Begins

\* More may be put behind.
LEMMA BeginsLonger ==
    ASSUME NEW S, NEW p \in Seq(S), NEW x \in Seq(S), NEW u, Begins(S, p, u)
    PROVE  Begins(S, p, u \o x)
<1>1. PICK rest \in Seq(S) : u = p \o rest
    BY DEF Begins
<1>2. (p \o rest) \o x = p \o (rest \o x)
    BY ConcatAssociative
<1>3. rest \o x \in Seq(S)
    BY ConcatProperties
<1> QED
    BY <1>1, <1>2, <1>3 DEF Begins

\* Whatever comes after a position is added behind.
LEMMA RunsExtend ==
    ASSUME NEW S, NEW s \in Seq(Seq(S)), NEW f, RunsTogether(S, s, f), NEW m \in 1..Len(s)
    PROVE  Begins(S, f[m], f[Len(s)])
<1> DEFINE n == Len(s)
           T == {k \in m..n : ~Begins(S, f[m], f[k])}
<1>1. n \in Nat /\ \A i \in 1..n : s[i] \in Seq(S)
    BY ElementOfSeq
<1>2. /\ \A i \in 1..n : f[i] \in Seq(S)
      /\ \A i \in 1..n : i # 1 => f[i] = f[i-1] \o s[i]
    BY DEF RunsTogether
<1>3. T = {}
    <2> SUFFICES ASSUME T # {} PROVE FALSE
        OBVIOUS
    <2>1. PICK k \in T : \A l \in T : k <= l
        <3>1. T \in SUBSET Nat
            BY <1>1
        <3> HIDE DEF T
        <3> QED
            BY <3>1, LeastPosition
    <2>2. k # m
        <3>1. f[m] \in Seq(S)
            BY <1>2
        <3>2. Begins(S, f[m], f[m])
            BY <3>1, BeginsReflexive
        <3> QED
            BY <2>1, <3>2
    <2>3. k \in m..n /\ k - 1 \in m..n /\ ~(k <= k - 1) /\ k \in 1..n /\ k - 1 \in 1..n /\ k # 1
        <3> HIDE DEF n
        <3>1. k \in m..n
            BY <2>1
        <3> HIDE DEF T
        <3> QED
            BY <1>1, <2>2, <3>1
    <2>4. Begins(S, f[m], f[k-1])
        BY <2>1, <2>3
    <2>5. f[m] \in Seq(S) /\ s[k] \in Seq(S) /\ f[k] = f[k-1] \o s[k]
        BY <1>1, <1>2, <2>3
    <2>6. Begins(S, f[m], f[k-1] \o s[k])
        BY <2>4, <2>5, BeginsLonger
    <2> QED
        BY <2>1, <2>5, <2>6
<1>4. n \in m..n
    BY <1>1
<1> QED
    BY <1>3, <1>4

\* What comes before a position.
Before(f, m) == IF m = 1 THEN << >> ELSE f[m-1]

\* At every position the result is what comes before, the sequence there, and
\* a rest.
LEMMA RunsSplit ==
    ASSUME NEW S, NEW s \in Seq(Seq(S)), NEW f, RunsTogether(S, s, f), NEW m \in 1..Len(s)
    PROVE  /\ Before(f, m) \in Seq(S)
           /\ Begins(S, Before(f, m) \o s[m], f[Len(s)])
<1>1. /\ \A i \in 1..Len(s) : f[i] \in Seq(S)
      /\ f[m] = IF m = 1 THEN s[1] ELSE f[m-1] \o s[m]
    BY DEF RunsTogether
<1>2. m # 1 => m - 1 \in 1..Len(s)
    OBVIOUS
<1>3. Before(f, m) \in Seq(S)
    BY <1>1, <1>2 DEF Before
<1>4. s[m] \in Seq(S)
    BY ElementOfSeq
<1>5. f[m] = Before(f, m) \o s[m]
    <2>1. CASE m = 1
        <3> DEFINE x == s[m]
        <3>1. x \in Seq(S)
            BY <1>4
        <3> HIDE DEF x
        <3>2. << >> \o x = x
            BY <3>1, ConcatEmptySeq
        <3> QED
            BY <1>1, <2>1, <3>2 DEF Before, x
    <2>2. CASE m # 1
        BY <1>1, <2>2 DEF Before
    <2> QED
        BY <2>1, <2>2
<1>6. Begins(S, f[m], f[Len(s)])
    BY RunsExtend
<1> QED
    BY <1>3, <1>5, <1>6

-----------------------------------------------------------------------------
(* The order of keys.                                                      *)

\* Of two keys that differ one is the smaller.
LEMMA KeyLessTotal ==
    ASSUME NEW S \in SUBSET Nat, NEW k \in Seq(S), NEW l \in Seq(S), k # l
    PROVE  KeyLess(k, l) \/ KeyLess(l, k)
<1> DEFINE m == Len(k)
           n == Len(l)
           T == {i \in 1..(m + n + 1) : i > m \/ i > n \/ k[i] # l[i]}
<1>1. /\ m \in Nat /\ n \in Nat
      /\ \A i \in 1..m : k[i] \in Nat
      /\ \A i \in 1..n : l[i] \in Nat
    <2>1. m \in Nat /\ n \in Nat
        OBVIOUS
    <2>2. /\ \A i \in 1..m : k[i] \in S
          /\ \A i \in 1..n : l[i] \in S
        BY ElementOfSeq
    <2>3. \A e \in S : e \in Nat
        OBVIOUS
    <2> HIDE DEF m, n
    <2> QED
        BY <2>1, <2>2, <2>3
<1>2. m # n \/ \E i \in 1..m : k[i] # l[i]
    BY SeqEqual
<1> HIDE DEF m, n
<1>3. PICK i \in T : \A j \in T : i <= j
    <2>1. T \in SUBSET Nat
        BY <1>1
    <2>2. m + n + 1 \in T
        BY <1>1
    <2> HIDE DEF T
    <2> QED
        BY <2>1, <2>2, LeastPosition
<1>4. i \in 1..(m + n + 1) /\ (i > m \/ i > n \/ k[i] # l[i])
    BY <1>3
<1>5. \A j \in 1..(i - 1) : j <= m /\ j <= n /\ k[j] = l[j]
    <2> TAKE j \in 1..(i - 1)
    <2>1. j \in 1..(m + n + 1) /\ ~(i <= j)
        BY <1>1, <1>4
    <2> QED
        BY <1>1, <1>3, <2>1
<1>6. i <= m \/ i <= n
    <2> SUFFICES ASSUME ~(i <= m), ~(i <= n) PROVE FALSE
        OBVIOUS
    <2>0. i > m /\ i > n
        BY <1>1, <1>4
    <2>1. i - 1 >= m /\ i - 1 >= n
        BY <1>1, <1>4, <2>0
    <2>2. m = n
        <3>1. CASE i = 1
            BY <1>1, <2>0, <3>1
        <3>2. CASE i # 1
            <4>1. i - 1 \in 1..(i - 1)
                BY <1>1, <1>4, <3>2
            <4>2. i - 1 <= m /\ i - 1 <= n
                BY <1>5, <4>1
            <4> QED
                BY <1>1, <1>4, <2>1, <4>2
        <3> QED
            BY <3>1, <3>2
    <2>3. \A j \in 1..m : j \in 1..(i - 1)
        BY <1>1, <1>4, <2>1
    <2> QED
        BY <1>2, <1>5, <2>2, <2>3
<1>7. CASE i <= m /\ i <= n
    <2>1. k[i] # l[i] /\ k[i] \in Nat /\ l[i] \in Nat /\ i \in 1..m /\ i \in 1..n
        BY <1>1, <1>4, <1>7
    <2>2. k[i] < l[i] \/ l[i] < k[i]
        BY <2>1
    <2> QED
        BY <1>5, <2>1, <2>2 DEF KeyLess, m, n
<1>8. CASE i > m /\ i <= n
    <2>1. i \in 1..n
        BY <1>1, <1>4, <1>8
    <2> QED
        BY <1>5, <1>8, <2>1 DEF KeyLess, m, n
<1>9. CASE i <= m /\ i > n
    <2>1. i \in 1..m
        BY <1>1, <1>4, <1>9
    <2> QED
        BY <1>5, <1>9, <2>1 DEF KeyLess, m, n
<1> QED
    BY <1>1, <1>4, <1>6, <1>7, <1>8, <1>9

\* u has p, then x, then n more elements.
InARow(u, p, x, n) ==
    /\ Len(u) = Len(p) + Len(x) + n
    /\ \A i \in 1..Len(p) : u[i] = p[i]
    /\ \A i \in 1..Len(x) : u[Len(p) + i] = x[i]

\* Of three sequences in a row the first two are at their places.
LEMMA ThreeInARow ==
    ASSUME NEW S, NEW p \in Seq(S), NEW x \in Seq(S), NEW r \in Seq(S)
    PROVE  InARow((p \o x) \o r, p, x, Len(r))
<1> DEFINE px == p \o x
<1>1. /\ px \in Seq(S) /\ Len(px) = Len(p) + Len(x)
      /\ \A i \in 1..(Len(p) + Len(x)) : px[i] = IF i <= Len(p) THEN p[i] ELSE x[i - Len(p)]
    BY ConcatProperties
<1>2. Len(p) \in Nat /\ Len(x) \in Nat /\ Len(r) \in Nat
    OBVIOUS
<1> HIDE DEF px
<1> DEFINE u == px \o r
<1>3. /\ u \in Seq(S) /\ Len(u) = Len(px) + Len(r)
      /\ \A i \in 1..(Len(px) + Len(r)) : u[i] = IF i <= Len(px) THEN px[i] ELSE r[i - Len(px)]
    <2>1. px \in Seq(S)
        BY <1>1
    <2> QED
        BY <2>1, ConcatProperties
<1> HIDE DEF u
<1>4. \A i \in 1..Len(p) : u[i] = p[i]
    BY <1>1, <1>2, <1>3
<1>5. \A i \in 1..Len(x) : u[Len(p) + i] = x[i]
    <2> TAKE i \in 1..Len(x)
    <2>1. /\ Len(p) + i \in 1..(Len(p) + Len(x)) /\ Len(p) + i \in 1..(Len(px) + Len(r))
          /\ Len(p) + i <= Len(px) /\ ~(Len(p) + i <= Len(p)) /\ Len(p) + i - Len(p) = i
        BY <1>1, <1>2
    <2> QED
        BY <1>1, <1>3, <2>1
<1> QED
    BY <1>1, <1>2, <1>3, <1>4, <1>5 DEF InARow, u, px

\* After equal beginnings, what decides between parts of the same length
\* decides whatever follows.
LEMMA KeyLessExtended ==
    ASSUME NEW S, NEW p \in Seq(S), NEW x \in Seq(S), NEW y \in Seq(S),
           NEW r \in Seq(S), NEW q \in Seq(S), Len(x) = Len(y), KeyLess(x, y)
    PROVE  KeyLess((p \o x) \o r, (p \o y) \o q)
<1> DEFINE k == (p \o x) \o r
           l == (p \o y) \o q
<1>1. InARow(k, p, x, Len(r))
    BY ThreeInARow
<1>2. InARow(l, p, y, Len(q))
    BY ThreeInARow
<1>3. PICK n \in 1..Len(y) :
        /\ \A i \in 1..(n-1) : i <= Len(x) /\ x[i] = y[i]
        /\ n > Len(x) \/ x[n] < y[n]
    BY DEF KeyLess
<1> DEFINE a == Len(p)
           b == Len(x)
           c == Len(r)
           d == Len(q)
<1>4. a \in Nat /\ b \in Nat /\ c \in Nat /\ d \in Nat /\ n \in 1..b
    OBVIOUS
<1> HIDE DEF k, l
<1>5. /\ Len(k) = a + b + c /\ Len(l) = a + b + d
      /\ \A i \in 1..a : k[i] = l[i]
      /\ \A i \in 1..b : k[a + i] = x[i] /\ l[a + i] = y[i]
    BY <1>1, <1>2 DEF InARow
<1>6. /\ \A i \in 1..(n-1) : x[i] = y[i]
      /\ n > b \/ x[n] < y[n]
    BY <1>3
<1> HIDE DEF a, b, c, d
<1> DEFINE w == a + n
<1>7. w \in 1..Len(l) /\ k[w] < l[w]
    BY <1>4, <1>5, <1>6
<1>8. \A i \in 1..(w - 1) : i <= Len(k) /\ k[i] = l[i]
    <2> TAKE i \in 1..(w - 1)
    <2>1. i <= Len(k)
        BY <1>4, <1>5
    <2>2. CASE i <= a
        BY <1>4, <1>5, <2>1, <2>2
    <2>3. CASE i > a
        <3> DEFINE j == i - a
        <3>1. j \in 1..(n - 1) /\ j \in 1..b /\ i = a + j
            BY <1>4, <2>3
        <3> HIDE DEF j
        <3> QED
            BY <1>5, <1>6, <2>1, <3>1
    <2> QED
        BY <1>4, <2>2, <2>3
<1> HIDE DEF w
<1>9. KeyLess(k, l)
    BY <1>7, <1>8 DEF KeyLess
<1> QED
    BY <1>9 DEF k, l

\* A key comes before those that it begins.
LEMMA KeyLessLonger ==
    ASSUME NEW S, NEW p \in Seq(S), NEW y \in Seq(S) \ {<< >>}, NEW q \in Seq(S)
    PROVE  KeyLess(p, (p \o y) \o q)
<1> DEFINE l == (p \o y) \o q
           a == Len(p)
           b == Len(y)
           d == Len(q)
<1>1. Len(l) = a + b + d /\ \A i \in 1..a : l[i] = p[i]
    BY ThreeInARow DEF InARow
<1>2. a \in Nat /\ b \in Nat \ {0} /\ d \in Nat
    BY EmptySeq
<1> HIDE DEF l, a, b, d
<1>3. a + 1 \in 1..Len(l) /\ a + 1 > a
    BY <1>1, <1>2
<1>4. \A i \in 1..(a + 1 - 1) : i <= a /\ p[i] = l[i]
    BY <1>1, <1>2
<1>5. KeyLess(p, l)
    BY <1>3, <1>4 DEF KeyLess, a
<1> QED
    BY <1>5 DEF l

-----------------------------------------------------------------------------
(* The bytes of trapdoor sequences.                                        *)

Bytes(k) == [i \in 1..Len(k) |-> to_bytes(k[i])]

\* They are written one by one.
LEMMA BytesOfTrapdoors ==
    ASSUME NEW k \in Seq(Scalar) \ {<< >>}
    PROVE  /\ Bytes(k) \in Seq(Seq(Byte)) \ {<< >>}
           /\ Len(Bytes(k)) = Len(k)
           /\ \A i \in 1..Len(k) : Bytes(k)[i] = to_bytes(k[i])
<1>1. ASSUME NEW t \in Scalar PROVE to_bytes(t) \in Seq(Byte)
    <2>1. to_bytes(t) \in [1..Size -> Byte] /\ Size \in Nat
        BY BytesAssumption DEF BytesAssumption, to_bytes
    <2> QED
        BY <2>1
<1>2. \A i \in 1..Len(k) : k[i] \in Scalar
    BY ElementOfSeq
<1>3. Len(k) \in Nat \ {0}
    BY EmptySeq
<1> QED
    BY <1>1, <1>2, <1>3 DEF Bytes

\* The bytes of points are as many, and compare as the points do.
LEMMA BytesOfPoints ==
    ASSUME NEW t \in Scalar, NEW u \in Scalar
    PROVE  /\ to_bytes(t) \in Seq(Byte) \ {<< >>}
           /\ Len(to_bytes(t)) = Len(to_bytes(u))
           /\ t < u => KeyLess(to_bytes(t), to_bytes(u))
<1>1. to_bytes(t) \in [1..Size -> Byte] /\ to_bytes(u) \in [1..Size -> Byte] /\ Size \in Nat \ {0}
    BY BytesAssumption DEF BytesAssumption, to_bytes
<1>2. t < u => KeyLess(to_bytes(t), to_bytes(u))
    BY BytesAssumption DEF BytesAssumption, to_bytes
<1>3. to_bytes(t) \in Seq(Byte) /\ Len(to_bytes(t)) = Size /\ Len(to_bytes(u)) = Size
    BY <1>1
<1> QED
    BY <1>1, <1>2, <1>3, EmptySeq

\* A smaller trapdoor sequence has the smaller key.
LEMMA KeysKeepOrder ==
    ASSUME NEW k \in Seq(Scalar) \ {<< >>}, NEW l \in Seq(Scalar) \ {<< >>}, KeyLess(k, l)
    PROVE  KeyLess(Concatenated(k), Concatenated(l))
<1> DEFINE s == Bytes(k)
           t == Bytes(l)
<1>1. /\ s \in Seq(Seq(Byte)) \ {<< >>} /\ Len(s) = Len(k)
      /\ \A i \in 1..Len(k) : s[i] = to_bytes(k[i])
    BY BytesOfTrapdoors
<1>2. /\ t \in Seq(Seq(Byte)) \ {<< >>} /\ Len(t) = Len(l)
      /\ \A i \in 1..Len(l) : t[i] = to_bytes(l[i])
    BY BytesOfTrapdoors
<1>3. Concatenated(k) = FlattenSeq(s) /\ Concatenated(l) = FlattenSeq(t)
    BY DEF Concatenated, Bytes
<1> HIDE DEF s, t
<1>4. PICK f : RunsTogether(Byte, s, f) /\ FlattenSeq(s) = f[Len(s)]
    BY <1>1, FlattenRuns
<1>5. PICK g : RunsTogether(Byte, t, g) /\ FlattenSeq(t) = g[Len(t)]
    BY <1>2, FlattenRuns
<1>6. PICK n \in 1..Len(l) :
        /\ \A i \in 1..(n-1) : i <= Len(k) /\ k[i] = l[i]
        /\ n > Len(k) \/ k[n] < l[n]
    BY DEF KeyLess
<1>7. /\ Len(k) \in Nat \ {0} /\ Len(l) \in Nat \ {0}
      /\ \A i \in 1..Len(k) : k[i] \in Scalar
      /\ \A i \in 1..Len(l) : l[i] \in Scalar
    BY ElementOfSeq, EmptySeq
<1>8. Before(g, n) \in Seq(Byte) /\ Begins(Byte, Before(g, n) \o t[n], g[Len(t)])
    BY <1>2, <1>5, <1>6, RunsSplit
<1>9. PICK q \in Seq(Byte) : Concatenated(l) = (Before(g, n) \o t[n]) \o q
    BY <1>3, <1>5, <1>8 DEF Begins
<1>10. n # 1 => f[n-1] = g[n-1]
    <2> SUFFICES ASSUME n # 1 PROVE f[n-1] = g[n-1]
        OBVIOUS
    <2> DEFINE m == n - 1
    <2>1. m \in 1..(n-1) /\ n \in Nat
        BY <1>7
    <2>2. m \in 1..Len(s) /\ m <= Len(t) /\ Len(s) \in Nat /\ Len(t) \in Nat
        BY <1>1, <1>2, <1>6, <1>7, <2>1
    <2>3. \A i \in 1..m : s[i] = t[i]
        BY <1>1, <1>2, <1>6, <1>7, <2>1
    <2> HIDE DEF m
    <2>4. f[m] = g[m]
        BY <1>4, <1>5, <2>2, <2>3, RunsAgree
    <2> QED
        BY <2>4 DEF m
<1>11. l[n] \in Scalar /\ t[n] = to_bytes(l[n])
    BY <1>2, <1>7
<1>12. CASE n <= Len(k)
    <2>1. n \in 1..Len(s) /\ s[n] = to_bytes(k[n]) /\ k[n] \in Scalar /\ k[n] < l[n]
        BY <1>1, <1>6, <1>7, <1>12
    <2>2. Begins(Byte, Before(f, n) \o s[n], f[Len(s)])
        BY <1>1, <1>4, <2>1, RunsSplit
    <2>3. Before(f, n) = Before(g, n)
        BY <1>10 DEF Before
    <2> DEFINE p == Before(g, n)
               x == s[n]
               y == t[n]
    <2>4. PICK r \in Seq(Byte) : Concatenated(k) = (p \o x) \o r
        BY <1>3, <1>4, <2>2, <2>3 DEF Begins
    <2>5. p \in Seq(Byte) /\ x \in Seq(Byte) /\ y \in Seq(Byte) /\ Len(x) = Len(y) /\ KeyLess(x, y)
        BY <1>8, <1>11, <2>1, BytesOfPoints
    <2>6. Concatenated(l) = (p \o y) \o q
        BY <1>9
    <2> HIDE DEF p, x, y
    <2>7. KeyLess((p \o x) \o r, (p \o y) \o q)
        BY <2>5, KeyLessExtended
    <2> QED
        BY <2>4, <2>6, <2>7
<1>13. CASE n > Len(k)
    <2>1. n - 1 = Len(k) /\ n # 1
        <3>1. n - 1 >= Len(k) /\ n # 1
            BY <1>7, <1>13
        <3>2. n - 1 \in 1..(n - 1)
            BY <1>7, <3>1
        <3>3. n - 1 <= Len(k)
            BY <1>6, <3>2
        <3> QED
            BY <1>7, <3>1, <3>3
    <2>2. Before(g, n) = Concatenated(k)
        BY <1>1, <1>3, <1>4, <1>10, <2>1 DEF Before
    <2> DEFINE p == Before(g, n)
               y == t[n]
    <2>3. p \in Seq(Byte) /\ y \in Seq(Byte) \ {<< >>}
        BY <1>8, <1>11, BytesOfPoints
    <2>4. Concatenated(l) = (p \o y) \o q
        BY <1>9
    <2> HIDE DEF p, y
    <2>5. KeyLess(p, (p \o y) \o q)
        BY <2>3, KeyLessLonger
    <2> QED
        BY <2>2, <2>4, <2>5 DEF p
<1> QED
    BY <1>7, <1>12, <1>13

\* Keys are strings of bytes.
LEMMA KeyType ==
    ASSUME NEW k \in Seq(Scalar) \ {<< >>}
    PROVE  Concatenated(k) \in Seq(Byte)
<1> DEFINE s == Bytes(k)
<1>1. s \in Seq(Seq(Byte)) \ {<< >>}
    BY BytesOfTrapdoors
<1>2. Concatenated(k) = FlattenSeq(s)
    BY DEF Concatenated, Bytes
<1> HIDE DEF s
<1>3. PICK f : RunsTogether(Byte, s, f) /\ FlattenSeq(s) = f[Len(s)]
    BY <1>1, FlattenRuns
<1>4. Len(s) \in 1..Len(s)
    BY <1>1, EmptySeq
<1> QED
    BY <1>2, <1>3, <1>4 DEF RunsTogether

\* Comparing keys byte by byte is comparing the sequences trapdoor by
\* trapdoor, and keys are equal for equal sequences only: the separators that
\* trapdoors_to_key and sort_key leave out are not missed.
THEOREM KeysOrderSequences ==
    ASSUME NEW k \in Seq(Scalar) \ {<< >>}, NEW l \in Seq(Scalar) \ {<< >>}
    PROVE  /\ KeyLess(Concatenated(k), Concatenated(l)) <=> KeyLess(k, l)
           /\ Concatenated(k) = Concatenated(l) <=> k = l
<1> DEFINE x == Concatenated(k)
           y == Concatenated(l)
<1>1. x \in Seq(Byte) /\ y \in Seq(Byte)
    BY KeyType
<1>2. KeyLess(k, l) => KeyLess(x, y)
    BY KeysKeepOrder
<1>3. KeyLess(l, k) => KeyLess(y, x)
    BY KeysKeepOrder
<1> HIDE DEF x, y
<1>4. k = l \/ KeyLess(k, l) \/ KeyLess(l, k)
    BY KeyLessTotal, ScalarAssumption DEF ScalarAssumption
<1>5. Byte \in SUBSET Nat
    BY BytesAssumption DEF BytesAssumption
<1>6. /\ ~(KeyLess(x, y) /\ KeyLess(y, x))
      /\ ~KeyLess(x, x)
    BY <1>1, <1>5, KeyLessAsymmetric
<1>7. ~KeyLess(k, k)
    BY KeyLessAsymmetric, ScalarAssumption DEF ScalarAssumption
<1>8. k = l => x = y
    BY DEF x, y
<1>9. KeyLess(x, y) <=> KeyLess(k, l)
    BY <1>2, <1>3, <1>4, <1>6, <1>7, <1>8
<1>10. x = y <=> k = l
    BY <1>2, <1>3, <1>4, <1>6, <1>8
<1> QED
    BY <1>9, <1>10 DEF x, y

-----------------------------------------------------------------------------
(* The pairs of names.                                                     *)

\* Both are names, and the one that is asked for has its bound.
TypeOK ==
    /\ registered \in RawName /\ asked \in RawName
    /\ Len(asked) <= MaxSegments + 1

\* Sequences that are not empty, by their last element.
LEMMA OneElement ==
    ASSUME NEW S, NEW e \in S
    PROVE  <<e>> \in Seq(S) \ {<< >>}
<1>1. Len(<<e>>) = 1 /\ Len(<< >>) = 0
    OBVIOUS
<1>2. <<e>> \in Seq(S)
    OBVIOUS
<1> QED
    BY <1>1, <1>2

\* One element more.
LEMMA OneMore ==
    ASSUME NEW S, NEW s \in Seq(S), NEW e \in S
    PROVE  /\ Append(s, e) \in Seq(S) \ {<< >>}
           /\ Len(Append(s, e)) = Len(s) + 1 /\ Len(s) \in Nat
BY AppendProperties

\* A name stays one when a segment is added.
LEMMA NameExtended ==
    ASSUME NEW name \in RawName, NEW longer \in Extend(name)
    PROVE  longer \in RawName /\ Len(longer) = Len(name) + 1 /\ Len(name) \in Nat
<1>1. PICK e \in Component \cup {""} : longer = Append(name, e)
    BY DEF Extend
<1> DEFINE S == Component \cup {""}
<1>2. name \in Seq(S)
    BY DEF RawName
<1> HIDE DEF S
<1>3. e \in S
    BY <1>1 DEF S
<1>4. Append(name, e) \in Seq(S) \ {<< >>}
    BY <1>2, <1>3, OneMore
<1>5. Len(Append(name, e)) = Len(name) + 1 /\ Len(name) \in Nat
    BY <1>2, <1>3, OneMore
<1> QED
    BY <1>1, <1>4, <1>5 DEF RawName, S

\* Every reachable pair is one of names.
LEMMA TypeInvariant == Spec => []TypeOK
<1>1. Init => TypeOK
    <2>1. ASSUME NEW e \in Component \cup {""} PROVE <<e>> \in RawName
        <3> DEFINE S == Component \cup {""}
        <3>1. e \in S
            OBVIOUS
        <3> HIDE DEF S
        <3>2. <<e>> \in Seq(S) \ {<< >>}
            BY <3>1, OneElement
        <3> QED
            BY <3>2 DEF RawName, S
    <2>2. \A e : Len(<<e>>) = 1
        OBVIOUS
    <2>3. 1 <= MaxSegments + 1
        BY PairAssumption DEF PairAssumption
    <2> QED
        BY <2>1, <2>2, <2>3 DEF Init, TypeOK
<1>2. TypeOK /\ [Next]_vars => TypeOK'
    <2> SUFFICES ASSUME TypeOK, [Next]_vars PROVE TypeOK'
        OBVIOUS
    <2>1. CASE registered' \in Extend(registered) /\ UNCHANGED asked
        BY <2>1, NameExtended DEF TypeOK
    <2>2. CASE Len(asked) < MaxSegments /\ asked' \in Extend(asked) /\ UNCHANGED registered
        BY <2>2, NameExtended, PairAssumption DEF TypeOK, PairAssumption
    <2>3. CASE UNCHANGED vars
        BY <2>3 DEF TypeOK, vars
    <2> QED
        BY <2>1, <2>2, <2>3 DEF Next
<1> QED
    BY <1>1, <1>2, PTL DEF Spec

\* The tail of a sequence is shorter by one.
LEMMA ShorterTail ==
    ASSUME NEW S, NEW s \in Seq(S) \ {<< >>}
    PROVE  Tail(s) \in Seq(S) /\ Len(Tail(s)) + 1 = Len(s) /\ Len(Tail(s)) \in Nat
<1>1. Len(s) \in Nat \ {0}
    BY EmptySeq
<1> QED
    BY <1>1, HeadTailProperties

\* A sequence does not get longer when elements are taken out of it.
LEMMA NoLonger ==
    ASSUME NEW S, NEW s \in Seq(S), NEW e
    PROVE  Len(Without(s, e)) \in Nat /\ Len(Without(s, e)) <= Len(s)
<1> DEFINE I == {i \in 1..Len(s) : s[i] # e}
           Kth(k) == CHOOSE i \in I : Cardinality(I \cap (1..i)) = k
<1>1. Cardinality(I) \in Nat /\ Cardinality(I) <= Len(s)
    <2>1. I \subseteq 1..Len(s) /\ Len(s) \in Nat
        OBVIOUS
    <2> HIDE DEF I
    <2>2. IsFiniteSet(1..Len(s)) /\ Cardinality(1..Len(s)) = Len(s)
        BY <2>1, FirstPositions
    <2> QED
        BY <2>1, <2>2, FS_Subset, FS_CardinalityType
<1>2. Without(s, e) = [k \in 1..Cardinality(I) |-> s[Kth(k)]]
    BY DEF Without
<1> HIDE DEF I, Kth
<1>3. Len(Without(s, e)) = Cardinality(I)
    BY <1>1, <1>2
<1> QED
    BY <1>1, <1>3

\* A name has fewer components than segments.
LEMMA FewerComponents ==
    ASSUME NEW name \in RawName, parse_name(name).ok
    PROVE  Len(parse_name(name).val) + 1 <= Len(name)
<1> DEFINE S == Component \cup {""}
           t == Tail(name)
           kept == Without(t, "")
<1>1. parse_name(name) = Ok(kept)
    BY DEF parse_name, Ok, Err
<1>2. name \in Seq(S) \ {<< >>}
    BY DEF RawName
<1> HIDE DEF S
<1>3. t \in Seq(S) /\ Len(t) + 1 = Len(name) /\ Len(t) \in Nat
    BY <1>2, ShorterTail
<1> HIDE DEF t
<1>4. Len(kept) \in Nat /\ Len(kept) <= Len(t)
    BY <1>3, NoLonger
<1> HIDE DEF kept
<1>5. parse_name(name).val = kept
    BY <1>1 DEF Ok
<1> QED
    BY <1>3, <1>4, <1>5

\* The bound on the segments leaves a scalar for every component.
LEMMA NonceCovers ==
    ASSUME TypeOK, parse_name(asked).ok
    PROVE  Covers(nonce, asked)
<1>1. Len(parse_name(asked).val) + 1 <= Len(asked) /\ Len(asked) <= MaxSegments + 1
    BY FewerComponents DEF TypeOK
<1>2. Len(nonce) = MaxSegments /\ MaxSegments \in Nat
    BY PairAssumption DEF PairAssumption
<1>3. Len(parse_name(asked).val) \in Nat
    BY ParsedName DEF TypeOK
<1>4. Len(asked) \in Nat
    <2>1. ASSUME NEW S, NEW s \in Seq(S) PROVE Len(s) \in Nat
        OBVIOUS
    <2> QED
        BY <2>1 DEF TypeOK, RawName
<1> QED
    BY <1>1, <1>2, <1>3, <1>4 DEF Covers

\* Names that have trapdoors parse, and so do names that have ciphertexts.
LEMMA OnlyParsed ==
    ASSUME NEW name
    PROVE  Trapdoors(name).ok <=> parse_name(name).ok
BY ParseDecides DEF Trapdoors

\* The trapdoors of names are sequences that tell them apart.
LEMMA TrapdoorsOfPair ==
    ASSUME TypeOK, Trapdoors(registered).ok, Trapdoors(asked).ok
    PROVE  /\ Trapdoors(registered).val \in Seq(Scalar) \ {<< >>}
           /\ Trapdoors(asked).val \in Seq(Scalar) \ {<< >>}
           /\ Trapdoors(registered).val = Trapdoors(asked).val <=> Alias(registered, asked)
<1>1. private_key \in Scalar /\ private_key \in Scalar \ {Zero}
    BY PairAssumption DEF PairAssumption
<1>2. /\ registered \in RawName /\ parse_name(registered).ok
      /\ asked \in RawName /\ parse_name(asked).ok
    BY OnlyParsed DEF TypeOK
<1>3. /\ Trapdoors(registered).val \in Seq(Scalar) \ {<< >>}
      /\ Trapdoors(asked).val \in Seq(Scalar) \ {<< >>}
    BY <1>1, <1>2, TrapdoorsOfName DEF Trapdoors
<1>4. Trapdoors(registered).val = Trapdoors(asked).val <=> Alias(registered, asked)
    BY <1>1, <1>2, TrapdoorsTellNames DEF Trapdoors
<1> QED
    BY <1>3, <1>4

\* The tests of one name's trapdoors on the other's ciphertexts compare the
\* names, for every key, nonce and pair of names.
THEOREM TestsCompare == Spec => []TestsCompareNames
<1>1. TypeOK => TestsCompareNames
    <2> SUFFICES ASSUME TypeOK, Trapdoors(registered).ok, Ciphertexts.ok
                 PROVE  LET nt == Trapdoors(registered).val
                            nc == Ciphertexts.val
                        IN  Alias(registered, asked) <=>
                                Len(nt) = Len(nc) /\ \A i \in DOMAIN nt : test(nt[i], nc[i])
        BY DEF TestsCompareNames
    <2>1. private_key \in Scalar \ {Zero} /\ nonce \in Seq(Scalar \ {Zero})
        BY PairAssumption DEF PairAssumption
    <2>2. /\ registered \in RawName /\ parse_name(registered).ok
          /\ asked \in RawName /\ parse_name(asked).ok /\ Covers(nonce, asked)
        BY OnlyParsed, ParseDecides, NonceCovers DEF TypeOK, Ciphertexts
    <2> DEFINE nt == name_to_trapdoor(private_key, registered).val
               nc == name_to_ciphertext(PublicKey(private_key), asked, nonce).val
    <2>3. Alias(registered, asked) <=> /\ Len(nt) = Len(nc)
                                       /\ \A i \in 1..Len(nt) : test(nt[i], nc[i])
        BY <2>1, <2>2, NamesCompared
    <2>4. nt \in Seq(Scalar)
        BY <2>1, <2>2, TrapdoorsOfName
    <2> HIDE DEF nt, nc
    <2>5. DOMAIN nt = 1..Len(nt)
        BY <2>4
    <2> QED
        BY <2>3, <2>5 DEF nt, nc, Trapdoors, Ciphertexts
<1> QED
    BY <1>1, TypeInvariant, PTL

\* Two names share a key of the content store exactly when they have the
\* same components.
THEOREM KeysCompare == Spec => []KeysCompareNames
<1>1. TypeOK => KeysCompareNames
    <2> SUFFICES ASSUME TypeOK, Trapdoors(registered).ok, Trapdoors(asked).ok
                 PROVE  Alias(registered, asked) <=>
                            trapdoors_to_key(Trapdoors(registered).val) =
                            trapdoors_to_key(Trapdoors(asked).val)
        BY DEF KeysCompareNames
    <2> DEFINE k == Trapdoors(registered).val
               l == Trapdoors(asked).val
    <2>1. /\ k \in Seq(Scalar) \ {<< >>} /\ l \in Seq(Scalar) \ {<< >>}
          /\ k = l <=> Alias(registered, asked)
        BY TrapdoorsOfPair
    <2> HIDE DEF k, l
    <2>2. Concatenated(k) = Concatenated(l) <=> k = l
        BY <2>1, KeysOrderSequences
    <2> QED
        BY <2>1, <2>2 DEF k, l, trapdoors_to_key
<1> QED
    BY <1>1, TypeInvariant, PTL

\* Comparing the sort keys of two rows byte by byte orders the rows as
\* comparing their trapdoors does.
THEOREM BytesOrder == Spec => []BytesOrderTrapdoors
<1>1. TypeOK => BytesOrderTrapdoors
    <2> SUFFICES ASSUME TypeOK, Trapdoors(registered).ok, Trapdoors(asked).ok
                 PROVE  LET nt == Trapdoors(registered).val
                            other == Trapdoors(asked).val
                        IN  KeyLess(sort_key(nt), sort_key(other)) <=> KeyLess(nt, other)
        BY DEF BytesOrderTrapdoors
    <2> DEFINE k == Trapdoors(registered).val
               l == Trapdoors(asked).val
    <2>1. k \in Seq(Scalar) \ {<< >>} /\ l \in Seq(Scalar) \ {<< >>}
        BY TrapdoorsOfPair
    <2> HIDE DEF k, l
    <2>2. KeyLess(Concatenated(k), Concatenated(l)) <=> KeyLess(k, l)
        BY <2>1, KeysOrderSequences
    <2> QED
        BY <2>2 DEF k, l, sort_key
<1> QED
    BY <1>1, TypeInvariant, PTL
=============================================================================
