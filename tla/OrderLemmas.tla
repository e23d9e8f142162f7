----------------------------- MODULE OrderLemmas -----------------------------
(* The least-number principle, from the well-foundedness of < on Nat, as    *)
(* facts about Min and Max of FiniteSetsExt, about SetToSeq of SequencesExt *)
(* and about what is computed step by step: what the proofs of the models   *)
(* need of numbers, of finite sets and of recursive functions.              *)
EXTENDS Integers, SequencesExt, WellFoundedInduction, FiniteSetTheorems, SequenceTheorems, TLAPS

\* Every set of naturals that is not empty has a least element, and Min is it.
LEMMA MinIsLeast ==
  ASSUME NEW S \in SUBSET Nat, S # {}
  PROVE  /\ Min(S) \in S
         /\ \A y \in S : Min(S) <= y
<1>1. PICK x \in S : \A y \in S : ~(<<y, x>> \in OpToRel(<, Nat))
  BY NatLessThanWellFounded, WFMin
<1>2. ASSUME NEW y \in S, y < x
      PROVE  FALSE
  <2>1. y \in Nat /\ x \in Nat
    OBVIOUS
  <2>2. <<y, x>> \in OpToRel(<, Nat)
    BY <1>2, <2>1 DEF OpToRel
  <2>. QED  BY <1>1, <2>2
<1>3. \A y \in S : x <= y
  BY <1>2
<1>. QED  BY <1>3 DEF Min

\* A set of naturals under a bound has a greatest element, and Max is it.
LEMMA MaxIsGreatest ==
  ASSUME NEW S \in SUBSET Nat, S # {}, NEW b \in Nat, \A y \in S : y <= b
  PROVE  /\ Max(S) \in S
         /\ \A y \in S : y <= Max(S)
<1> DEFINE below(y) == b - y
           T == {n \in Nat : \E y \in S : n = below(y)}
<1>1. T \in SUBSET Nat
  OBVIOUS
<1>2. T # {}
  <2>1. PICK y \in S : TRUE
    OBVIOUS
  <2>2. y \in Nat /\ y <= b
    BY <2>1
  <2>3. below(y) \in T
    BY <2>1, <2>2
  <2>. QED  BY <2>3
<1>3. Min(T) \in T /\ \A t \in T : Min(T) <= t
  BY <1>1, <1>2, MinIsLeast
<1>4. PICK x \in S : Min(T) = below(x)
  BY <1>3
<1>5. ASSUME NEW y \in S
      PROVE  y <= x
  <2>1. y \in Nat /\ y <= b /\ x \in Nat
    OBVIOUS
  <2>2. below(y) \in T
    BY <2>1
  <2>3. below(x) <= below(y)
    BY <1>3, <1>4, <2>2
  <2>. QED  BY <2>1, <2>3
<1>. QED  BY <1>5 DEF Max

\* Of finitely many things one is greatest by any measure.
LEMMA SomeIsGreatest ==
  ASSUME NEW S, IsFiniteSet(S), S # {}, NEW f \in [S -> Nat]
  PROVE  \E x \in S : \A y \in S : f[y] <= f[x]
<1>1. PICK n \in Nat : ExistsBijection(1..n, S)
  BY FS_NatBijection
<1>2. PICK g \in Bijection(1..n, S) : TRUE
  BY <1>1 DEF ExistsBijection
<1>3. g \in [1..n -> S] /\ \A y \in S : \E i \in 1..n : g[i] = y
  BY <1>2 DEF Bijection, Surjection
<1> DEFINE Greatest(i, k) == i \in 1..k /\ \A j \in 1..k : f[g[j]] <= f[g[i]]
           K == {k \in 1..n : ~\E i \in 1..k : Greatest(i, k)}
<1>4. K = {}
  <2> SUFFICES ASSUME K # {}
               PROVE  FALSE
    OBVIOUS
  <2>1. K \in SUBSET Nat
    OBVIOUS
  <2> DEFINE k == Min(K)
  <2>2. k \in K /\ \A l \in K : k <= l
    BY <2>1, MinIsLeast
  <2> HIDE DEF k
  <2>3. k \in 1..n /\ f[g[k]] \in Nat
    BY <1>3, <2>2
  <2>4. CASE k = 1
    <3>1. Greatest(1, 1)
      BY <1>3, <2>3, <2>4
    <3>. QED  BY <2>2, <2>4, <3>1
  <2>5. CASE k # 1
    <3>1. k - 1 \in 1..n /\ k - 1 \notin K
      <4>1. k \in Nat /\ k - 1 \in 1..n /\ ~(k <= k - 1)
        BY <2>3, <2>5
      <4>. QED  BY <2>2, <4>1
    <3>2. PICK i \in 1..(k - 1) : Greatest(i, k - 1)
      BY <3>1
    <3>3. \A j \in 1..k : f[g[j]] \in Nat
      <4>1. \A j \in 1..k : j \in 1..n
        BY <2>3
      <4>. QED  BY <1>3, <4>1
    <3>4. \A j \in 1..k : j = k \/ j \in 1..(k - 1)
      BY <2>3
    <3>5. i \in 1..k /\ k \in 1..k
      BY <2>3
    <3>6. \A j \in 1..(k - 1) : f[g[j]] <= f[g[i]]
      BY <3>2
    <3>7. f[g[i]] \in Nat /\ f[g[k]] \in Nat
      BY <3>3, <3>5
    <3>8. CASE f[g[k]] <= f[g[i]]
      <4>1. Greatest(i, k)
        BY <3>8, <3>4, <3>5, <3>6
      <4>. QED  BY <2>2, <4>1
    <3>9. CASE f[g[i]] < f[g[k]]
      <4>1. \A j \in 1..k : f[g[j]] <= f[g[k]]
        <5> SUFFICES ASSUME NEW j \in 1..k PROVE f[g[j]] <= f[g[k]]
          OBVIOUS
        <5>1. CASE j = k  BY <3>7, <5>1
        <5>2. CASE j # k
          <6>1. f[g[j]] <= f[g[i]] /\ f[g[j]] \in Nat
            BY <3>3, <3>4, <3>6, <5>2
          <6> DEFINE a == f[g[j]]
                     b == f[g[i]]
                     c == f[g[k]]
          <6>2. a \in Nat /\ b \in Nat /\ c \in Nat /\ a <= b /\ b < c
            BY <3>7, <3>9, <6>1
          <6> HIDE DEF a, b, c
          <6>3. a <= c
            BY <6>2
          <6>. QED  BY <6>3 DEF a, c
        <5>. QED  BY <5>1, <5>2
      <4>2. Greatest(k, k)
        BY <3>5, <4>1
      <4>. QED  BY <2>2, <3>5, <4>2
    <3>. QED  BY <3>8, <3>9, <3>7
  <2>. QED  BY <2>4, <2>5
<1>5. n \in 1..n
  <2>1. PICK y \in S : TRUE
    OBVIOUS
  <2>. QED  BY <1>3, <2>1
<1>6. PICK i \in 1..n : Greatest(i, n)
  BY <1>4, <1>5
<1>7. \A y \in S : f[y] <= f[g[i]]
  BY <1>3, <1>6
<1>. QED  BY <1>3, <1>7

\* The image of a finite set is finite.
LEMMA ImageIsFinite ==
  ASSUME NEW S, IsFiniteSet(S), NEW T, NEW f \in [S -> T]
  PROVE  IsFiniteSet({f[x] : x \in S})
<1>1. f \in Surjection(S, {f[x] : x \in S})
  BY DEF Surjection
<1>. QED  BY <1>1, FS_Surjection

\* SetToSeq lists a finite set: every element once, and nothing else.
LEMMA SetToSeqLists ==
  ASSUME NEW S, IsFiniteSet(S)
  PROVE  /\ SetToSeq(S) \in Seq(S) /\ Len(SetToSeq(S)) = Cardinality(S)
         /\ \A m, n \in 1..Cardinality(S) : SetToSeq(S)[m] = SetToSeq(S)[n] => m = n
         /\ \A x \in S : \E n \in 1..Cardinality(S) : SetToSeq(S)[n] = x
<1> DEFINE k == Cardinality(S)
           s == SetToSeq(S)
<1>1. k \in Nat /\ ExistsBijection(1..k, S)
  BY FS_CardinalityType
<1>2. PICK f \in Injection(1..k, S) : TRUE
  BY <1>1 DEF ExistsBijection, Bijection
<1>3. f \in [1..k -> S] /\ IsInjective(f)
  BY <1>2 DEF Injection
<1>4. s \in [1..k -> S] /\ IsInjective(s)
  BY <1>3 DEF SetToSeq
<1>5. IsFiniteSet(1..k) /\ Cardinality(1..k) = k
  <2>1. \A n \in Nat : IsFiniteSet(1..n) /\ Cardinality(1..n) = n
    BY FS_Interval
  <2>. QED  BY <1>1, <2>1
<1>6. s \in Injection(1..k, S)
  BY <1>4 DEF Injection
<1>7. s \in Surjection(1..k, S)
  BY <1>5, <1>6, FS_Injection
<1>8. s \in Seq(S) /\ Len(s) = k
  <2>1. s \in Seq(S)
    BY <1>1, <1>4, SeqDef
  <2>2. DOMAIN s = 1..k /\ DOMAIN s = 1..Len(s) /\ Len(s) \in Nat
    BY <1>4, <2>1, LenProperties
  <2>3. Len(s) = k
    BY <1>1, <2>2
  <2>. QED  BY <2>1, <2>3
<1>9. \A m, n \in 1..k : s[m] = s[n] => m = n
  BY <1>4 DEF IsInjective
<1>10. \A x \in S : \E n \in 1..k : s[n] = x
  BY <1>7 DEF Surjection
<1>. QED  BY <1>8, <1>9, <1>10

\* What is computed step by step from a first value exists, so that a recursive
\* function over the first naturals is what its equation says.
Steps(n, V, c, F, g) ==
  g \in [0..n -> V] /\ g[0] = c /\ \A i \in 1..n : g[i] = F[<<i, g[i - 1]>>]

LEMMA StepByStep ==
  ASSUME NEW n \in Nat, NEW V, NEW c \in V, NEW F \in [(1..n) \X V -> V]
  PROVE  \E g : Steps(n, V, c, F, g)
<1> DEFINE Upto(k, g) == /\ g \in [0..k -> V] /\ g[0] = c
                         /\ \A i \in 1..k : g[i] = F[<<i, g[i - 1]>>]
           K == {k \in 0..n : ~\E g : Upto(k, g)}
<1>1. K = {}
  <2> SUFFICES ASSUME K # {}
               PROVE  FALSE
    OBVIOUS
  <2>1. K \in SUBSET Nat
    OBVIOUS
  <2> DEFINE k == Min(K)
  <2>2. k \in K /\ \A l \in K : k <= l
    BY <2>1, MinIsLeast
  <2> HIDE DEF k
  <2>3. k \in 0..n /\ ~\E g : Upto(k, g)
    BY <2>2
  <2>4. CASE k = 0
    <3>1. Upto(0, [i \in 0..0 |-> c])
      OBVIOUS
    <3>. QED  BY <2>3, <2>4, <3>1
  <2>5. CASE k # 0
    <3>1. k - 1 \in 0..n /\ k - 1 \notin K
      <4>1. k \in Nat /\ k - 1 \in 0..n /\ ~(k <= k - 1)
        BY <2>3, <2>5
      <4>. QED  BY <2>2, <4>1
    <3>2. PICK g : Upto(k - 1, g)
      BY <3>1
    <3> DEFINE h == [i \in 0..k |-> IF i = k THEN F[<<k, g[k - 1]>>] ELSE g[i]]
    <3>3. k \in 1..n /\ k - 1 \in 0..(k - 1) /\ 0 \in 0..(k - 1)
      BY <2>3, <2>5
    <3>4. F[<<k, g[k - 1]>>] \in V
      BY <3>2, <3>3
    <3>5. h \in [0..k -> V]
      <4>1. \A i \in 0..k : i # k => i \in 0..(k - 1)
        BY <3>3
      <4>. QED  BY <3>2, <3>4, <4>1
    <3>6. h[0] = c
      BY <3>2, <3>3
    <3>7. ASSUME NEW i \in 1..k PROVE h[i] = F[<<i, h[i - 1]>>]
      <4>1. i - 1 \in 0..k /\ i - 1 # k /\ i \in 0..k
        BY <3>3
      <4>2. h[i - 1] = g[i - 1]
        BY <4>1
      <4>3. CASE i = k
        BY <4>1, <4>2, <4>3
      <4>4. CASE i # k
        <5>1. i \in 1..(k - 1)
          BY <3>3, <4>4
        <5>2. g[i] = F[<<i, g[i - 1]>>]
          BY <3>2, <5>1
        <5>. QED  BY <4>1, <4>2, <4>4, <5>2
      <4>. QED  BY <4>3, <4>4
    <3>8. Upto(k, h)
      BY <3>5, <3>6, <3>7
    <3>. QED  BY <2>3, <3>8
  <2>. QED  BY <2>4, <2>5
<1>2. PICK g : Upto(n, g)
  <2>1. n \in 0..n
    OBVIOUS
  <2>. QED  BY <1>1, <2>1
<1>. QED  BY <1>2 DEF Steps

\* Numbers none of which is more than the one before.
LEMMA NeverMore ==
  ASSUME NEW n \in Nat, NEW f \in [0..n -> Nat], \A i \in 1..n : f[i] <= f[i - 1]
  PROVE  \A i, j \in 0..n : i <= j => f[j] <= f[i]
<1> SUFFICES ASSUME NEW i \in 0..n
             PROVE  \A j \in 0..n : i <= j => f[j] <= f[i]
  OBVIOUS
<1> DEFINE K == {j \in 0..n : i <= j /\ ~(f[j] <= f[i])}
<1>1. K = {}
  <2> SUFFICES ASSUME K # {}
               PROVE  FALSE
    OBVIOUS
  <2>1. K \in SUBSET Nat
    OBVIOUS
  <2> DEFINE k == Min(K)
  <2>2. k \in K /\ \A l \in K : k <= l
    BY <2>1, MinIsLeast
  <2> HIDE DEF k
  <2>3. k \in 0..n /\ i <= k /\ ~(f[k] <= f[i]) /\ f[i] \in Nat /\ f[k] \in Nat
    BY <2>2
  <2>4. k # i
    BY <2>3
  <2>5. k \in 1..n /\ k - 1 \in 0..n /\ i <= k - 1 /\ ~(k <= k - 1)
    BY <2>3, <2>4
  <2>6. k - 1 \notin K
    BY <2>2, <2>5
  <2>7. f[k - 1] <= f[i] /\ f[k] <= f[k - 1] /\ f[k - 1] \in Nat
    BY <2>5, <2>6
  <2>. QED  BY <2>3, <2>7
<1>. QED  BY <1>1
=============================================================================
