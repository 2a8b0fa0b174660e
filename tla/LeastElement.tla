----------------------------- MODULE LeastElement -----------------------------
(***************************************************************************)
(* The least and the greatest element of a set of numbers: what the        *)
(* CHOOSEs of the models stand on (the next free row, the oldest message,  *)
(* the first board not read), and, applied to the set of counterexamples,  *)
(* the induction of the proofs about sequences.                            *)
(***************************************************************************)
EXTENDS Ranking, Sequences, FiniteSetTheorems, WellFoundedInduction, TLAPS

\* A set of natural numbers that is not empty has a least element: the intervals 0..m of
\* its elements have one, since finite sets are well-founded under inclusion.
LEMMA SmallestIn ==
  ASSUME NEW S, S \subseteq Nat, S # {}
  PROVE  \E m \in S : \A k \in S : m <= k
<1> DEFINE R == StrictSubsetOrdering(Nat)
           F == {0..m : m \in S}
<1>1. F \subseteq FiniteSubsetsOf(Nat) /\ F # {}
  <2>1. \A m \in Nat : IsFiniteSet(0..m) /\ 0..m \subseteq Nat
    BY FS_Interval
  <2> QED
    BY <2>1 DEF FiniteSubsetsOf
<1>2. \E x \in F : \A y \in F : ~ (<<y, x>> \in R)
  <2>1. IsWellFoundedOn(R, FiniteSubsetsOf(Nat))
    BY FS_StrictSubsetOrderingWellFounded
  <2> HIDE DEF R, F
  <2> QED
    BY <1>1, <2>1, WFMin
<1>3. PICK m \in S : \A k \in S : ~ (<<0..k, 0..m>> \in R)
  BY <1>2
<1>4. ASSUME NEW k \in S, k < m PROVE FALSE
  <2>1. 0..k \subseteq Nat /\ 0..m \subseteq Nat /\ 0..k \subseteq 0..m /\ 0..k # 0..m
    <3>1. m \in 0..m /\ m \notin 0..k
      BY <1>4
    <3> QED
      BY <1>4, <3>1
  <2>2. <<0..k, 0..m>> \in R
    BY <2>1 DEF StrictSubsetOrdering
  <2> QED
    BY <1>3, <2>2
<1> QED
  BY <1>4

\* A bounded one has a greatest element.
LEMMA LargestIn ==
  ASSUME NEW n \in Nat, NEW S, S \subseteq 0..n, S # {}
  PROVE  \E m \in S : \A k \in S : k <= m
<1> DEFINE T == {n - s : s \in S}
<1>1. T \subseteq Nat /\ T # {}
  <2>1. \A s \in S : n - s \in Nat
    OBVIOUS
  <2> QED
    BY <2>1
<1>2. \E t \in T : \A u \in T : t <= u
  <2> HIDE DEF T
  <2> QED
    BY <1>1, SmallestIn
<1>3. PICK m \in S : \A k \in S : n - m <= n - k
  BY <1>2
<1> QED
  BY <1>3

\* In a finite set with a strict total order, given by what is below each element, counting
\* that numbers the elements from 0 on.
LEMMA CountsNumber ==
  ASSUME NEW S, IsFiniteSet(S), NEW below \in [S -> SUBSET S],
         \A i, j \in S : i = j \/ i \in below[j] \/ j \in below[i],
         \A i \in S : i \notin below[i],
         \A i, j, k \in S : i \in below[j] /\ j \in below[k] => i \in below[k]
  PROVE  [i \in S |-> Cardinality(below[i])] \in Bijection(S, 0 .. (Cardinality(S) - 1))
<1> DEFINE Below(i) == below[i]
           count == [i \in S |-> Cardinality(Below(i))]
           T == 0 .. (Cardinality(S) - 1)
<1>0. Cardinality(S) \in Nat
  BY FS_CardinalityType
<1>1. ASSUME NEW i \in S
      PROVE  /\ IsFiniteSet(Below(i)) /\ Cardinality(Below(i)) \in Nat
             /\ Cardinality(Below(i)) < Cardinality(S)
  <2>1. Below(i) \in SUBSET S /\ Below(i) # S
    OBVIOUS
  <2> HIDE DEF Below
  <2>2. IsFiniteSet(Below(i)) /\ Cardinality(Below(i)) <= Cardinality(S)
        /\ Cardinality(Below(i)) # Cardinality(S)
    BY <2>1, FS_Subset
  <2>3. Cardinality(Below(i)) \in Nat
    BY <2>2, FS_CardinalityType
  <2> QED
    BY <1>0, <2>2, <2>3
<1>2. ASSUME NEW i \in S, NEW j \in S, i \in below[j]
      PROVE  Cardinality(Below(i)) < Cardinality(Below(j))
  <2>1. Below(i) \in SUBSET Below(j) /\ i \in Below(j) /\ i \notin Below(i)
    BY <1>2
  <2>2. IsFiniteSet(Below(j)) /\ Cardinality(Below(j)) \in Nat /\ Cardinality(Below(i)) \in Nat
    BY <1>1
  <2> HIDE DEF Below
  <2>3. Cardinality(Below(i)) <= Cardinality(Below(j)) /\ Cardinality(Below(i)) # Cardinality(Below(j))
    BY <2>1, <2>2, FS_Subset
  <2> QED
    BY <2>2, <2>3
<1>3. count \in Injection(S, T)
  <2>1. count \in [S -> T]
    <3>1. \A i \in S : Cardinality(Below(i)) \in T
      <4> HIDE DEF Below
      <4> QED
        BY <1>0, <1>1
    <3> HIDE DEF Below, T
    <3> QED
      BY <3>1
  <2>2. ASSUME NEW i \in S, NEW j \in S, count[i] = count[j] PROVE i = j
    <3>1. Cardinality(Below(i)) = Cardinality(Below(j))
          /\ Cardinality(Below(i)) \in Nat /\ Cardinality(Below(j)) \in Nat
      BY <1>1, <2>2
    <3>2. i \notin below[j] /\ j \notin below[i]
      BY <1>2, <3>1
    <3> QED
      BY <3>2
  <2> HIDE DEF count, T
  <2> QED
    BY <2>1, <2>2 DEF Injection, IsInjective
<1>4. IsFiniteSet(T) /\ Cardinality(T) = Cardinality(S)
  <2>1. Cardinality(S) - 1 \in Int /\ (0 > Cardinality(S) - 1 <=> Cardinality(S) = 0)
    BY <1>0
  <2>2. /\ IsFiniteSet(T)
        /\ Cardinality(T) = IF 0 > Cardinality(S) - 1 THEN 0 ELSE (Cardinality(S) - 1) - 0 + 1
    BY <2>1, FS_Interval
  <2> HIDE DEF T
  <2> QED
    BY <1>0, <2>1, <2>2
<1>5. count \in Surjection(S, T)
  <2> HIDE DEF count, T
  <2> QED
    BY <1>3, <1>4, FS_Injection
<1> QED
  BY <1>3, <1>5 DEF Bijection

\* Of a finite set of numbers, Nth gives each element once, in increasing order.
LEMMA NthIs ==
  ASSUME NEW S, S \subseteq Int, IsFiniteSet(S)
  PROVE  /\ Cardinality(S) \in Nat
         /\ \A n \in 1 .. Cardinality(S) : Nth(S, n) \in S
         /\ \A m, n \in 1 .. Cardinality(S) : m < n => Nth(S, m) < Nth(S, n)
         /\ \A i \in S : \E n \in 1 .. Cardinality(S) : Nth(S, n) = i
<1> DEFINE below == [i \in S |-> {j \in S : j < i}]
           Below(i) == below[i]
           count == [i \in S |-> Cardinality(Below(i))]
<1>0. Cardinality(S) \in Nat
  BY FS_CardinalityType
<1>2. \A i \in S : Below(i) = {j \in S : j < i}
  OBVIOUS
<1>3. count \in Bijection(S, 0 .. (Cardinality(S) - 1))
  <2>1. /\ below \in [S -> SUBSET S]
        /\ \A i, j \in S : i = j \/ i \in below[j] \/ j \in below[i]
        /\ \A i \in S : i \notin below[i]
        /\ \A i, j, k \in S : i \in below[j] /\ j \in below[k] => i \in below[k]
    OBVIOUS
  <2> HIDE DEF below
  <2> QED
    BY <2>1, CountsNumber
<1>4. ASSUME NEW n \in 1 .. Cardinality(S)
      PROVE  Nth(S, n) \in S /\ count[Nth(S, n)] = n - 1
  <2>1. n - 1 \in 0 .. (Cardinality(S) - 1)
    BY <1>0
  <2>2. PICK i \in S : count[i] = n - 1
    <3> HIDE DEF count
    <3> QED
      BY <1>3, <2>1 DEF Bijection, Surjection
  <2>3. Cardinality({j \in S : j < i}) = n - 1
    BY <1>2, <2>2
  <2>4. Nth(S, n) \in S /\ Cardinality({j \in S : j < Nth(S, n)}) = n - 1
    BY <2>3 DEF Nth
  <2> QED
    BY <1>2, <2>4
<1>5. ASSUME NEW i \in S, NEW j \in S, count[i] < count[j] PROVE i < j
  <2>1. i # j
    BY <1>5, <1>3 DEF Bijection, Injection
  <2>2. CASE j < i
    <3>1. Below(j) \in SUBSET Below(i)
      <4> HIDE DEF Below, count
      <4>1. {k \in S : k < j} \subseteq {k \in S : k < i}
        <5>1. \A k \in S : k < j => k < i
          BY <2>2
        <5> QED
          BY <5>1
      <4> QED
        BY <1>2, <4>1
    <3>2. IsFiniteSet(Below(i)) /\ IsFiniteSet(Below(j))
      <4>1. Below(i) \in SUBSET S /\ Below(j) \in SUBSET S
        OBVIOUS
      <4> HIDE DEF Below
      <4> QED
        BY <4>1, FS_Subset
    <3>3. Cardinality(Below(j)) <= Cardinality(Below(i)) /\ Cardinality(Below(i)) \in Nat
          /\ Cardinality(Below(j)) \in Nat
      <4> HIDE DEF Below
      <4> QED
        BY <3>1, <3>2, FS_Subset, FS_CardinalityType
    <3> QED
      BY <1>5, <3>3
  <2> QED
    BY <2>1, <2>2
<1>6. ASSUME NEW m \in 1 .. Cardinality(S), NEW n \in 1 .. Cardinality(S), m < n
      PROVE  Nth(S, m) < Nth(S, n)
  <2>1. count[Nth(S, m)] < count[Nth(S, n)]
    <3>1. count[Nth(S, m)] = m - 1 /\ count[Nth(S, n)] = n - 1
      BY <1>4
    <3> HIDE DEF count
    <3> QED
      BY <1>0, <1>6, <3>1
  <2> HIDE DEF count
  <2> QED
    BY <1>4, <1>5, <2>1
<1>7. ASSUME NEW i \in S PROVE \E n \in 1 .. Cardinality(S) : Nth(S, n) = i
  <2>1. count[i] \in 0 .. (Cardinality(S) - 1)
    <3> HIDE DEF count
    <3> QED
      BY <1>3 DEF Bijection, Injection
  <2> HIDE DEF count
  <2>2. count[i] + 1 \in 1 .. Cardinality(S)
    BY <1>0, <2>1
  <2>3. count[Nth(S, count[i] + 1)] = count[i] /\ Nth(S, count[i] + 1) \in S
    BY <1>0, <1>4, <2>1, <2>2
  <2>4. Nth(S, count[i] + 1) = i
    <3> HIDE DEF count
    <3> QED
      BY <1>3, <2>3 DEF Bijection, Injection, IsInjective
  <2> QED
    BY <2>2, <2>4
<1> QED
  BY <1>0, <1>4, <1>6, <1>7

\* As many elements as there are numbers below k have fewer than k elements below them.
LEMMA FirstOnes ==
  ASSUME NEW S, IsFiniteSet(S), NEW below \in [S -> SUBSET S],
         \A i, j \in S : i = j \/ i \in below[j] \/ j \in below[i],
         \A i \in S : i \notin below[i],
         \A i, j, k \in S : i \in below[j] /\ j \in below[k] => i \in below[k],
         NEW most \in Nat
  PROVE  /\ IsFiniteSet({i \in S : Cardinality(below[i]) < most})
         /\ Cardinality({i \in S : Cardinality(below[i]) < most})
              = IF most < Cardinality(S) THEN most ELSE Cardinality(S)
<1> DEFINE count == [i \in S |-> Cardinality(below[i])]
           F == {i \in S : Cardinality(below[i]) < most}
           B == IF most < Cardinality(S) THEN most ELSE Cardinality(S)
           g == [i \in F |-> count[i]]
<1>0. Cardinality(S) \in Nat
  BY FS_CardinalityType
<1>1. count \in Bijection(S, 0 .. (Cardinality(S) - 1))
  BY CountsNumber
<1>2. /\ count \in [S -> 0 .. (Cardinality(S) - 1)]
      /\ \A i, j \in S : count[i] = count[j] => i = j
      /\ \A m \in 0 .. (Cardinality(S) - 1) : \E i \in S : count[i] = m
  <2> HIDE DEF count
  <2> QED
    BY <1>1 DEF Bijection, Injection, Surjection, IsInjective
<1>3. F \in SUBSET S /\ \A i \in S : i \in F <=> count[i] < most
  OBVIOUS
<1>4. IsFiniteSet(F)
  <2> HIDE DEF F
  <2> QED
    BY <1>3, FS_Subset
<1>5. B \in Nat /\ B <= most /\ B <= Cardinality(S)
  BY <1>0
<1>6. \A m \in 0 .. (B - 1) : m \in 0 .. (Cardinality(S) - 1) /\ m < most
  BY <1>0
<1>7. \A i \in F : count[i] \in 0 .. (B - 1)
  <2> HIDE DEF F, count
  <2> QED
    BY <1>0, <1>2, <1>3
<1>8. g \in Bijection(F, 0 .. (B - 1))
  <2> HIDE DEF F, count, B
  <2>1. g \in [F -> 0 .. (B - 1)]
    BY <1>7
  <2>2. \A i, j \in F : g[i] = g[j] => i = j
    BY <1>2, <1>3
  <2>3. \A m \in 0 .. (B - 1) : \E i \in F : g[i] = m
    <3> SUFFICES ASSUME NEW m \in 0 .. (B - 1) PROVE \E i \in F : g[i] = m
      OBVIOUS
    <3>1. PICK i \in S : count[i] = m
      BY <1>2, <1>6
    <3> QED
      BY <1>3, <1>6, <3>1
  <2> HIDE DEF g
  <2> QED
    BY <2>1, <2>2, <2>3 DEF Bijection, Injection, Surjection, IsInjective
<1>9. Cardinality(0 .. (B - 1)) = Cardinality(F)
  <2> HIDE DEF F, B, g
  <2>1. ExistsBijection(F, 0 .. (B - 1))
    BY <1>8 DEF ExistsBijection
  <2> QED
    BY <1>4, <2>1, FS_Bijection
<1>10. Cardinality(0 .. (B - 1)) = B
  <2> HIDE DEF B
  <2>1. Cardinality(0 .. (B - 1)) = IF 0 > B - 1 THEN 0 ELSE (B - 1) - 0 + 1
    BY <1>5, FS_Interval
  <2> QED
    BY <1>5, <2>1
<1> QED
  BY <1>4, <1>9, <1>10

\* What a subsequence holds: the elements at its positions, in their order, and nothing else.
LEMMA SubsequenceIs ==
  ASSUME NEW T, NEW s \in Seq(T), NEW P, P \subseteq DOMAIN s
  PROVE  /\ IsFiniteSet(P) /\ Cardinality(P) \in Nat /\ Cardinality(P) <= Len(s)
         /\ Subsequence(s, P) \in Seq(T) /\ Len(Subsequence(s, P)) = Cardinality(P)
         /\ DOMAIN Subsequence(s, P) = 1 .. Cardinality(P)
         /\ \A n \in 1 .. Cardinality(P) : \E i \in P : Subsequence(s, P)[n] = s[i]
         /\ \A i \in P : \E n \in 1 .. Cardinality(P) : Subsequence(s, P)[n] = s[i]
         /\ (\A i, j \in P : s[i] = s[j] => i = j)
              => \A m, n \in 1 .. Cardinality(P) :
                   Subsequence(s, P)[m] = Subsequence(s, P)[n] => m = n
<1>0. P \subseteq Int /\ DOMAIN s = 1 .. Len(s) /\ Len(s) \in Nat
  OBVIOUS
<1>1. IsFiniteSet(P) /\ Cardinality(P) \in Nat /\ Cardinality(P) <= Len(s)
  <2>1. IsFiniteSet(1 .. Len(s)) /\ Cardinality(1 .. Len(s)) = Len(s)
    <3>1. \A n \in Nat : IsFiniteSet(1 .. n) /\ Cardinality(1 .. n) = IF 1 > n THEN 0 ELSE n - 1 + 1
      BY FS_Interval
    <3> QED
      BY <1>0, <3>1
  <2>2. P \in SUBSET (1 .. Len(s))
    BY <1>0
  <2> QED
    BY <2>1, <2>2, FS_Subset, FS_CardinalityType
<1> DEFINE c == Cardinality(P)
           sub == [n \in 1 .. c |-> s[Nth(P, n)]]
<1>2. /\ \A n \in 1 .. c : Nth(P, n) \in P
      /\ \A m, n \in 1 .. c : m < n => Nth(P, m) < Nth(P, n)
      /\ \A i \in P : \E n \in 1 .. c : Nth(P, n) = i
  BY <1>0, <1>1, NthIs
<1>3. Subsequence(s, P) = sub
  BY DEF Subsequence
<1>4. \A i \in P : s[i] \in T
  BY <1>0
<1>5. c \in Nat
  BY <1>1
<1> HIDE DEF c
<1>6. sub \in [1 .. c -> T]
  BY <1>2, <1>4
<1>7. sub \in Seq(T) /\ Len(sub) = c /\ DOMAIN sub = 1 .. c
  <2> HIDE DEF sub
  <2> QED
    BY <1>5, <1>6
<1>8. \A n \in 1 .. c : sub[n] = s[Nth(P, n)]
  OBVIOUS
<1> HIDE DEF sub
<1>9. \A n \in 1 .. c : \E i \in P : sub[n] = s[i]
  BY <1>2, <1>8
<1>10. \A i \in P : \E n \in 1 .. c : sub[n] = s[i]
  BY <1>2, <1>8
<1>11. ASSUME \A i, j \in P : s[i] = s[j] => i = j, NEW m \in 1 .. c, NEW n \in 1 .. c, sub[m] = sub[n]
       PROVE  m = n
  <2>1. Nth(P, m) = Nth(P, n) /\ Nth(P, m) \in Int
    BY <1>0, <1>2, <1>8, <1>11
  <2>2. ~(m < n) /\ ~(n < m)
    BY <1>0, <1>2, <2>1
  <2> QED
    BY <1>5, <2>2
<1> QED
  BY <1>1, <1>3, <1>7, <1>9, <1>10, <1>11 DEF c

\* Numbers that increase from 1 to n within 1..n are 1, 2, ..., n.
LEMMA IncreasingIsIdentity ==
  ASSUME NEW n \in Nat, NEW g \in [1 .. n -> 1 .. n],
         \A i, j \in 1 .. n : i < j => g[i] < g[j]
  PROVE  \A i \in 1 .. n : g[i] = i
<1>1. ASSUME NEW i \in 1 .. n, g[i] < i PROVE FALSE
  <2> DEFINE S == {j \in 1 .. n : g[j] < j}
  <2>1. S \subseteq Nat /\ S # {}
    BY <1>1
  <2>2. PICK m \in S : \A k \in S : m <= k
    <3> HIDE DEF S
    <3> QED
      BY <2>1, SmallestIn
  <2>3. m \in 1 .. n /\ g[m] < m /\ g[m] \in 1 .. n
    BY <2>2
  <2>4. m - 1 \in 1 .. n /\ g[m - 1] < g[m] /\ g[m - 1] \in 1 .. n
    BY <2>3
  <2>5. m - 1 \notin S
    BY <2>2, <2>3
  <2>6. g[m - 1] >= m - 1
    BY <2>3, <2>4, <2>5
  <2> QED
    BY <2>3, <2>4, <2>6
<1>2. ASSUME NEW i \in 1 .. n, g[i] > i PROVE FALSE
  <2> DEFINE S == {j \in 1 .. n : g[j] > j}
  <2>1. S \subseteq 0 .. n /\ S # {}
    BY <1>2
  <2>2. PICK m \in S : \A k \in S : k <= m
    <3> HIDE DEF S
    <3> QED
      BY <2>1, LargestIn
  <2>3. m \in 1 .. n /\ g[m] > m /\ g[m] \in 1 .. n
    BY <2>2
  <2>4. m + 1 \in 1 .. n /\ g[m] < g[m + 1] /\ g[m + 1] \in 1 .. n
    BY <2>3
  <2>5. m + 1 \notin S
    BY <2>2, <2>3
  <2>6. g[m + 1] <= m + 1
    BY <2>3, <2>4, <2>5
  <2> QED
    BY <2>3, <2>4, <2>6
<1>3. \A i \in 1 .. n : g[i] \in Int /\ ~(g[i] < i) /\ ~(g[i] > i)
  BY <1>1, <1>2
<1> QED
  BY <1>3

\* What is left of a finite set.
LEMMA RestOf ==
  ASSUME NEW S, IsFiniteSet(S), NEW T, T \subseteq S
  PROVE  /\ IsFiniteSet(S \ T) /\ IsFiniteSet(T)
         /\ Cardinality(S) \in Nat /\ Cardinality(T) \in Nat /\ Cardinality(S \ T) \in Nat
         /\ Cardinality(S \ T) = Cardinality(S) - Cardinality(T)
<1> DEFINE R == S \ T
<1>1. R \in SUBSET S /\ T \in SUBSET S /\ R \cup T = S /\ R \cap T = {}
  OBVIOUS
<1> HIDE DEF R
<1>2. IsFiniteSet(R) /\ IsFiniteSet(T)
  BY <1>1, FS_Subset
<1>3. Cardinality(R \cup T) = Cardinality(R) + Cardinality(T) - Cardinality(R \cap T)
  BY <1>2, FS_Union
<1>4. Cardinality(R) \in Nat /\ Cardinality(T) \in Nat /\ Cardinality(S) \in Nat
  BY <1>2, FS_CardinalityType
<1>5. Cardinality(R \cap T) = 0
  BY <1>1, FS_EmptySet
<1>6. Cardinality(R) = Cardinality(S) - Cardinality(T)
  BY <1>1, <1>3, <1>4, <1>5
<1> QED
  BY <1>2, <1>4, <1>6 DEF R

\* A function that is one to one and onto counts the same on both sides.
LEMMA SameCount ==
  ASSUME NEW S, IsFiniteSet(S), NEW T, NEW g \in [S -> T],
         \A i, j \in S : g[i] = g[j] => i = j, \A t \in T : \E i \in S : g[i] = t
  PROVE  IsFiniteSet(T) /\ Cardinality(T) = Cardinality(S) /\ Cardinality(S) \in Nat
<1>1. g \in Bijection(S, T)
  BY DEF Bijection, Injection, Surjection, IsInjective
<1> QED
  BY <1>1, FS_Bijection, FS_CardinalityType DEF ExistsBijection

\* What is sent one to one into a finite set is no larger.
LEMMA FewerThan ==
  ASSUME NEW S, NEW T, IsFiniteSet(T), NEW g \in [S -> T], \A i, j \in S : g[i] = g[j] => i = j
  PROVE  /\ IsFiniteSet(S) /\ Cardinality(S) <= Cardinality(T)
         /\ Cardinality(S) \in Nat /\ Cardinality(T) \in Nat
<1>1. g \in Injection(S, T)
  BY DEF Injection, IsInjective
<1>2. IsFiniteSet(S) /\ Cardinality(S) <= Cardinality(T)
  BY <1>1, FS_Injection
<1> QED
  BY <1>2, FS_CardinalityType

\* A sequence has as many positions as its length says.
LEMMA PositionsOf ==
  ASSUME NEW T, NEW s \in Seq(T)
  PROVE  /\ DOMAIN s = 1 .. Len(s) /\ Len(s) \in Nat
         /\ IsFiniteSet(DOMAIN s) /\ Cardinality(DOMAIN s) = Len(s)
<1>1. \A n \in Nat : IsFiniteSet(1 .. n) /\ Cardinality(1 .. n) = IF 1 > n THEN 0 ELSE n - 1 + 1
  BY FS_Interval
<1> QED
  BY <1>1

\* The lesser and the greater of two numbers, as FiniteSetsExt defines Min and Max.
LEMMA LesserAndGreater ==
  \A a, b \in Int :
    /\ (CHOOSE x \in {a, b} : \A y \in {a, b} : x <= y) = IF a <= b THEN a ELSE b
    /\ (CHOOSE x \in {a, b} : \A y \in {a, b} : x >= y) = IF a >= b THEN a ELSE b
<1> SUFFICES ASSUME NEW a \in Int, NEW b \in Int
             PROVE  /\ (CHOOSE x \in {a, b} : \A y \in {a, b} : x <= y) = IF a <= b THEN a ELSE b
                    /\ (CHOOSE x \in {a, b} : \A y \in {a, b} : x >= y) = IF a >= b THEN a ELSE b
  OBVIOUS
<1> DEFINE low == CHOOSE x \in {a, b} : \A y \in {a, b} : x <= y
           high == CHOOSE x \in {a, b} : \A y \in {a, b} : x >= y
<1>1. (\E x \in {a, b} : \A y \in {a, b} : x <= y) /\ (\E x \in {a, b} : \A y \in {a, b} : x >= y)
  OBVIOUS
<1>2. /\ low \in {a, b} /\ \A y \in {a, b} : low <= y
      /\ high \in {a, b} /\ \A y \in {a, b} : high >= y
  BY <1>1
<1> HIDE DEF low, high
<1>3. low = (IF a <= b THEN a ELSE b) /\ high = (IF a >= b THEN a ELSE b)
  BY <1>2
<1> QED
  BY <1>3 DEF low, high
=============================================================================
