----------------------------- MODULE SumsProofs -----------------------------
(***************************************************************************)
(* Facts about the totals of module Sums, for tables of any length.  They  *)
(* are proved by induction on the number of rows, stated with a set: a set *)
(* of naturals that has 0 and the successor of each of its elements is Nat.*)
(***************************************************************************)
EXTENDS Sums, FiniteSetTheorems, TLAPS

\* A non-empty set of naturals has a least element.  The intervals 0..n are
\* finite sets, and strict inclusion of finite sets is well-founded.
LEMMA LeastNatural ==
  ASSUME NEW T \in SUBSET Nat, T # {}
  PROVE  \E x \in T : \A y \in T : x <= y
<1> DEFINE I == {0..n : n \in T}
           R == StrictSubsetOrdering(Nat)
           F == FiniteSubsetsOf(Nat)
<1>1. IsWellFoundedOn(R, F)
  BY FS_StrictSubsetOrderingWellFounded
<1>2. I \subseteq F
  <2>1. ASSUME NEW n \in T PROVE 0..n \in SUBSET Nat /\ IsFiniteSet(0..n)
    <3>1. n \in Int /\ 0 \in Int
      OBVIOUS
    <3> QED BY <3>1, FS_Interval
  <2> QED BY <2>1 DEF FiniteSubsetsOf
<1>3. I # {}
  OBVIOUS
<1>4. PICK X \in I : \A Y \in I : <<Y, X>> \notin R
  <2> HIDE DEF R, F, I
  <2> QED BY <1>1, <1>2, <1>3, WFMin
<1>5. PICK x \in T : X = 0..x
  OBVIOUS
<1>6. ASSUME NEW y \in T PROVE x <= y
  <2>1. <<0..y, X>> \notin R
    BY <1>4
  <2>2. 0..y \in SUBSET Nat /\ X \in SUBSET Nat
    BY <1>5
  <2>3. ~(0..y \subseteq X /\ 0..y # X)
    BY <2>1, <2>2 DEF StrictSubsetOrdering
  <2>4. SUFFICES ASSUME y < x PROVE FALSE
    OBVIOUS
  <2>5. 0..y \subseteq 0..x
    BY <2>4
  <2>6. x \in 0..x /\ x \notin 0..y
    BY <2>4
  <2> QED BY <2>3, <2>5, <2>6, <1>5
<1> QED BY <1>6

\* Induction on the naturals.
LEMMA SetInduction ==
  ASSUME NEW T \in SUBSET Nat, 0 \in T, \A n \in T : n + 1 \in T
  PROVE  \A n \in Nat : n \in T
<1> SUFFICES ASSUME Nat \ T # {} PROVE FALSE
  OBVIOUS
<1>1. PICK x \in Nat \ T : \A y \in Nat \ T : x <= y
  BY LeastNatural
<1>2. x - 1 \in Nat
  OBVIOUS
<1>3. x - 1 \in T
  BY <1>1, <1>2
<1> QED BY <1>3, <1>1
-----------------------------------------------------------------------------
(* The recursive definition of Sum *)

\* g holds the partial sums of f up to n.
PartialSums(g, f, n) ==
    /\ g[0] = 0
    /\ \A i \in 1..n : g[i] = g[i - 1] + f[i]

\* Partial sums of any amounts exist, up to any number of rows.
LEMMA PartialSumsExist ==
  ASSUME NEW f
  PROVE  \A n \in Nat : \E g : PartialSums(g, f, n)
<1> DEFINE T == {n \in Nat : \E g : PartialSums(g, f, n)}
<1>1. 0 \in T
  <2>1. PartialSums([i \in 0..0 |-> 0], f, 0)
    BY DEF PartialSums
  <2> QED BY <2>1
<1>2. ASSUME NEW n \in T PROVE n + 1 \in T
  <2>1. PICK g : PartialSums(g, f, n)
    OBVIOUS
  <2> DEFINE h == [i \in 0..(n + 1) |-> IF i = n + 1 THEN g[n] + f[n + 1] ELSE g[i]]
  <2>2. PartialSums(h, f, n + 1)
    <3>1. h[0] = 0
      BY <2>1 DEF PartialSums
    <3>2. ASSUME NEW i \in 1..n PROVE h[i] = h[i - 1] + f[i]
      <4>1. i \in 0..(n + 1) /\ i - 1 \in 0..(n + 1) /\ i # n + 1 /\ i - 1 # n + 1
        OBVIOUS
      <4> QED BY <4>1, <2>1 DEF PartialSums
    <3>3. h[n + 1] = h[n] + f[n + 1]
      OBVIOUS
    <3> HIDE DEF h
    <3>4. \A i \in 1..(n + 1) : i \in 1..n \/ i = n + 1
      OBVIOUS
    <3>5. (n + 1) - 1 = n
      OBVIOUS
    <3> QED BY <3>1, <3>2, <3>3, <3>4, <3>5 DEF PartialSums
  <2> QED BY <2>2
<1>3. T \in SUBSET Nat
  OBVIOUS
<1>4. \A n \in Nat : n \in T
  <2> HIDE DEF T
  <2> QED BY <1>1, <1>2, <1>3, SetInduction
<1> QED BY <1>4

\* Partial sums are the same whatever number of rows they go up to.
LEMMA PartialSumsUnique ==
  ASSUME NEW f, NEW n \in Nat, NEW m \in Nat, n <= m, NEW g, NEW h,
         PartialSums(g, f, n), PartialSums(h, f, m)
  PROVE  g[n] = h[n]
<1> DEFINE T == {i \in Nat : i \in 0..n => g[i] = h[i]}
<1>1. 0 \in T
  BY DEF PartialSums
<1>2. ASSUME NEW i \in T PROVE i + 1 \in T
  <2>1. CASE i + 1 \in 0..n
    <3>1. i + 1 \in 1..n /\ i + 1 \in 1..m /\ (i + 1) - 1 = i /\ i \in 0..n
      BY <2>1
    <3>2. g[i + 1] = g[i] + f[i + 1] /\ h[i + 1] = h[i] + f[i + 1]
      BY <3>1 DEF PartialSums
    <3> QED BY <3>1, <3>2
  <2> QED BY <2>1
<1>3. T \in SUBSET Nat
  OBVIOUS
<1>4. n \in T
  <2> HIDE DEF T
  <2> QED BY <1>1, <1>2, <1>3, SetInduction
<1> QED BY <1>4

\* The total of no row is 0, and each row adds what it contributes.
LEMMA SumDef ==
  ASSUME NEW f
  PROVE  /\ Sum(f, 0) = 0
         /\ \A n \in Nat : Sum(f, n + 1) = Sum(f, n) + f[n + 1]
<1> DEFINE P(i) == CHOOSE g : PartialSums(g, f, i)
           G == [i \in Nat |-> P(i)[i]]
           Q(g) == g = [i \in Nat |-> IF i = 0 THEN 0 ELSE g[i - 1] + f[i]]
<1>1. \A i \in Nat : PartialSums(P(i), f, i)
  BY PartialSumsExist
<1> HIDE DEF P
<1>2. G[0] = 0
  BY <1>1 DEF PartialSums
<1>3. ASSUME NEW i \in Nat, i # 0 PROVE G[i] = G[i - 1] + f[i]
  <2>1. i - 1 \in Nat /\ i - 1 <= i
    BY <1>3
  <2>2. P(i - 1)[i - 1] = P(i)[i - 1]
    BY <1>1, <2>1, PartialSumsUnique
  <2>3. P(i)[i] = P(i)[i - 1] + f[i]
    <3>1. i \in 1..i
      BY <1>3
    <3> QED BY <1>1, <3>1 DEF PartialSums
  <2> QED BY <2>1, <2>2, <2>3
<1>4. Q(G)
  <2>1. G = [i \in Nat |-> G[i]]
    OBVIOUS
  <2> HIDE DEF G
  <2>2. \A i \in Nat : G[i] = IF i = 0 THEN 0 ELSE G[i - 1] + f[i]
    BY <1>2, <1>3
  <2>3. [i \in Nat |-> G[i]] = [i \in Nat |-> IF i = 0 THEN 0 ELSE G[i - 1] + f[i]]
    BY <2>2
  <2> QED BY <2>1, <2>3
<1> HIDE DEF G
<1> DEFINE C == CHOOSE g : Q(g)
<1>5. Q(C)
  <2> HIDE DEF Q
  <2> QED BY <1>4
<1>6. \A n : Sum(f, n) = C[n]
  BY DEF Sum
<1> HIDE DEF C
<1>7. C[0] = 0
  BY <1>5
<1>8. ASSUME NEW n \in Nat PROVE C[n + 1] = C[n] + f[n + 1]
  <2>1. n + 1 \in Nat /\ n + 1 # 0 /\ (n + 1) - 1 = n
    OBVIOUS
  <2> QED BY <1>5, <2>1
<1> QED BY <1>6, <1>7, <1>8
-----------------------------------------------------------------------------
(* Types, comparison and change of totals *)

\* A total of integers is an integer.
LEMMA SumInt ==
  ASSUME NEW f, NEW n \in Nat, \A i \in 1..n : f[i] \in Int
  PROVE  \A m \in 0..n : Sum(f, m) \in Int
<1> DEFINE T == {m \in Nat : m <= n => Sum(f, m) \in Int}
<1>1. 0 \in T
  BY SumDef
<1>2. ASSUME NEW m \in T PROVE m + 1 \in T
  <2>1. CASE m + 1 <= n
    <3>1. Sum(f, m) \in Int /\ f[m + 1] \in Int
      BY <2>1
    <3>2. Sum(f, m + 1) = Sum(f, m) + f[m + 1]
      BY SumDef
    <3> QED BY <3>1, <3>2
  <2> QED BY <2>1
<1>3. T \in SUBSET Nat
  OBVIOUS
<1>4. \A m \in Nat : m \in T
  <2> HIDE DEF T
  <2> QED BY <1>1, <1>2, <1>3, SetInduction
<1> QED BY <1>4

\* Totals of amounts that are not negative are not negative and only grow.
LEMMA SumMonotonic ==
  ASSUME NEW f, NEW n \in Nat, \A i \in 1..n : f[i] \in Nat
  PROVE  \A l, m \in 0..n : l <= m => Sum(f, l) <= Sum(f, m) /\ Sum(f, l) \in Nat
<1> SUFFICES ASSUME NEW l \in 0..n
             PROVE  \A m \in 0..n : l <= m => Sum(f, l) <= Sum(f, m) /\ Sum(f, l) \in Nat
  OBVIOUS
<1>0. \A m \in 0..n : Sum(f, m) \in Int
  BY SumInt
<1>1. \A m \in 0..n : Sum(f, m) \in Nat
  <2> DEFINE T == {m \in Nat : m <= n => Sum(f, m) \in Nat}
  <2>1. 0 \in T
    BY SumDef
  <2>2. ASSUME NEW m \in T PROVE m + 1 \in T
    <3>1. CASE m + 1 <= n
      <4>1. Sum(f, m) \in Nat /\ f[m + 1] \in Nat
        BY <3>1
      <4>2. Sum(f, m + 1) = Sum(f, m) + f[m + 1]
        BY SumDef
      <4> QED BY <4>1, <4>2
    <3> QED BY <3>1
  <2>3. T \in SUBSET Nat
    OBVIOUS
  <2>4. \A m \in Nat : m \in T
    <3> HIDE DEF T
    <3> QED BY <2>1, <2>2, <2>3, SetInduction
  <2> QED BY <2>4
<1> DEFINE T == {m \in Nat : l <= m /\ m <= n => Sum(f, l) <= Sum(f, m)}
<1>2. 0 \in T
  BY <1>0
<1>3. ASSUME NEW m \in T PROVE m + 1 \in T
  <2>1. CASE l <= m /\ m + 1 <= n
    <3>1. Sum(f, l) <= Sum(f, m) /\ f[m + 1] \in Nat /\ Sum(f, m) \in Int /\ Sum(f, l) \in Int
      BY <2>1, <1>0
    <3>2. Sum(f, m + 1) = Sum(f, m) + f[m + 1]
      BY SumDef
    <3> QED BY <3>1, <3>2
  <2>2. CASE l = m + 1 /\ m + 1 <= n
    BY <2>2, <1>0
  <2>3. l <= m + 1 => l <= m \/ l = m + 1
    OBVIOUS
  <2> QED BY <2>1, <2>2, <2>3
<1>4. T \in SUBSET Nat
  OBVIOUS
<1>5. \A m \in Nat : m \in T
  <2> HIDE DEF T
  <2> QED BY <1>2, <1>3, <1>4, SetInduction
<1> QED BY <1>5, <1>1

\* Totals depend only on the rows they count.
LEMMA SumEqual ==
  ASSUME NEW f, NEW g, NEW n \in Nat, \A i \in 1..n : f[i] = g[i]
  PROVE  Sum(f, n) = Sum(g, n)
<1> DEFINE T == {m \in Nat : m <= n => Sum(f, m) = Sum(g, m)}
<1>1. 0 \in T
  BY SumDef
<1>2. ASSUME NEW m \in T PROVE m + 1 \in T
  <2>1. CASE m + 1 <= n
    <3>1. Sum(f, m) = Sum(g, m) /\ f[m + 1] = g[m + 1]
      BY <2>1
    <3>2. Sum(f, m + 1) = Sum(f, m) + f[m + 1] /\ Sum(g, m + 1) = Sum(g, m) + g[m + 1]
      BY SumDef
    <3> QED BY <3>1, <3>2
  <2> QED BY <2>1
<1>3. T \in SUBSET Nat
  OBVIOUS
<1>4. n \in T
  <2> HIDE DEF T
  <2> QED BY <1>1, <1>2, <1>3, SetInduction
<1> QED BY <1>4

\* A total of zeros is zero.
LEMMA SumZero ==
  ASSUME NEW f, NEW n \in Nat, \A i \in 1..n : f[i] = 0
  PROVE  Sum(f, n) = 0
<1> DEFINE T == {m \in Nat : m <= n => Sum(f, m) = 0}
<1>1. 0 \in T
  BY SumDef
<1>2. ASSUME NEW m \in T PROVE m + 1 \in T
  BY SumDef
<1>3. T \in SUBSET Nat
  OBVIOUS
<1>4. n \in T
  <2> HIDE DEF T
  <2> QED BY <1>1, <1>2, <1>3, SetInduction
<1> QED BY <1>4

\* The rows f are the n rows g followed by the m rows h.
Continued(f, g, h, n, m) ==
    /\ \A i \in 1..n : f[i] = g[i] /\ g[i] \in Int
    /\ \A i \in 1..m : f[n + i] = h[i] /\ h[i] \in Int

\* The rows after the first n add up apart from them.
LEMMA SumConcat ==
  ASSUME NEW f, NEW g, NEW h, NEW n \in Nat, NEW m \in Nat, Continued(f, g, h, n, m)
  PROVE  Sum(f, n + m) = Sum(g, n) + Sum(h, m)
<1> DEFINE T == {k \in Nat : k <= m => Sum(f, n + k) = Sum(g, n) + Sum(h, k)}
<1>0. \A k \in 0..m : Sum(h, k) \in Int /\ Sum(g, n) \in Int
  <2>1. (\A i \in 1..n : g[i] \in Int) /\ (\A i \in 1..m : h[i] \in Int)
    BY DEF Continued
  <2> QED BY <2>1, SumInt
<1>1. 0 \in T
  <2>0. \A i \in 1..n : f[i] = g[i]
    BY DEF Continued
  <2>1. Sum(f, n) = Sum(g, n) /\ Sum(h, 0) = 0 /\ n + 0 = n /\ 0 \in 0..m
    BY <2>0, SumDef, SumEqual
  <2> QED BY <1>0, <2>1
<1>2. ASSUME NEW k \in T PROVE k + 1 \in T
  <2>1. CASE k + 1 <= m
    <3>1. k \in Nat /\ k \in 0..m /\ k + 1 \in 1..m /\ n + k \in Nat /\ (n + k) + 1 = n + (k + 1)
      BY <2>1
    <3>2. Sum(f, n + k) = Sum(g, n) + Sum(h, k) /\ f[n + (k + 1)] = h[k + 1] /\ h[k + 1] \in Int
      BY <2>1, <3>1 DEF Continued
    <3>3. /\ Sum(f, n + (k + 1)) = Sum(f, n + k) + f[n + (k + 1)]
          /\ Sum(h, k + 1) = Sum(h, k) + h[k + 1]
      BY <3>1, SumDef
    <3>4. Sum(f, n + (k + 1)) = Sum(g, n) + Sum(h, k + 1)
      BY <1>0, <3>1, <3>2, <3>3
    <3> QED BY <3>4
  <2> QED BY <2>1
<1>3. T \in SUBSET Nat
  OBVIOUS
<1>4. m \in T
  <2> HIDE DEF T
  <2> QED BY <1>1, <1>2, <1>3, SetInduction
<1> QED BY <1>4

\* A total is at most the sum of two others if each of its rows is.
LEMMA SumBounded ==
  ASSUME NEW f, NEW g, NEW h, NEW n \in Nat,
         \A i \in 1..n : /\ f[i] \in Int /\ g[i] \in Int /\ h[i] \in Int
                         /\ f[i] <= g[i] + h[i]
  PROVE  Sum(f, n) <= Sum(g, n) + Sum(h, n)
<1> DEFINE T == {k \in Nat : k <= n => Sum(f, k) <= Sum(g, k) + Sum(h, k)}
<1>0. \A k \in 0..n : Sum(f, k) \in Int /\ Sum(g, k) \in Int /\ Sum(h, k) \in Int
  BY SumInt
<1>1. 0 \in T
  BY SumDef
<1>2. ASSUME NEW k \in T PROVE k + 1 \in T
  <2>1. CASE k + 1 <= n
    <3>1. k \in Nat /\ k \in 0..n /\ k + 1 \in 1..n
      BY <2>1
    <3>2. Sum(f, k) <= Sum(g, k) + Sum(h, k)
      BY <2>1
    <3>3. /\ Sum(f, k + 1) = Sum(f, k) + f[k + 1]
          /\ Sum(g, k + 1) = Sum(g, k) + g[k + 1]
          /\ Sum(h, k + 1) = Sum(h, k) + h[k + 1]
      BY <3>1, SumDef
    <3>4. /\ f[k + 1] \in Int /\ g[k + 1] \in Int /\ h[k + 1] \in Int
          /\ f[k + 1] <= g[k + 1] + h[k + 1]
      BY <3>1
    <3>5. Sum(f, k + 1) <= Sum(g, k + 1) + Sum(h, k + 1)
      BY <1>0, <3>1, <3>2, <3>3, <3>4
    <3> QED BY <3>5
  <2> QED BY <2>1
<1>3. T \in SUBSET Nat
  OBVIOUS
<1>4. n \in T
  <2> HIDE DEF T
  <2> QED BY <1>1, <1>2, <1>3, SetInduction
<1> QED BY <1>4

\* Handing n units to the rows in turn, each taking at most what it asks for,
\* leaves the total smaller by n, or by all of it.
LEMMA SumServed ==
  ASSUME NEW f, NEW g, NEW n \in Nat, NEW m \in Nat,
         \A i \in 1..m : /\ f[i] \in Nat
                         /\ g[i] = f[i] - Lesser(f[i], AtLeastZero(n - Sum(f, i - 1)))
  PROVE  Sum(g, m) = Sum(f, m) - Lesser(n, Sum(f, m))
<1> DEFINE T == {k \in Nat : k <= m => Sum(g, k) = Sum(f, k) - Lesser(n, Sum(f, k))}
<1>0. \A k \in 0..m : Sum(f, k) \in Nat
  <2>1. \A l, k \in 0..m : l <= k => Sum(f, l) <= Sum(f, k) /\ Sum(f, l) \in Nat
    BY SumMonotonic
  <2> QED BY <2>1
<1>1. 0 \in T
  <2>1. Sum(f, 0) = 0 /\ Sum(g, 0) = 0
    BY SumDef
  <2> QED BY <2>1 DEF Lesser
<1>2. ASSUME NEW k \in T PROVE k + 1 \in T
  <2>1. CASE k + 1 <= m
    <3>1. k \in Nat /\ k \in 0..m /\ k + 1 \in 1..m /\ (k + 1) - 1 = k
      BY <2>1
    <3>2. Sum(g, k) = Sum(f, k) - Lesser(n, Sum(f, k)) /\ Sum(f, k) \in Nat
      BY <1>0, <2>1, <3>1
    <3>3. Sum(f, k + 1) = Sum(f, k) + f[k + 1] /\ Sum(g, k + 1) = Sum(g, k) + g[k + 1]
      BY <3>1, SumDef
    <3>4. /\ f[k + 1] \in Nat
          /\ g[k + 1] = f[k + 1] - Lesser(f[k + 1], AtLeastZero(n - Sum(f, k)))
      BY <3>1
    <3>5. Sum(g, k + 1) = Sum(f, k + 1) - Lesser(n, Sum(f, k + 1))
      <4> HIDE DEF T
      <4> QED BY <3>2, <3>3, <3>4 DEF Lesser, AtLeastZero
    <3> QED BY <3>5
  <2> QED BY <2>1
<1>3. T \in SUBSET Nat
  OBVIOUS
<1>4. m \in T
  <2> HIDE DEF T
  <2> QED BY <1>1, <1>2, <1>3, SetInduction
<1> QED BY <1>4

\* The total of differences is the difference of the totals.
LEMMA SumDifference ==
  ASSUME NEW f, NEW g, NEW h, NEW n \in Nat,
         \A i \in 1..n : f[i] \in Int /\ g[i] \in Int /\ h[i] = f[i] - g[i]
  PROVE  Sum(h, n) = Sum(f, n) - Sum(g, n)
<1> DEFINE T == {k \in Nat : k <= n => Sum(h, k) = Sum(f, k) - Sum(g, k)}
<1>0. \A k \in 0..n : Sum(f, k) \in Int /\ Sum(g, k) \in Int
  BY SumInt
<1>1. 0 \in T
  BY SumDef
<1>2. ASSUME NEW k \in T PROVE k + 1 \in T
  <2>1. CASE k + 1 <= n
    <3>1. /\ Sum(f, k + 1) = Sum(f, k) + f[k + 1] /\ Sum(g, k + 1) = Sum(g, k) + g[k + 1]
          /\ Sum(h, k + 1) = Sum(h, k) + h[k + 1]
      BY SumDef
    <3>2. /\ k \in 0..n /\ k + 1 \in 1..n
          /\ Sum(h, k) = Sum(f, k) - Sum(g, k)
      BY <2>1
    <3>3. Sum(f, k) \in Int /\ Sum(g, k) \in Int /\ f[k + 1] \in Int /\ g[k + 1] \in Int
          /\ h[k + 1] = f[k + 1] - g[k + 1]
      BY <1>0, <3>2
    <3> QED BY <3>1, <3>2, <3>3
  <2> QED BY <2>1
<1>3. n \in T
  <2>1. \A m \in Nat : m \in T
    <3> HIDE DEF T
    <3>1. T \in SUBSET Nat
      BY DEF T
    <3> QED BY <1>1, <1>2, <3>1, SetInduction
  <2> QED BY <2>1
<1> QED BY <1>3
=============================================================================
