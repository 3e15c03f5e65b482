----------------------------- MODULE SumLemmas -----------------------------
(***************************************************************************)
(* Lemmas on recursive definitions over 0..n, and on the sum of a ledger's *)
(* column: what a recursive function computes exists and is typed, and a   *)
(* sum changes by exactly what one entry changes.                          *)
(***************************************************************************)
EXTENDS Sums, TLAPS, WellFoundedInduction, FiniteSetTheorems

\* NatIsInt: the naturals are integers.
LEMMA NatIsInt == \A n \in Nat : n \in Int
OBVIOUS

\* LeastNat: a non-empty set of naturals has a least element.  It stands in for
\* induction, by way of the smallest counterexample.
LEMMA LeastNat ==
  ASSUME NEW T \in SUBSET Nat, T # {}
  PROVE  \E m \in T : \A k \in T : m <= k
<1> DEFINE F == {0..n : n \in T}
<1>1. F \subseteq FiniteSubsetsOf(Nat)
  <2>1. \A n \in T : IsFiniteSet(0..n)
    BY FS_Interval
  <2>2. \A n \in T : 0..n \in SUBSET Nat
    OBVIOUS
  <2>3. QED
    BY <2>1, <2>2, Zenon DEF FiniteSubsetsOf
<1>2. F # {}
  BY Zenon
<1>3. IsWellFoundedOn(StrictSubsetOrdering(Nat), FiniteSubsetsOf(Nat))
  BY FS_StrictSubsetOrderingWellFounded
<1> HIDE DEF F
<1>4. \E x \in F : \A y \in F : ~ (<<y, x>> \in StrictSubsetOrdering(Nat))
  BY <1>1, <1>2, <1>3, WFMin
<1>5. PICK m \in T : \A k \in T : ~ (<<0..k, 0..m>> \in StrictSubsetOrdering(Nat))
  BY <1>4, Zenon DEF F
<1>6. ASSUME NEW k \in T
      PROVE  m <= k
  <2>1. SUFFICES ASSUME k < m
                 PROVE  <<0..k, 0..m>> \in StrictSubsetOrdering(Nat)
    BY <1>5
  <2>2. QED
    BY <2>1 DEF StrictSubsetOrdering
<1>7. QED
  BY <1>6

\* UpToN: if a property of 0..n, given as the set of its members, has
\* 0 and passes from each number to the next, it has all of 0..n.
LEMMA UpToN ==
  ASSUME NEW n \in Nat, NEW Good,
         0 \in Good,
         \A k \in 1..n : k - 1 \in Good => k \in Good
  PROVE  0..n \subseteq Good
<1> DEFINE Bad == 0..n \ Good
<1>1. SUFFICES ASSUME Bad # {}
               PROVE  FALSE
  OBVIOUS
<1>2. Bad \in SUBSET Nat
  OBVIOUS
<1>3. PICK m \in Bad : \A k \in Bad : m <= k
  BY <1>1, <1>2, LeastNat, Zenon
<1>4. m # 0 /\ m \in 1..n
  BY <1>3
<1>5. m - 1 \in 0..n /\ m - 1 \notin Bad
  BY <1>3, <1>4
<1>6. QED
  BY <1>4, <1>5

-----------------------------------------------------------------------------
\* g starts at base and goes on by step.
Unfolds(g, n, base, step) ==
  g[0] = base /\ \A k \in 1..n : g[k] = step[<<k, g[k-1]>>]

\* RecursionExists: a step function from S to S, started in S, defines a
\* function on 0..n with values in S.
LEMMA RecursionExists ==
  ASSUME NEW n \in Nat, NEW S, NEW base \in S,
         NEW step \in [(1..n) \X S -> S]
  PROVE  \E g \in [0..n -> S] : Unfolds(g, n, base, step)
<1> DEFINE Good == {m \in 0..n : \E g \in [0..m -> S] : Unfolds(g, m, base, step)}
<1>1. 0 \in Good
  <2> DEFINE g0 == [k \in 0..0 |-> base]
  <2>1. g0 \in [0..0 -> S] /\ Unfolds(g0, 0, base, step)
    BY DEF Unfolds
  <2> HIDE DEF g0
  <2>2. QED
    BY <2>1
<1>2. ASSUME NEW m \in 1..n, m - 1 \in Good
      PROVE  m \in Good
  <2>1. PICK g \in [0..(m-1) -> S] : Unfolds(g, m-1, base, step)
    BY <1>2
  <2> DEFINE h == [k \in 0..m |-> IF k = m THEN step[<<m, g[m-1]>>] ELSE g[k]]
  <2>2. h \in [0..m -> S]
    <3>1. g[m-1] \in S
      OBVIOUS
    <3>2. step[<<m, g[m-1]>>] \in S
      BY <3>1
    <3>3. QED
      BY <3>2
  <2>3. h[m] = step[<<m, g[m-1]>>] /\ \A k \in 0..(m-1) : h[k] = g[k]
    OBVIOUS
  <2> HIDE DEF h
  <2>4. Unfolds(h, m, base, step)
    <3>1. h[0] = base
      BY <2>1, <2>3 DEF Unfolds
    <3>2. ASSUME NEW k \in 1..m
          PROVE  h[k] = step[<<k, h[k-1]>>]
      <4>1. h[k-1] = g[k-1]
        BY <2>3
      <4>2. CASE k = m
        BY <2>3, <4>1, <4>2
      <4>3. CASE k # m
        <5>1. k \in 1..(m-1) /\ h[k] = g[k]
          BY <2>3, <4>3
        <5>2. QED
          BY <2>1, <4>1, <5>1 DEF Unfolds
      <4>4. QED
        BY <4>2, <4>3
    <3>3. QED
      BY <3>1, <3>2 DEF Unfolds
  <2>5. QED
    BY <2>2, <2>4
<1> HIDE DEF Good
<1>3. 0..n \subseteq Good
  BY <1>1, <1>2, UpToN
<1>4. n \in Good
  BY <1>3
<1>5. QED
  BY <1>4 DEF Good

-----------------------------------------------------------------------------
\* g holds the running totals of f up to n.
IsSumOf(g, f, n) == g[0] = 0 /\ \A k \in 1..n : g[k] = g[k-1] + f[k]

\* SumIsTotal: SumTo is the last of the running totals.
LEMMA SumIsTotal ==
  ASSUME NEW n \in Nat, NEW f \in [1..n -> Int]
  PROVE  \E g \in [0..n -> Int] : IsSumOf(g, f, n) /\ SumTo(f, n) = g[n]
<1> DEFINE Body(g) == [k \in 0..n |-> IF k = 0 THEN 0 ELSE g[k-1] + f[k]]
           step == [p \in (1..n) \X Int |-> p[2] + f[p[1]]]
           total == CHOOSE g : g = Body(g)
<1>1. SumTo(f, n) = total[n]
  BY DEF SumTo
<1>2. step \in [(1..n) \X Int -> Int]
  OBVIOUS
<1>3. \A k \in 1..n, x \in Int : step[<<k, x>>] = x + f[k]
  OBVIOUS
<1> HIDE DEF step
<1>4. PICK g \in [0..n -> Int] : Unfolds(g, n, 0, step)
  <2>1. 0 \in Int
    OBVIOUS
  <2>2. QED
    BY <1>2, <2>1, RecursionExists, Zenon
<1>5. g[0] = 0 /\ \A k \in 1..n : g[k] = g[k-1] + f[k]
  <2>1. \A k \in 1..n : g[k-1] \in Int
    OBVIOUS
  <2>2. QED
    BY <1>3, <1>4, <2>1, Zenon DEF Unfolds
<1>6. g = Body(g)
  <2>1. \A k \in 0..n : g[k] = IF k = 0 THEN 0 ELSE g[k-1] + f[k]
    BY <1>5
  <2>2. QED
    BY <2>1
<1>7. total = Body(total)
  <2> HIDE DEF Body
  <2>1. \E x : x = Body(x)
    BY <1>6
  <2>2. QED
    BY <2>1, Zenon
<1> HIDE DEF total
<1>a. 0 \in 0..n /\ \A k \in 1..n : k \in 0..n /\ k # 0
  OBVIOUS
<1>8. total[0] = 0 /\ \A k \in 1..n : total[k] = total[k-1] + f[k]
  BY <1>7, <1>a, Zenon
<1>9. total = g
  <2> DEFINE Good == {k \in 0..n : total[k] = g[k]}
  <2>1. 0 \in Good
    BY <1>5, <1>8
  <2>2. \A k \in 1..n : k - 1 \in Good => k \in Good
    BY <1>5, <1>8, <1>a, Zenon
  <2> HIDE DEF Good
  <2>3. 0..n \subseteq Good
    BY <2>1, <2>2, UpToN, Zenon
  <2>4. \A k \in 0..n : total[k] = g[k]
    BY <2>3 DEF Good
  <2>5. QED
    BY <2>4, <1>7, <1>6
<1>10. QED
  BY <1>1, <1>5, <1>9, Zenon DEF IsSumOf

\* SumUpdate: when one entry of a column changes, its sum changes by as much.
LEMMA SumUpdate ==
  ASSUME NEW n \in Nat, NEW f \in [1..n -> Int], NEW t \in 1..n, NEW v \in Int
  PROVE  SumTo([f EXCEPT ![t] = v], n) + f[t] = SumTo(f, n) + v
<1> DEFINE e == [f EXCEPT ![t] = v]
<1>1. e \in [1..n -> Int] /\ e[t] = v /\ \A k \in 1..n : k # t => e[k] = f[k]
  OBVIOUS
<1> HIDE DEF e
<1>2. PICK g \in [0..n -> Int] : IsSumOf(g, f, n) /\ SumTo(f, n) = g[n]
  BY SumIsTotal
<1>3. PICK h \in [0..n -> Int] : IsSumOf(h, e, n) /\ SumTo(e, n) = h[n]
  BY <1>1, SumIsTotal, Zenon
<1> DEFINE Good == {k \in 0..n : IF k < t THEN h[k] = g[k] ELSE h[k] + f[t] = g[k] + v}
<1>4. 0 \in Good
  BY <1>2, <1>3 DEF IsSumOf
<1>5. ASSUME NEW k \in 1..n, k - 1 \in Good
      PROVE  k \in Good
  <2>1. g[k] = g[k-1] + f[k] /\ h[k] = h[k-1] + e[k]
    BY <1>2, <1>3 DEF IsSumOf
  <2>2. IF k - 1 < t THEN h[k-1] = g[k-1] ELSE h[k-1] + f[t] = g[k-1] + v
    BY <1>5
  <2>3. g[k-1] \in Int /\ h[k-1] \in Int /\ f[k] \in Int /\ f[t] \in Int
    OBVIOUS
  <2>4. CASE k < t
    <3>1. e[k] = f[k] /\ h[k-1] = g[k-1]
      BY <1>1, <2>2, <2>4
    <3>2. QED
      BY <2>1, <2>3, <2>4, <3>1
  <2>5. CASE k = t
    <3>1. e[k] = v /\ h[k-1] = g[k-1]
      BY <1>1, <2>2, <2>5
    <3>2. h[k] + f[t] = g[k] + v
      BY <2>1, <2>3, <2>5, <3>1
    <3>3. QED
      BY <2>5, <3>2
  <2>6. CASE k > t
    <3>1. e[k] = f[k] /\ h[k-1] + f[t] = g[k-1] + v
      BY <1>1, <2>2, <2>6
    <3>2. PICK a \in Int : a = h[k-1]
      BY <2>3
    <3>3. PICK b \in Int : b = g[k-1]
      BY <2>3
    <3>4. PICK c \in Int : c = f[k]
      BY <2>3
    <3>5. PICK d \in Int : d = f[t]
      BY <2>3
    <3>6. a + d = b + v
      BY <3>1, <3>2, <3>3, <3>5
    <3>7. a + c + d = b + c + v
      BY <3>6
    <3>8. h[k] = a + c /\ g[k] = b + c
      BY <2>1, <3>1, <3>2, <3>3, <3>4
    <3>9. QED
      BY <2>6, <3>5, <3>7, <3>8
  <2>7. QED
    BY <2>4, <2>5, <2>6
<1> HIDE DEF Good
<1>6. 0..n \subseteq Good
  BY <1>4, <1>5, UpToN, Zenon
<1>7. h[n] + f[t] = g[n] + v
  BY <1>6 DEF Good
<1>8. QED
  BY <1>2, <1>3, <1>7 DEF e

\* SumZero: an empty column sums to zero.
LEMMA SumZero ==
  ASSUME NEW n \in Nat
  PROVE  SumTo([k \in 1..n |-> 0], n) = 0
<1> DEFINE f == [k \in 1..n |-> 0]
<1>1. f \in [1..n -> Int] /\ \A k \in 1..n : f[k] = 0
  OBVIOUS
<1> HIDE DEF f
<1>2. PICK g \in [0..n -> Int] : IsSumOf(g, f, n) /\ SumTo(f, n) = g[n]
  BY <1>1, SumIsTotal
<1> DEFINE Good == {k \in 0..n : g[k] = 0}
<1>3. 0 \in Good
  BY <1>2 DEF IsSumOf
<1>4. \A k \in 1..n : k - 1 \in Good => k \in Good
  BY <1>1, <1>2 DEF IsSumOf
<1> HIDE DEF Good
<1>5. 0..n \subseteq Good
  BY <1>3, <1>4, UpToN, Zenon
<1>6. QED
  BY <1>2, <1>5 DEF Good, f

\* SumIsInt: a sum of integers is an integer.
LEMMA SumIsInt ==
  ASSUME NEW n \in Nat, NEW f \in [1..n -> Int]
  PROVE  SumTo(f, n) \in Int
BY SumIsTotal

\* SumAppend: one more term adds its value; SumEmpty: no terms, no total.
LEMMA SumAppend ==
  ASSUME NEW n \in Nat, NEW f \in [1..n -> Int], NEW h \in [1..(n + 1) -> Int],
         \A k \in 1..n : h[k] = f[k]
  PROVE  SumTo(h, n + 1) = SumTo(f, n) + h[n + 1]
<1>1. PICK g \in [0..n -> Int] : IsSumOf(g, f, n) /\ SumTo(f, n) = g[n]
  BY SumIsTotal
<1>2. PICK e \in [0..(n + 1) -> Int] : IsSumOf(e, h, n + 1) /\ SumTo(h, n + 1) = e[n + 1]
  <2> DEFINE m == n + 1
  <2>1. m \in Nat /\ h \in [1..m -> Int]
    OBVIOUS
  <2> HIDE DEF m
  <2>2. \E e \in [0..m -> Int] : IsSumOf(e, h, m) /\ SumTo(h, m) = e[m]
    BY <2>1, SumIsTotal, Zenon
  <2>3. QED
    BY <2>2, Zenon DEF m
<1> DEFINE Good == {k \in 0..n : e[k] = g[k]}
<1>3. 0 \in Good
  BY <1>1, <1>2 DEF IsSumOf
<1>4. ASSUME NEW k \in 1..n, k - 1 \in Good
      PROVE  k \in Good
  <2>1. k \in 0..n /\ k \in 1..(n + 1)
    OBVIOUS
  <2>2. g[k] = g[k-1] + f[k] /\ e[k] = e[k-1] + h[k]
    BY <1>1, <1>2, <2>1, Zenon DEF IsSumOf
  <2>3. QED
    BY <1>4, <2>1, <2>2
<1>5. 0..n \subseteq Good
  <2> HIDE DEF Good
  <2>1. QED
    BY <1>3, <1>4, UpToN, Zenon
<1>6. e[n] = g[n]
  <2>1. n \in 0..n
    OBVIOUS
  <2>2. QED
    BY <1>5, <2>1, Zenon
<1>7. e[n + 1] = e[n] + h[n + 1]
  <2>1. n + 1 \in 1..(n + 1) /\ (n + 1) - 1 = n
    OBVIOUS
  <2>2. QED
    BY <1>2, <2>1 DEF IsSumOf
<1>8. QED
  BY <1>1, <1>2, <1>6, <1>7

LEMMA SumEmpty ==
  ASSUME NEW f \in [1..0 -> Int]
  PROVE  SumTo(f, 0) = 0
<1>1. PICK g \in [0..0 -> Int] : IsSumOf(g, f, 0) /\ SumTo(f, 0) = g[0]
  BY SumIsTotal, Zenon
<1>2. QED
  BY <1>1 DEF IsSumOf
=============================================================================
