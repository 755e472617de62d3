------------------------------ MODULE Induction ------------------------------
(***************************************************************************)
(* Induction for sets of naturals and of finite sets.  The library's       *)
(* induction theorems take the property as an operator; here it is the set *)
(* of the elements that have it, and the principle follows from the        *)
(* pigeonhole theorem.                                                     *)
(***************************************************************************)
EXTENDS Integers, FiniteSets, FiniteSetTheorems, TLAPS

\* A set of naturals that has 0, and with every element the next one, has all:
\* otherwise k |-> k + 1 would map its elements below a missing one injectively
\* to fewer values.
THEOREM NatSetInduction ==
    ASSUME NEW S, 0 \in S, \A k \in Nat : k \in S => k + 1 \in S
    PROVE  Nat \subseteq S
<1>1. SUFFICES ASSUME NEW m \in Nat, m \notin S PROVE FALSE
  OBVIOUS
<1> DEFINE B == {k \in 0..m : k \in S}
           f == [k \in B |-> k + 1]
<1>2. IsFiniteSet(0..m)
  BY FS_Interval
<1>3. IsFiniteSet(B) /\ B \subseteq 0..m
  BY <1>2, FS_Subset
<1>4. 0 \in B
  OBVIOUS
<1>5. IsFiniteSet(B \ {0}) /\ Cardinality(B \ {0}) = Cardinality(B) - 1 /\ Cardinality(B) \in Nat
  BY <1>3, <1>4, FS_RemoveElement, FS_CardinalityType
<1>6. \A k \in B : k + 1 \in B \ {0}
  BY <1>1
<1>7. f \in [B -> B \ {0}]
  BY <1>6
<1>8. PICK x \in B, y \in B : x # y /\ f[x] = f[y]
  <2> HIDE DEF B, f
  <2>1. Cardinality(B \ {0}) < Cardinality(B)
    BY <1>5
  <2> QED BY <1>3, <1>5, <1>7, <2>1, FS_PigeonHole
<1>9. x \in Nat /\ y \in Nat /\ x + 1 = y + 1
  BY <1>8
<1> QED BY <1>8, <1>9

\* The least element of a nonempty set of naturals.
THEOREM LeastNat ==
    ASSUME NEW S, S \subseteq Nat, S # {}
    PROVE  \E m \in S : \A k \in S : m <= k
<1>1. SUFFICES ASSUME \A m \in S : \E k \in S : k < m PROVE FALSE
  OBVIOUS
<1> DEFINE T == {n \in Nat : \A k \in S : n <= k}
<1>2. 0 \in T
  OBVIOUS
<1>3. ASSUME NEW n \in Nat, n \in T PROVE n + 1 \in T
  <2>1. n \notin S
    BY <1>1, <1>3
  <2> QED BY <1>3, <2>1
<1>4. Nat \subseteq T
  <2> HIDE DEF T
  <2> QED BY <1>2, <1>3, NatSetInduction
<1>5. PICK k \in S : TRUE
  OBVIOUS
<1>6. k + 1 \in T
  BY <1>4, <1>5
<1> QED BY <1>5, <1>6

\* f is the sequence of elements of S that begins with c and goes on by step,
\* which has each value for an index and the value there.
IsRecursion(f, S, c, step) ==
    f \in [Nat -> S] /\ f[0] = c /\ \A n \in Nat : f[n + 1] = step[<<n, f[n]>>]

\* A function on the naturals can be given by its first value and by how each
\* value follows from the one before.
THEOREM NatRecursion ==
    ASSUME NEW S, NEW c, c \in S, NEW step, \A n \in Nat, x \in S : step[<<n, x>>] \in S
    PROVE  \E f : IsRecursion(f, S, c, step)
<1> DEFINE Approx(g, n) == /\ g \in [0..n -> S] /\ g[0] = c
                           /\ \A k \in 0..(n - 1) : g[k + 1] = step[<<k, g[k]>>]
           N == {n \in Nat : \E g : Approx(g, n)}
           pick == [n \in Nat |-> CHOOSE g : Approx(g, n)]
           f == [n \in Nat |-> pick[n][n]]
<1>1. Nat \subseteq N
  <2>1. 0 \in N
    <3>1. Approx([k \in 0..0 |-> c], 0)
      OBVIOUS
    <3> QED BY <3>1
  <2>2. ASSUME NEW n \in Nat, n \in N PROVE n + 1 \in N
    <3>1. PICK g : Approx(g, n)
      BY <2>2
    <3> HIDE DEF N, pick, f
    <3> DEFINE h == [k \in 0..(n + 1) |-> IF k = n + 1 THEN step[<<n, g[n]>>] ELSE g[k]]
    <3>2. h \in [0..(n + 1) -> S]
      BY <3>1
    <3>3. ASSUME NEW k \in 0..((n + 1) - 1) PROVE h[k + 1] = step[<<k, h[k]>>]
      <4>1. CASE k = n
        <5>1. k + 1 \in 0..(n + 1) /\ k \in 0..(n + 1) /\ k + 1 = n + 1 /\ k # n + 1
          BY <4>1
        <5>2. h[k + 1] = step[<<n, g[n]>>] /\ h[k] = g[n]
          BY <4>1, <5>1
        <5> QED BY <4>1, <5>2
      <4>2. CASE k # n
        <5>1. k \in 0..(n - 1) /\ k + 1 \in 0..n /\ k \in 0..n
          BY <4>2
        <5> QED BY <3>1, <5>1
      <4> QED BY <4>1, <4>2
    <3>4. h[0] = c
      BY <3>1
    <3>5. Approx(h, n + 1)
      BY <3>2, <3>3, <3>4
    <3> HIDE DEF h, Approx
    <3> QED BY <3>5 DEF N
  <2> HIDE DEF N
  <2> QED BY <2>1, <2>2, NatSetInduction
<1>2. \A n \in Nat : Approx(pick[n], n)
  BY <1>1
<1> HIDE DEF pick
\* Two approximations agree where both are defined.
<1>3. ASSUME NEW n \in Nat, NEW g, NEW h, Approx(g, n), Approx(h, n + 1)
      PROVE  \A k \in 0..n : g[k] = h[k]
  <2> DEFINE E == {k \in Nat : k <= n => g[k] = h[k]}
  <2>1. 0 \in E
    BY <1>3
  <2>2. ASSUME NEW k \in Nat, k \in E PROVE k + 1 \in E
    <3>1. SUFFICES ASSUME k + 1 <= n PROVE g[k + 1] = h[k + 1]
      OBVIOUS
    <3>2. k \in 0..(n - 1) /\ k \in 0..((n + 1) - 1) /\ g[k] = h[k]
      BY <2>2, <3>1
    <3> QED BY <1>3, <3>2
  <2>3. Nat \subseteq E
    <3> HIDE DEF E
    <3> QED BY <2>1, <2>2, NatSetInduction
  <2> QED BY <2>3
<1>4. f \in [Nat -> S] /\ f[0] = c
  BY <1>2
<1>5. ASSUME NEW n \in Nat PROVE f[n + 1] = step[<<n, f[n]>>]
  <2>1. pick[n][n] = pick[n + 1][n]
    <3>1. Approx(pick[n], n) /\ Approx(pick[n + 1], n + 1) /\ n \in 0..n
      BY <1>2
    <3> HIDE DEF Approx
    <3> QED BY <1>3, <3>1
  <2>2. pick[n + 1][n + 1] = step[<<n, pick[n + 1][n]>>]
    <3>1. Approx(pick[n + 1], n + 1)
      BY <1>2
    <3> QED BY <3>1
  <2> QED BY <2>1, <2>2
<1> QED BY <1>4, <1>5 DEF IsRecursion

-----------------------------------------------------------------------------
(***************************************************************************)
(* What can be reached in a finite set, and sums over one.                 *)
(***************************************************************************)
\* f[n] is what can be reached in n steps.
IsClosure(f, D, next) ==
    /\ f \in [Nat -> SUBSET D]
    /\ \A n \in Nat : f[n + 1] = f[n] \cup UNION {next[i] : i \in f[n]}

\* As many steps as there are elements reach all that any number of them does:
\* until nothing is added, every step adds an element.
THEOREM ClosureReached ==
    ASSUME NEW D, IsFiniteSet(D), NEW next, NEW f, IsClosure(f, D, next)
    PROVE  \A i \in f[Cardinality(D)] : i \in D /\ next[i] \subseteq f[Cardinality(D)]
<1> DEFINE Grows == {n \in Nat : f[n + 1] = f[n] \/ Cardinality(f[n]) >= n}
<1>1. /\ f \in [Nat -> SUBSET D]
      /\ \A n \in Nat : f[n + 1] = f[n] \cup UNION {next[i] : i \in f[n]}
  BY DEF IsClosure
<1>2. \A n \in Nat : IsFiniteSet(f[n]) /\ Cardinality(f[n]) \in Nat /\ f[n] \subseteq D
  <2> SUFFICES ASSUME NEW n \in Nat
               PROVE  IsFiniteSet(f[n]) /\ Cardinality(f[n]) \in Nat /\ f[n] \subseteq D
    OBVIOUS
  <2>1. f[n] \subseteq D
    BY <1>1
  <2> QED BY <2>1, FS_Subset, FS_CardinalityType
<1>3. 0 \in Grows
  BY <1>2
<1>4. ASSUME NEW n \in Nat, n \in Grows PROVE n + 1 \in Grows
  <2>1. CASE f[n + 1] = f[n]
    <3>1. n + 1 \in Nat /\ f[(n + 1) + 1] = f[n + 1] \cup UNION {next[i] : i \in f[n + 1]}
      BY <1>1
    <3>2. f[(n + 1) + 1] = f[n + 1]
      BY <1>1, <2>1, <3>1
    <3> QED BY <3>1, <3>2
  <2>2. CASE f[n + 1] # f[n] /\ Cardinality(f[n]) >= n
    <3>1. n + 1 \in Nat /\ IsFiniteSet(f[n + 1]) /\ f[n] \subseteq f[n + 1] /\ f[n] # f[n + 1]
      BY <1>1, <1>2, <2>2
    <3>2. Cardinality(f[n]) <= Cardinality(f[n + 1]) /\ Cardinality(f[n]) # Cardinality(f[n + 1])
      BY <3>1, FS_Subset
    <3>3. Cardinality(f[n + 1]) >= n + 1
      BY <1>2, <2>2, <3>1, <3>2
    <3> QED BY <3>1, <3>3
  <2> QED BY <1>4, <2>1, <2>2
<1>5. Nat \subseteq Grows
  <2> HIDE DEF Grows
  <2> QED BY <1>3, <1>4, NatSetInduction
<1>6. PICK n \in Nat : n = Cardinality(D)
  BY FS_CardinalityType
<1>7. CASE f[n + 1] = f[n]
  BY <1>1, <1>6, <1>7
<1>8. CASE Cardinality(f[n]) >= n
  <2>1. Cardinality(f[n]) = Cardinality(D)
    <3>1. Cardinality(f[n]) <= Cardinality(D)
      BY <1>2, FS_Subset
    <3> QED BY <1>2, <1>6, <1>8, <3>1
  <2>2. f[n] = D
    BY <1>2, <2>1, FS_Subset
  <2>3. f[n + 1] \subseteq D
    BY <1>2
  <2> QED BY <1>1, <1>6, <2>2, <2>3
<1> QED BY <1>5, <1>7, <1>8

\* Nothing outside S can be reached from S.
IsClosed(S, D, next) == \A i \in S : i \in D => next[i] \subseteq S

\* It is the least set that has what f begins with and is closed.
THEOREM ClosureLeast ==
    ASSUME NEW D, NEW next, NEW f, IsClosure(f, D, next),
           NEW S, f[0] \subseteq S, IsClosed(S, D, next)
    PROVE  \A n \in Nat : f[0] \subseteq f[n] /\ f[n] \subseteq S
<1> DEFINE Within == {n \in Nat : f[0] \subseteq f[n] /\ f[n] \subseteq S}
<1>1. 0 \in Within
  OBVIOUS
<1>2. ASSUME NEW n \in Nat, n \in Within PROVE n + 1 \in Within
  <2>1. f[n + 1] = f[n] \cup UNION {next[i] : i \in f[n]} /\ f[n] \subseteq D
    BY DEF IsClosure
  <2>2. \A i \in f[n] : next[i] \subseteq S
    BY <1>2, <2>1 DEF IsClosed
  <2> QED BY <1>2, <2>1, <2>2
<1>3. Nat \subseteq Within
  <2> HIDE DEF Within
  <2> QED BY <1>1, <1>2, NatSetInduction
<1> QED BY <1>3

\* total sums size over the subsets of R, taking one element after another.
IsSum(total, R, size) ==
    total = [S \in SUBSET R |->
               IF S = {} THEN 0
               ELSE size[CHOOSE j \in S : TRUE] + total[S \ {CHOOSE j \in S : TRUE}]]

\* g grows by the size of an element when the element is added.
IsMeasure(g, R, size) ==
    g[{}] = 0 /\ \A S \in SUBSET R : \A i \in S : g[S] = size[i] + g[S \ {i}]

\* A sum taken element by element, in whatever order, is the measure that each
\* element adds its size to.
THEOREM SumIsMeasure ==
    ASSUME NEW R, IsFiniteSet(R), NEW size, NEW total, NEW g,
           IsSum(total, R, size), IsMeasure(g, R, size)
    PROVE  total[R] = g[R]
<1> USE DEF IsSum, IsMeasure
<1> DEFINE Same == {n \in Nat : \A S \in SUBSET R : Cardinality(S) = n => total[S] = g[S]}
<1>1. \A S \in SUBSET R : IsFiniteSet(S) /\ Cardinality(S) \in Nat
  BY FS_Subset, FS_CardinalityType
<1>2. 0 \in Same
  <2> SUFFICES ASSUME NEW S \in SUBSET R, Cardinality(S) = 0 PROVE total[S] = g[S]
    OBVIOUS
  <2>1. S = {}
    BY <1>1, FS_EmptySet
  <2> QED BY <2>1
<1>3. ASSUME NEW n \in Nat, n \in Same PROVE n + 1 \in Same
  <2>1. ASSUME NEW S \in SUBSET R, Cardinality(S) = n + 1 PROVE total[S] = g[S]
    <3>1. S # {}
      <4>1. n + 1 # 0
        BY ONLY n \in Nat
      <4> QED BY <2>1, <4>1, FS_EmptySet, Zenon
    <3>2. PICK i \in S : i = CHOOSE j \in S : TRUE
      BY <3>1
    <3>3. Cardinality(S \ {i}) = n /\ S \ {i} \in SUBSET R
      <4>1. IsFiniteSet(S)
        BY <1>1
      <4>2. Cardinality(S \ {i}) = Cardinality(S) - 1
        BY ONLY <4>1, FS_RemoveElement, i \in S
      <4>3. Cardinality(S \ {i}) = n
        BY ONLY <2>1, <4>2, n \in Nat
      <4> QED BY <4>3
    <3>4. total[S \ {i}] = g[S \ {i}]
      BY <1>3, <3>3
    <3>5. total[S] = size[i] + total[S \ {i}]
      BY <3>1, <3>2
    <3> QED BY <3>4, <3>5
  <2>2. n + 1 \in Nat
    OBVIOUS
  <2> QED BY <2>1, <2>2, Zenon
<1>4. Nat \subseteq Same
  <2> HIDE DEF Same
  <2> QED BY <1>2, <1>3, NatSetInduction
<1> QED BY <1>1, <1>4
=============================================================================
