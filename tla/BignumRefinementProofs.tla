----------------------- MODULE BignumRefinementProofs -----------------------
(***************************************************************************)
(* Bignum implements IntegerRegisters, and its comparisons are those of    *)
(* the integers.                                                           *)
(***************************************************************************)
EXTENDS BignumProofs, BignumRefinement, Induction

(***************************************************************************)
(* The recursive functions of BignumRefinement exist: they are powers and  *)
(* partial sums.                                                           *)
(***************************************************************************)
\* A function with the recurrence of PowersOfBase exists, and has integer
\* values.
LEMMA PowersOfBaseOK == Powers(PowersOfBase)
<1> DEFINE step == [x \in Nat \X Int |-> Base * x[2]]
<1>1. Base \in Int /\ MaxWords \in Nat
  BY BignumConstants DEF BignumConstants
<1>2. \A n \in Nat, x \in Int : step[<<n, x>>] \in Int
  BY <1>1
<1>3. PICK f : IsRecursion(f, Int, 1, step)
  <2> HIDE DEF step
  <2>1. 1 \in Int
    OBVIOUS
  <2> QED BY <1>2, <2>1, NatRecursion
<1>4. f[0] = 1 /\ \A n \in Nat : f[n] \in Int /\ f[n + 1] = Base * f[n]
  BY <1>3 DEF IsRecursion
<1> HIDE DEF step
<1> DEFINE g == [k \in 0..MaxWords |-> f[k]]
<1>5. g = [k \in 0..MaxWords |-> IF k = 0 THEN 1 ELSE Base * g[k - 1]]
  <2>1. \A k \in 0..MaxWords : g[k] = IF k = 0 THEN 1 ELSE Base * g[k - 1]
    <3> SUFFICES ASSUME NEW k \in 0..MaxWords, k # 0 PROVE g[k] = Base * g[k - 1]
      BY <1>4
    <3>1. k - 1 \in Nat /\ k - 1 \in 0..MaxWords /\ (k - 1) + 1 = k
      BY <1>1
    <3> QED BY <1>4, <3>1
  <2> QED BY <2>1
<1>6. PowersOfBase = [k \in 0..MaxWords |-> IF k = 0 THEN 1 ELSE Base * PowersOfBase[k - 1]]
  <2> HIDE DEF g
  <2> QED BY <1>5 DEF PowersOfBase
<1> DEFINE E == {k \in Nat : k <= MaxWords => PowersOfBase[k] = f[k]}
<1>7. Nat \subseteq E
  <2>1. 0 \in E
    BY <1>1, <1>4, <1>6
  <2>2. ASSUME NEW k \in Nat, k \in E PROVE k + 1 \in E
    <3> SUFFICES ASSUME k + 1 <= MaxWords PROVE PowersOfBase[k + 1] = f[k + 1]
      OBVIOUS
    <3>1. k + 1 \in 0..MaxWords /\ k + 1 # 0 /\ (k + 1) - 1 = k /\ k <= MaxWords
      BY <1>1
    <3>2. PowersOfBase[k + 1] = Base * PowersOfBase[k]
      BY <1>6, <3>1
    <3> QED BY <1>4, <2>2, <3>1, <3>2
  <2> HIDE DEF E
  <2> QED BY <2>1, <2>2, NatSetInduction
<1>8. PowersOfBase \in [0..MaxWords -> Int]
  <2>1. \A k \in 0..MaxWords : PowersOfBase[k] = f[k]
    BY <1>1, <1>7
  <2>2. PowersOfBase = [k \in 0..MaxWords |-> PowersOfBase[k]]
    BY <1>6
  <2> QED BY <1>4, <2>1, <2>2
<1>9. \A k \in Index : PowersOfBase[k + 1] = Base * PowersOfBase[k]
  <2> SUFFICES ASSUME NEW k \in Index PROVE PowersOfBase[k + 1] = Base * PowersOfBase[k]
    OBVIOUS
  <2>1. k + 1 \in 0..MaxWords /\ k + 1 # 0 /\ (k + 1) - 1 = k
    BY <1>1 DEF Index
  <2> QED BY <1>6, <2>1
<1>10. PowersOfBase[0] = 1
  BY <1>1, <1>6
<1> QED BY <1>8, <1>9, <1>10 DEF Powers

\* The same for the sums of words.
LEMMA SumsOfOK ==
    ASSUME NEW w \in [Index -> Int]
    PROVE  \A n \in 0..MaxWords : PartialSums(SumsOf(w), w, n, PowersOfBase)
<1> DEFINE weight(k) == IF k \in Index THEN w[k] * PowersOfBase[k] ELSE 0
           step == [x \in Nat \X Int |-> x[2] + weight(x[1])]
<1>1. MaxWords \in Nat
  BY BignumConstants DEF BignumConstants
<1>2. \A k \in Nat : weight(k) \in Int
  <2> SUFFICES ASSUME NEW k \in Index PROVE w[k] * PowersOfBase[k] \in Int
    OBVIOUS
  <2>1. k \in 0..MaxWords
    BY <1>1 DEF Index
  <2> QED BY <2>1, PowersOfBaseOK DEF Powers
<1>3. \A n \in Nat, x \in Int : step[<<n, x>>] \in Int
  <2> HIDE DEF weight
  <2> QED BY <1>2
<1>4. PICK f : IsRecursion(f, Int, 0, step)
  <2> HIDE DEF step
  <2>1. 0 \in Int
    OBVIOUS
  <2> QED BY <1>3, <2>1, NatRecursion
<1>4a. f[0] = 0 /\ \A n \in Nat : f[n] \in Int
  BY <1>4 DEF IsRecursion
<1>5. \A n \in Index : f[n + 1] = f[n] + w[n] * PowersOfBase[n]
  <2> SUFFICES ASSUME NEW n \in Index PROVE f[n + 1] = f[n] + w[n] * PowersOfBase[n]
    OBVIOUS
  <2>1. n \in Nat /\ f[n] \in Int
    BY <1>1, <1>4a DEF Index
  <2>2. f[n + 1] = f[n] + weight(n)
    <3> HIDE DEF weight
    <3> QED BY <1>4, <2>1 DEF IsRecursion
  <2> QED BY <2>2
<1> HIDE DEF step, weight
<1> DEFINE g == [k \in 0..MaxWords |-> f[k]]
           Sums(h) == [n \in 0..MaxWords |->
                         IF n = 0 THEN 0 ELSE h[n - 1] + w[n - 1] * PowersOfBase[n - 1]]
<1>6. g = Sums(g)
  <2>1. \A k \in 0..MaxWords : g[k] = IF k = 0 THEN 0 ELSE g[k - 1] + w[k - 1] * PowersOfBase[k - 1]
    <3> SUFFICES ASSUME NEW k \in 0..MaxWords, k # 0
                 PROVE  g[k] = g[k - 1] + w[k - 1] * PowersOfBase[k - 1]
      BY <1>4a
    <3>1. k - 1 \in Index /\ k - 1 \in 0..MaxWords /\ (k - 1) + 1 = k
      BY <1>1 DEF Index
    <3> QED BY <1>5, <3>1
  <2> QED BY <2>1
<1>7. SumsOf(w) = Sums(SumsOf(w))
  <2> HIDE DEF g
  <2> QED BY <1>6 DEF SumsOf
<1> DEFINE F == SumsOf(w)
<1> HIDE DEF F
<1>8. /\ F[0] = 0
      /\ \A k \in Index : F[k + 1] = F[k] + w[k] * PowersOfBase[k]
      /\ F = [n \in 0..MaxWords |-> F[n]]
  <2>1. F = Sums(F)
    BY <1>7 DEF F
  <2>2. ASSUME NEW k \in Index PROVE F[k + 1] = F[k] + w[k] * PowersOfBase[k]
    <3>1. k + 1 \in 0..MaxWords /\ k + 1 # 0 /\ (k + 1) - 1 = k
      BY <1>1 DEF Index
    <3> QED BY <2>1, <3>1
  <2>3. F[0] = 0
    BY <1>1, <2>1
  <2>4. F = [n \in 0..MaxWords |-> F[n]]
    BY <2>1
  <2> QED BY <2>2, <2>3, <2>4
<1> DEFINE E == {k \in Nat : k <= MaxWords => F[k] = f[k]}
<1>9. Nat \subseteq E
  <2>1. 0 \in E
    BY <1>4a, <1>8
  <2>2. ASSUME NEW k \in Nat, k \in E PROVE k + 1 \in E
    <3> SUFFICES ASSUME k + 1 <= MaxWords PROVE F[k + 1] = f[k + 1]
      OBVIOUS
    <3>1. k \in Index /\ k <= MaxWords
      BY <1>1 DEF Index
    <3> QED BY <1>5, <1>8, <2>2, <3>1
  <2> HIDE DEF E
  <2> QED BY <2>1, <2>2, NatSetInduction
<1>10. F \in [0..MaxWords -> Int]
  <2>1. \A k \in 0..MaxWords : F[k] \in Int
    BY <1>1, <1>4a, <1>9
  <2> QED BY <1>8, <2>1
<1>11. ASSUME NEW n \in 0..MaxWords, NEW k \in 0..(n - 1) PROVE k \in Index
  BY <1>1 DEF Index
<1> QED BY <1>8, <1>10, <1>11 DEF PartialSums, F

\* The sums of the words of an integer, and of the words of a result.
LEMMA ValueSums ==
    ASSUME NEW v \in Value
    PROVE  PartialSums(SumsOf(v.words), v.words, v.len, PowersOfBase)
<1>1. v.words \in [Index -> Int]
  BY WordFacts DEF Value
<1>2. v.len \in 0..MaxWords
  BY ValueFacts, IndexFacts
<1> QED BY <1>1, <1>2, SumsOfOK

LEMMA ResultSums ==
    ASSUME TypeOK
    PROVE  PartialSums(SumsOf(z), z, Summed, PowersOfBase)
<1>1. z \in [Index -> Int]
  BY WordFacts DEF TypeOK
<1>2. Summed \in 0..MaxWords
  BY IndexFacts DEF TypeOK, Summed, Index
<1> QED BY <1>1, <1>2, SumsOfOK

\* The loops of bignum_add keep the sum: the instance of SumInv for the
\* functions that the run checks.
THEOREM SumKeptHolds == Spec => []SumKept
<1>1. IInv /\ SumInv => SumKept
  <2> SUFFICES ASSUME IInv, SumInv PROVE SumKept
    OBVIOUS
  <2>1. TypeOK /\ a \in Value /\ b \in Value
    BY DEF IInv, TypeOK
  <2> QED BY <2>1, ValueSums, ResultSums, PowersOfBaseOK DEF SumInv, SumKept
<1> QED BY <1>1, BignumInvariant, SumInvariant, PTL

-----------------------------------------------------------------------------
(***************************************************************************)
(* The integer that words denote.                                          *)
(***************************************************************************)
\* Words that agree from m on contribute the same from there on.
LEMMA SumsDiffer ==
    ASSUME NEW p, Powers(p), NEW n \in 0..MaxWords, NEW m \in 0..n, NEW f, NEW g, NEW v, NEW w,
           PartialSums(f, v, n, p), PartialSums(g, w, n, p), \A k \in m..(n - 1) : v[k] = w[k],
           \A k \in 0..(n - 1) : v[k] \in Int /\ w[k] \in Int
    PROVE  f[n] - g[n] = f[m] - g[m]
<1> DEFINE E == {k \in Nat : m + k <= n => f[m + k] - g[m + k] = f[m] - g[m]}
<1>1. MaxWords \in Nat /\ m \in Nat /\ n \in Nat
  BY IndexFacts
<1>2. 0 \in E
  BY <1>1
<1>3. ASSUME NEW k \in Nat, k \in E PROVE k + 1 \in E
  <2> SUFFICES ASSUME m + (k + 1) <= n PROVE f[m + (k + 1)] - g[m + (k + 1)] = f[m] - g[m]
    OBVIOUS
  <2> DEFINE j == m + k
  <2>1. /\ j \in m..(n - 1) /\ j \in 0..(n - 1) /\ j \in 0..MaxWords /\ m \in 0..MaxWords
        /\ m + (k + 1) = j + 1
    BY <1>1
  <2>2. f[j] - g[j] = f[m] - g[m]
    BY <1>1, <1>3
  <2> HIDE DEF j
  <2>3. f[j + 1] = f[j] + v[j] * p[j] /\ g[j + 1] = g[j] + w[j] * p[j] /\ v[j] = w[j]
    BY <2>1 DEF PartialSums
  <2>4. f[j] \in Int /\ g[j] \in Int /\ p[j] \in Int /\ v[j] \in Int
    BY <2>1 DEF PartialSums, Powers
  <2>5. v[j] * p[j] \in Int
    BY <2>4
  <2> QED BY <2>1, <2>2, <2>3, <2>4, <2>5
<1>4. Nat \subseteq E
  <2> HIDE DEF E
  <2> QED BY <1>2, <1>3, NatSetInduction
<1>5. n - m \in Nat /\ m + (n - m) = n
  BY <1>1
<1> QED BY <1>4, <1>5

LEMMA ProductMonotone ==
    ASSUME NEW m \in Int, NEW n \in Int, NEW d \in Int, m <= n, 0 <= d
    PROVE  m * d <= n * d /\ m * d \in Int /\ n * d \in Int
<1>1. (n - m) * d >= 0
  OBVIOUS
<1>2. (n - m) * d = n * d - m * d
  OBVIOUS
<1> QED BY <1>1, <1>2

\* Powers are positive and grow.
LEMMA PowersGrow ==
    ASSUME NEW p, Powers(p)
    PROVE  /\ \A k \in 0..MaxWords : p[k] \in Int /\ p[k] > 0
           /\ \A k \in 0..MaxWords : \A m \in 0..k : p[m] <= p[k]
<1>1. MaxWords \in Nat /\ Base \in Nat /\ Base > 1
  BY IndexFacts, WordFacts
<1>2. p[0] = 1 /\ \A k \in 0..MaxWords : p[k] \in Int
  BY DEF Powers
<1>3. ASSUME NEW k \in Index PROVE p[k + 1] = Base * p[k] /\ k \in 0..MaxWords
  BY <1>1 DEF Powers, Index
<1> DEFINE E == {k \in Nat : k <= MaxWords => p[k] > 0 /\ \A m \in 0..k : p[m] <= p[k]}
<1>4. 0 \in E
  BY <1>2
<1>5. ASSUME NEW k \in Nat, k \in E PROVE k + 1 \in E
  <2> SUFFICES ASSUME k + 1 <= MaxWords
               PROVE  p[k + 1] > 0 /\ \A m \in 0..(k + 1) : p[m] <= p[k + 1]
    OBVIOUS
  <2>1. k \in Index /\ p[k] > 0 /\ p[k] \in Int /\ p[k + 1] = Base * p[k]
    BY <1>1, <1>2, <1>3, <1>5 DEF Index
  <2>2. p[k] <= Base * p[k]
    <3>1. 1 * p[k] <= Base * p[k]
      BY <1>1, <2>1, ProductMonotone
    <3> QED BY <2>1, <3>1
  <2>3. p[k] <= p[k + 1] /\ p[k + 1] > 0
    <3> DEFINE d == p[k]
               e == p[k + 1]
    <3>1. d \in Int /\ d > 0 /\ e = Base * d /\ d <= Base * d /\ Base * d \in Int
      BY <1>1, <2>1, <2>2
    <3> QED BY <3>1
  <2>4. ASSUME NEW m \in 0..(k + 1) PROVE p[m] <= p[k + 1]
    <3>1. m = k + 1 \/ m \in 0..k
      OBVIOUS
    <3>2. p[m] \in Int /\ p[k + 1] \in Int
      BY <1>1, <1>2
    <3> QED BY <1>1, <1>5, <2>1, <2>3, <3>1, <3>2
  <2> QED BY <2>3, <2>4
<1>6. Nat \subseteq E
  <2> HIDE DEF E
  <2> QED BY <1>4, <1>5, NatSetInduction
<1> QED BY <1>1, <1>2, <1>6

\* The words below n are worth less than one unit of word n.
LEMMA SumsBounded ==
    ASSUME NEW p, Powers(p), NEW n \in 0..MaxWords, NEW f, NEW w, PartialSums(f, w, n, p),
           \A k \in 0..(n - 1) : w[k] \in Word
    PROVE  \A k \in 0..n : f[k] \in Int /\ 0 <= f[k] /\ f[k] < p[k]
<1>1. MaxWords \in Nat /\ Base \in Nat /\ Base > 1
  BY IndexFacts, WordFacts
<1>2. \A k \in 0..n : f[k] \in Int /\ p[k] \in Int /\ p[k] > 0
  BY <1>1, PowersGrow DEF PartialSums
<1> DEFINE E == {k \in Nat : k <= n => 0 <= f[k] /\ f[k] < p[k]}
<1>3. 0 \in E
  BY DEF PartialSums, Powers
<1>4. ASSUME NEW k \in Nat, k \in E PROVE k + 1 \in E
  <2> SUFFICES ASSUME k + 1 <= n PROVE 0 <= f[k + 1] /\ f[k + 1] < p[k + 1]
    OBVIOUS
  <2>1. /\ f[k] \in Int /\ p[k] \in Int /\ p[k] > 0 /\ 0 <= f[k] /\ f[k] < p[k]
        /\ f[k + 1] = f[k] + w[k] * p[k] /\ p[k + 1] = Base * p[k] /\ w[k] \in Word
    BY <1>1, <1>2, <1>4 DEF PartialSums, Powers, Index
  <2>2. w[k] \in Int /\ 0 <= w[k] /\ w[k] <= Base - 1
    BY <1>1, <2>1 DEF Word
  <2>3. /\ 0 * p[k] <= w[k] * p[k] /\ w[k] * p[k] <= (Base - 1) * p[k]
        /\ w[k] * p[k] \in Int /\ (Base - 1) * p[k] \in Int
    BY <1>1, <2>1, <2>2, ProductMonotone
  <2>4. (Base - 1) * p[k] = Base * p[k] - p[k] /\ 0 * p[k] = 0 /\ Base * p[k] \in Int
    BY <1>1, <2>1
  <2> QED BY <2>1, <2>3, <2>4
<1>5. Nat \subseteq E
  <2> HIDE DEF E
  <2> QED BY <1>3, <1>4, NatSetInduction
<1> QED BY <1>2, <1>5

\* A word has an even number of values.
LEMMA HalfBase == \E half \in Nat : half > 0 /\ Base = 2 * half
<1>1. PICK q \in Nat : q > 0 /\ Base = 16 * q
  BY BaseFacts
<1> QED BY <1>1

\* What a word is as a signed one.
LEMMA SignedFacts ==
    ASSUME NEW half \in Nat, half > 0, Base = 2 * half, NEW w \in Word
    PROVE  /\ w \in Nat /\ w < Base
           /\ Sign(w) \in {0, 1}
           /\ Sign(w) = 1 <=> w >= half
           /\ SignedWord(w) = w - Base * Sign(w)
           /\ SignedWord(w) = IF w >= half THEN w - Base ELSE w
           /\ SignedWord(w) \in Int /\ -half <= SignedWord(w) /\ SignedWord(w) < half
           /\ SignedWord(w) < 0 <=> Sign(w) = 1
           /\ WORD_IS_NEGATIVE(w) <=> w >= half
<1>1. Base \div 2 = half /\ w \in Nat /\ w < Base
  BY DEF Word
<1>2. CASE w >= half
  <2>1. Sign(w) = 1 /\ SignedWord(w) = w - Base
    BY <1>1, <1>2 DEF Sign, SignedWord, WORD_IS_NEGATIVE
  <2> QED BY <1>1, <1>2, <2>1 DEF WORD_IS_NEGATIVE
<1>3. CASE w < half
  <2>1. Sign(w) = 0 /\ SignedWord(w) = w
    BY <1>1, <1>3 DEF Sign, SignedWord, WORD_IS_NEGATIVE
  <2> QED BY <1>1, <1>3, <2>1 DEF WORD_IS_NEGATIVE
<1> QED BY <1>1, <1>2, <1>3

\* The top word of an integer counts as a signed one.
LEMMA DenotedFromTop ==
    ASSUME NEW p, Powers(p), NEW w, NEW n \in 1..MaxWords, NEW f, PartialSums(f, w, n, p),
           w[n - 1] \in Word
    PROVE  /\ f[n - 1] \in Int /\ p[n - 1] \in Int /\ SignedWord(w[n - 1]) \in Int
           /\ Denoted(w, n, f, p) = f[n - 1] + SignedWord(w[n - 1]) * p[n - 1]
<1>1. MaxWords \in Nat /\ n - 1 \in Index /\ n - 1 \in 0..(n - 1) /\ n - 1 \in 0..MaxWords
      /\ (n - 1) + 1 = n
  BY IndexFacts DEF Index
<1> DEFINE k == n - 1
           s == Sign(w[k])
           d == p[k]
<1>2. /\ f[n] = f[k] + w[k] * d /\ p[n] = Base * d
      /\ f[k] \in Int /\ d \in Int
  BY <1>1 DEF PartialSums, Powers
<1>3. /\ w[k] \in Int /\ s \in Int /\ Base \in Int /\ SignedWord(w[k]) = w[k] - Base * s
      /\ SignedWord(w[k]) \in Int
  <2>1. PICK half \in Nat : half > 0 /\ Base = 2 * half
    BY HalfBase
  <2>2. w[k] \in Word
    OBVIOUS
  <2> HIDE DEF k
  <2> QED BY <2>1, <2>2, SignedFacts
<1>4. Denoted(w, n, f, p) = f[n] - s * p[n]
  BY DEF Denoted
<1> HIDE DEF k, s, d
<1>5. (w[k] - Base * s) * d = w[k] * d - s * (Base * d)
  BY <1>2, <1>3
<1>6. w[k] * d \in Int /\ s * (Base * d) \in Int
  BY <1>2, <1>3
<1> QED BY <1>2, <1>3, <1>4, <1>5, <1>6 DEF k, d

\* How large the integer is that canonical words denote, by their number.
LEMMA Magnitude ==
    ASSUME NEW v \in Value, NEW p, Powers(p), NEW f, PartialSums(f, v.words, v.len, p),
           NEW half \in Nat, half > 0, Base = 2 * half
    PROVE  /\ DenotedBy(v, f, p) \in Int
           /\ -(half * p[v.len - 1]) <= DenotedBy(v, f, p)
           /\ DenotedBy(v, f, p) < half * p[v.len - 1]
           /\ DenotedBy(v, f, p) < 0 <=> WORD_IS_NEGATIVE(TopWord(v))
           /\ v.len = 1 => DenotedBy(v, f, p) = INT(v)
           /\ Canonical(v) /\ v.len > 1 =>
                 IF WORD_IS_NEGATIVE(TopWord(v)) THEN DenotedBy(v, f, p) < -(half * p[v.len - 2])
                                                 ELSE half * p[v.len - 2] <= DenotedBy(v, f, p)
<1> DEFINE n == v.len
           k == n - 1
           x == DenotedBy(v, f, p)
           t == SignedWord(TopWord(v))
           d == p[k]
<1>1. /\ MaxWords \in Nat /\ n \in 1..MaxWords /\ n \in Nat /\ n >= 1 /\ n \in 0..MaxWords
      /\ k \in 0..n /\ k \in 0..MaxWords /\ k \in 0..(n - 1)
      /\ TopWord(v) \in Word /\ TopWord(v) = v.words[k]
      /\ \A j \in 0..(n - 1) : v.words[j] \in Word
  BY ValueFacts, IndexFacts DEF TopWord, Index
<1>2. f[k] \in Int /\ 0 <= f[k] /\ f[k] < d /\ d \in Int /\ d > 0
  BY <1>1, SumsBounded, PowersGrow
<1>3. x = f[k] + t * d
  BY <1>1, DenotedFromTop DEF DenotedBy
<1>4. t \in Int /\ -half <= t /\ t < half /\ (t < 0 <=> WORD_IS_NEGATIVE(TopWord(v)))
  BY <1>1, SignedFacts
<1>5. /\ (-half) * d <= t * d /\ t * d <= (half - 1) * d
      /\ (-half) * d = -(half * d) /\ (half - 1) * d = half * d - d
      /\ t * d \in Int /\ half * d \in Int
  BY <1>2, <1>4, ProductMonotone
<1>6. x \in Int /\ -(half * d) <= x /\ x < half * d
  <2> HIDE DEF x, t, d, k
  <2> QED BY <1>2, <1>3, <1>5
<1>7. x < 0 <=> t < 0
  <2>1. CASE t < 0
    <3>1. t * d <= (-1) * d /\ (-1) * d = -d
      BY <1>2, <1>4, <2>1, ProductMonotone
    <3> QED BY <1>2, <1>3, <1>5, <2>1, <3>1
  <2>2. CASE t >= 0
    <3>1. 0 * d <= t * d /\ 0 * d = 0
      BY <1>2, <1>4, <2>2, ProductMonotone
    <3> QED BY <1>2, <1>3, <1>4, <1>5, <2>2, <3>1
  <2> QED BY <1>4, <2>1, <2>2
<1>8. ASSUME n = 1 PROVE x = INT(v)
  <2>1. k = 0 /\ d = 1 /\ f[k] = 0 /\ INT(v) = t
    BY <1>1, <1>8 DEF Powers, PartialSums, INT
  <2> QED BY <1>3, <1>4, <2>1
<1>9. ASSUME Canonical(v), n > 1
      PROVE  IF t < 0 THEN x < -(half * p[n - 2]) ELSE half * p[n - 2] <= x
  <2> DEFINE j == n - 2
             e == p[j]
             u == v.words[j]
  <2>1. j \in Index /\ j \in 0..n /\ j \in 0..MaxWords /\ j \in 0..(n - 1) /\ j + 1 = k
    BY <1>1, <1>9 DEF Index
  <2>2. /\ f[j] \in Int /\ 0 <= f[j] /\ f[j] < e /\ e \in Int /\ e > 0 /\ d = Base * e
        /\ f[k] = f[j] + u * e /\ u \in Word
    BY <1>1, <2>1, SumsBounded, PowersGrow DEF Powers, PartialSums
  <2>3. u \in Int /\ 0 <= u /\ u < Base /\ Base \in Int /\ (Sign(u) = 1 <=> u >= half)
        /\ Sign(u) \in {0, 1}
    <3> HIDE DEF u
    <3> QED BY <2>2, SignedFacts
  <2>3a. p[n - 2] = e /\ p[v.len - 2] = e
    OBVIOUS
  <2>4. TopWord(v) # SignExtension(Sign(u))
    BY <1>9 DEF Canonical
  <2>5. ~ (t = 0 /\ u < half) /\ ~ (t = -1 /\ u >= half)
    <3>1. TopWord(v) \in Nat /\ TopWord(v) < Base /\ t = TopWord(v) - Base * Sign(TopWord(v))
          /\ Sign(TopWord(v)) \in {0, 1} /\ (t < 0 <=> Sign(TopWord(v)) = 1)
          /\ SignExtension(1) = Base - 1 /\ SignExtension(0) = 0
      BY <1>1, SignedFacts DEF SignExtension
    <3> QED BY <2>3, <2>4, <3>1
  <2> HIDE DEF x, t, d, k, j, e, u
  <2>6. /\ half * e \in Int /\ u * e \in Int /\ Base * e = half * e + half * e
        /\ half * e > 0
    BY <2>2, <2>3
  <2>7. CASE t >= 1
    <3>1. 1 * d <= t * d /\ 1 * d = d
      BY <1>2, <1>4, <2>7, ProductMonotone
    <3>2. d <= x
      BY <1>2, <1>3, <1>5, <3>1
    <3>3. half * e <= x
      BY <1>2, <1>6, <2>2, <2>6, <3>2
    <3> QED BY <1>4, <2>7, <2>3a, <3>3
  <2>8. CASE t = 0
    <3>1. half * e <= u * e
      BY <2>2, <2>3, <2>5, <2>8, ProductMonotone
    <3>2. 0 * d = 0
      BY <1>2
    <3> QED BY <1>2, <1>3, <2>2, <2>6, <2>8, <2>3a, <3>1, <3>2
  <2>9. CASE t = -1
    <3>1. u * e <= (half - 1) * e /\ (half - 1) * e = half * e - e
      BY <2>2, <2>3, <2>5, <2>9, ProductMonotone
    <3>2. (-1) * d = -d
      BY <1>2
    <3> QED BY <1>2, <1>3, <2>2, <2>6, <2>9, <2>3a, <3>1, <3>2
  <2>10. CASE t <= -2
    <3>1. t * d <= (-2) * d /\ (-2) * d = -(d + d)
      BY <1>2, <1>4, <2>10, ProductMonotone
    <3>2. x < -d
      BY <1>2, <1>3, <1>5, <3>1
    <3>3. x < -(half * e)
      BY <1>2, <1>6, <2>2, <2>6, <3>2
    <3> QED BY <1>4, <2>10, <2>3a, <3>3
  <2> QED BY <1>4, <2>7, <2>8, <2>9, <2>10
<1> QED BY <1>4, <1>6, <1>7, <1>8, <1>9

-----------------------------------------------------------------------------
(***************************************************************************)
(* Comparison.                                                             *)
(***************************************************************************)
\* The integers in a register, by their sums and powers.
LEMMA RegisterFacts ==
    ASSUME NEW v \in Value
    PROVE  /\ Powers(PowersOfBase) /\ PartialSums(SumsOf(v.words), v.words, v.len, PowersOfBase)
           /\ IntegerOf(v) = DenotedBy(v, SumsOf(v.words), PowersOfBase)
           /\ IntegerOf(v) \in Int
<1>1. PICK half \in Nat : half > 0 /\ Base = 2 * half
  BY HalfBase
<1>2. Powers(PowersOfBase) /\ PartialSums(SumsOf(v.words), v.words, v.len, PowersOfBase)
  BY PowersOfBaseOK, ValueSums
<1>3. DenotedBy(v, SumsOf(v.words), PowersOfBase) \in Int
  BY <1>1, <1>2, Magnitude
<1> QED BY <1>2, <1>3 DEF IntegerOf

\* The first digits that differ decide, whatever is below them.
LEMMA LeadingDigits ==
    ASSUME NEW d \in Int, NEW x \in Int, NEW y \in Int, NEW u \in Int, NEW t \in Int,
           0 <= x, x < d, 0 <= y, y < d, u # t
    PROVE  /\ x + u * d # y + t * d
           /\ x + u * d < y + t * d <=> u < t
<1>1. u * d \in Int /\ t * d \in Int
  OBVIOUS
<1>2. CASE u < t
  <2>1. (u + 1) * d <= t * d /\ (u + 1) * d = u * d + d
    BY <1>2, ProductMonotone
  <2> QED BY <1>1, <1>2, <2>1
<1>3. CASE t < u
  <2>1. (t + 1) * d <= u * d /\ (t + 1) * d = t * d + d
    BY <1>3, ProductMonotone
  <2> QED BY <1>1, <1>3, <2>1
<1> QED BY <1>2, <1>3

\* The words of integers of the same length differ at a highest place.
LEMMA HighestExists ==
    ASSUME NEW v \in Value, NEW w \in Value, Differ(v, w) # {}
    PROVE  /\ HighestDiffering(v, w) \in Differ(v, w)
           /\ \A j \in Differ(v, w) : j <= HighestDiffering(v, w)
<1> DEFINE D == Differ(v, w)
           T == {n \in Nat : v.len - n \in D}
<1>1. v.len \in Nat /\ \A k \in D : k \in Nat /\ k < v.len
  BY ValueFacts DEF Differ
<1>2. T # {} /\ T \subseteq Nat
  <2>1. PICK k \in D : TRUE
    OBVIOUS
  <2>2. v.len - k \in Nat /\ v.len - (v.len - k) = k
    BY <1>1
  <2> QED BY <2>1, <2>2
<1>3. PICK m \in T : \A n \in T : m <= n
  <2> HIDE DEF T
  <2> QED BY <1>2, LeastNat
<1>4. ASSUME NEW j \in D PROVE j <= v.len - m
  <2>1. v.len - j \in Nat /\ v.len - (v.len - j) = j /\ j \in Nat
    BY <1>1
  <2>2. v.len - j \in T
    BY <2>1
  <2> QED BY <1>1, <1>3, <2>1, <2>2
<1>5. v.len - m \in D
  BY <1>3
<1> HIDE DEF D, T
<1> QED BY <1>4, <1>5 DEF HighestDiffering, D

\* Integers of the same length.
LEMMA SameLength ==
    ASSUME NEW v \in Value, NEW w \in Value, v.len = w.len
    PROVE  /\ Differ(v, w) = {} <=> IntegerOf(v) = IntegerOf(w)
           /\ CmpSameLen(v, w) = "LT" <=> IntegerOf(v) < IntegerOf(w)
           /\ CmpSameLen(v, w) = "EQ" <=> IntegerOf(v) = IntegerOf(w)
<1> DEFINE p == PowersOfBase
           f == SumsOf(v.words)
           g == SumsOf(w.words)
           n == v.len
           x == IntegerOf(v)
           y == IntegerOf(w)
<1>1. /\ Powers(p) /\ PartialSums(f, v.words, n, p) /\ PartialSums(g, w.words, n, p)
      /\ x = Denoted(v.words, n, f, p) /\ y = Denoted(w.words, n, g, p)
      /\ x \in Int /\ y \in Int
  BY RegisterFacts DEF DenotedBy
<1> HIDE DEF f, g, p, x, y
<1>2. /\ n \in 1..MaxWords /\ n \in Nat /\ MaxWords \in Nat /\ n \in 0..MaxWords /\ n - 1 \in 0..n
      /\ n - 1 \in 0..(n - 1) /\ n - 1 \in 0..MaxWords /\ 0 \in 0..(n - 1)
      /\ \A k \in 0..((n - 1) - 1) : k \in 0..(n - 1)
      /\ \A k \in 0..(n - 1) : k \in Index /\ k \in 0..MaxWords /\ k + 1 \in 0..MaxWords
      /\ \A k \in 0..(n - 1) : /\ v.words[k] \in Word /\ w.words[k] \in Word
                               /\ v.words[k] \in Int /\ w.words[k] \in Int
  <2>1. n \in Nat /\ n >= 1 /\ n <= MaxWords /\ MaxWords \in Nat
    BY ValueFacts, IndexFacts
  <2>2. \A k \in 0..(n - 1) : k \in Index
    BY <2>1 DEF Index
  <2>3. ASSUME NEW k \in 0..(n - 1)
        PROVE  v.words[k] \in Word /\ w.words[k] \in Word /\ v.words[k] \in Int /\ w.words[k] \in Int
    <3>1. v.words[k] \in Word /\ w.words[k] \in Word
      BY <2>2, ValueFacts
    <3> QED BY <3>1, WordFacts
  <2> QED BY <2>1, <2>2, <2>3
<1>3. PICK half \in Nat : half > 0 /\ Base = 2 * half
  BY HalfBase
<1>4. /\ x = f[n - 1] + SignedWord(v.words[n - 1]) * p[n - 1]
      /\ y = g[n - 1] + SignedWord(w.words[n - 1]) * p[n - 1]
      /\ SignedWord(v.words[n - 1]) \in Int /\ SignedWord(w.words[n - 1]) \in Int
      /\ f[n - 1] \in Int /\ g[n - 1] \in Int /\ p[n - 1] \in Int
  BY <1>1, <1>2, DenotedFromTop
<1>5. \A k \in 0..n : /\ f[k] \in Int /\ 0 <= f[k] /\ f[k] < p[k]
                      /\ g[k] \in Int /\ 0 <= g[k] /\ g[k] < p[k] /\ p[k] \in Int
  BY <1>1, <1>2, SumsBounded, PowersGrow
<1>6. CASE Differ(v, w) = {}
  <2>1. \A k \in 0..(n - 1) : v.words[k] = w.words[k]
    BY <1>6 DEF Differ
  <2>2. /\ PartialSums(f, v.words, n - 1, p) /\ PartialSums(g, w.words, n - 1, p)
        /\ f[0] = 0 /\ g[0] = 0
    BY <1>1, <1>2 DEF PartialSums
  <2>3. f[n - 1] - g[n - 1] = f[0] - g[0]
    <3>1. 0 \in 0..(n - 1) /\ \A k \in 0..((n - 1) - 1) : k \in 0..(n - 1)
      BY <1>2
    <3> QED BY <1>1, <1>2, <2>1, <2>2, <3>1, SumsDiffer
  <2>4. x = y
    BY <1>2, <1>4, <2>1, <2>2, <2>3
  <2> QED BY <1>1, <1>6, <2>4 DEF CmpSameLen, x, y
<1>7. CASE Differ(v, w) # {}
  <2> DEFINE k == HighestDiffering(v, w)
             Read(c) == IF k = n - 1 THEN SignedWord(c) ELSE c
  <2>1. k \in 0..(n - 1) /\ v.words[k] # w.words[k] /\ \A j \in Differ(v, w) : j <= k
    BY <1>7, HighestExists DEF Differ
  <2>2. \A j \in (k + 1)..(n - 1) : v.words[j] = w.words[j]
    BY <1>2, <2>1 DEF Differ
  <2> HIDE DEF k
  <2>3. /\ Read(v.words[k]) \in Int /\ Read(w.words[k]) \in Int
        /\ Read(v.words[k]) # Read(w.words[k])
    <3>1. v.words[k] \in Word /\ w.words[k] \in Word
      BY <1>2, <2>1
    <3>2. SignedWord(v.words[k]) # SignedWord(w.words[k])
      BY <1>3, <2>1, <3>1, SignedFacts
    <3> QED BY <1>3, <2>1, <3>1, <3>2, SignedFacts
  <2>4. /\ f[k] \in Int /\ 0 <= f[k] /\ f[k] < p[k] /\ g[k] \in Int /\ 0 <= g[k] /\ g[k] < p[k]
        /\ p[k] \in Int
    BY <1>2, <1>5, <2>1
  <2>5. x # y /\ (x < y <=> Read(v.words[k]) < Read(w.words[k]))
    <3>1. CASE k = n - 1
      BY <1>4, <2>3, <2>4, <3>1, LeadingDigits
    <3>2. CASE k # n - 1
      <4>1. k + 1 \in 0..(n - 1) /\ k \in 0..(n - 1) /\ n - 1 \in (k + 1)..(n - 1)
        BY <1>2, <2>1, <3>2
      <4>2. PartialSums(f, v.words, n - 1, p) /\ PartialSums(g, w.words, n - 1, p)
        BY <1>1, <1>2 DEF PartialSums
      <4>3. f[n - 1] - g[n - 1] = f[k + 1] - g[k + 1]
        <5>1. /\ \A j \in 0..((n - 1) - 1) : j \in 0..(n - 1)
              /\ \A j \in (k + 1)..((n - 1) - 1) : v.words[j] = w.words[j]
          BY <1>2, <2>2
        <5> QED BY <1>1, <1>2, <4>1, <4>2, <5>1, SumsDiffer
      <4>4. x - y = f[k + 1] - g[k + 1]
        <5>1. SignedWord(v.words[n - 1]) = SignedWord(w.words[n - 1])
          BY <2>2, <4>1
        <5>2. SignedWord(w.words[n - 1]) * p[n - 1] \in Int
          BY <1>4
        <5> QED BY <1>4, <4>3, <5>1, <5>2
      <4>5. /\ f[k + 1] = f[k] + v.words[k] * p[k]
            /\ g[k + 1] = g[k] + w.words[k] * p[k]
        BY <1>1, <2>1 DEF PartialSums
      <4>6. v.words[k] \in Int /\ w.words[k] \in Int /\ f[k + 1] \in Int /\ g[k + 1] \in Int
        BY <1>2, <1>5, <2>1, <4>1
      <4>7. f[k + 1] # g[k + 1] /\ (f[k + 1] < g[k + 1] <=> v.words[k] < w.words[k])
        <5>1. PICK d \in Int, fk \in Int, gk \in Int, u \in Int, t \in Int :
                 d = p[k] /\ fk = f[k] /\ gk = g[k] /\ u = v.words[k] /\ t = w.words[k]
          BY <2>4, <4>6
        <5>2. 0 <= fk /\ fk < d /\ 0 <= gk /\ gk < d /\ u # t
          BY <2>1, <2>4, <5>1
        <5>3. fk + u * d # gk + t * d /\ (fk + u * d < gk + t * d <=> u < t)
          BY ONLY <5>2, LeadingDigits
        <5> QED BY <4>5, <5>1, <5>3
      <4> QED BY <1>1, <3>2, <4>4, <4>6, <4>7
    <3> QED BY <3>1, <3>2
  <2>6. CmpSameLen(v, w) = IF Read(v.words[k]) < Read(w.words[k]) THEN "LT" ELSE "GT"
    BY <1>7 DEF CmpSameLen, k
  <2> QED BY <1>1, <1>7, <2>5, <2>6 DEF x, y
<1> QED BY <1>6, <1>7

\* The longer one of two integers is farther from zero.
LEMMA LongerIsFarther ==
    ASSUME NEW v \in Value, NEW w \in Value, Canonical(w), v.len < w.len
    PROVE  IF WORD_IS_NEGATIVE(TopWord(w)) THEN IntegerOf(w) < IntegerOf(v)
                                           ELSE IntegerOf(v) < IntegerOf(w)
<1> DEFINE p == PowersOfBase
           x == IntegerOf(v)
           y == IntegerOf(w)
           j == v.len - 1
           k == w.len - 2
<1>1. PICK half \in Nat : half > 0 /\ Base = 2 * half
  BY HalfBase
<1>2. /\ Powers(p) /\ x \in Int /\ y \in Int
      /\ -(half * p[j]) <= x /\ x < half * p[j]
  BY <1>1, RegisterFacts, Magnitude
<1>3. w.len > 1 /\ k \in 0..MaxWords /\ j \in 0..k /\ j \in 0..MaxWords
  BY ValueFacts, IndexFacts
<1>4. IF WORD_IS_NEGATIVE(TopWord(w)) THEN y < -(half * p[k]) ELSE half * p[k] <= y
  BY <1>1, <1>3, RegisterFacts, Magnitude
<1> HIDE DEF p, x, y, j, k
<1>5. p[j] \in Int /\ p[k] \in Int /\ p[j] <= p[k]
  BY <1>2, <1>3, PowersGrow
<1>6. half * p[j] <= half * p[k] /\ half * p[j] \in Int /\ half * p[k] \in Int
  BY <1>5, ProductMonotone
<1>7. IF WORD_IS_NEGATIVE(TopWord(w)) THEN y < x ELSE x < y
  BY <1>2, <1>4, <1>6
<1> QED BY <1>7 DEF x, y

\* Integers of different lengths.
LEMMA OtherLength ==
    ASSUME NEW v \in Value, NEW w \in Value, Canonical(v), Canonical(w), v.len # w.len
    PROVE  /\ IntegerOf(v) # IntegerOf(w)
           /\ CmpOtherLen(v, w) \in {"LT", "GT"}
           /\ CmpOtherLen(v, w) = "LT" <=> IntegerOf(v) < IntegerOf(w)
<1> DEFINE x == IntegerOf(v)
           y == IntegerOf(w)
<1>1. PICK half \in Nat : half > 0 /\ Base = 2 * half
  BY HalfBase
<1>2. /\ x \in Int /\ y \in Int
      /\ x < 0 <=> WORD_IS_NEGATIVE(TopWord(v))
      /\ y < 0 <=> WORD_IS_NEGATIVE(TopWord(w))
  BY <1>1, RegisterFacts, Magnitude
<1>3. /\ v.len < w.len => IF y < 0 THEN y < x ELSE x < y
      /\ w.len < v.len => IF x < 0 THEN x < y ELSE y < x
  BY <1>2, LongerIsFarther
<1>4. v.len < w.len \/ w.len < v.len
  BY ValueFacts
<1>5. v.len \in Int /\ w.len \in Int
  BY ValueFacts
<1> HIDE DEF x, y
<1>6. CmpOtherLen(v, w) = IF x < 0 /\ y >= 0 THEN "LT" ELSE IF x >= 0 /\ y < 0 THEN "GT"
                          ELSE IF x < 0 /\ y < 0 THEN IF v.len < w.len THEN "GT" ELSE "LT"
                          ELSE IF v.len < w.len THEN "LT" ELSE "GT"
  <2>1. x < 0 \/ x >= 0
    BY <1>2
  <2>2. y < 0 \/ y >= 0
    BY <1>2
  <2>3. ~ (x < 0 /\ x >= 0) /\ ~ (y < 0 /\ y >= 0)
    BY <1>2
  <2> QED BY <1>2, <2>1, <2>2, <2>3 DEF CmpOtherLen
<1>7. x # y /\ CmpOtherLen(v, w) \in {"LT", "GT"} /\ (CmpOtherLen(v, w) = "LT" <=> x < y)
  BY <1>2, <1>3, <1>4, <1>5, <1>6
<1> QED BY <1>7 DEF x, y

\* Fixnums are compared by their only words.
LEMMA FixnumComparison ==
    ASSUME NEW v \in Value, NEW w \in Value, Canonical(v), Canonical(w),
           is_fixnum(v), is_fixnum(w), Padded(v), Padded(w)
    PROVE  /\ IntegerOf(v) = INT(v) /\ IntegerOf(w) = INT(w)
           /\ v = w <=> INT(v) = INT(w)
<1>1. PICK half \in Nat : half > 0 /\ Base = 2 * half
  BY HalfBase
<1>2. v.len = 1 /\ w.len = 1
  BY DEF Canonical
<1>3. IntegerOf(v) = INT(v) /\ IntegerOf(w) = INT(w)
  BY <1>1, <1>2, RegisterFacts, Magnitude
<1>4. ASSUME INT(v) = INT(w) PROVE v = w
  <2>1. v.words[0] \in Word /\ w.words[0] \in Word
    BY ValueFacts, IndexFacts
  <2>2. v.words[0] = w.words[0]
    BY <1>4, <2>1, ToWordFacts DEF INT
  <2>3. ASSUME NEW k \in Index, k # 0 PROVE v.words[k] = w.words[k]
    <3>1. k >= 1
      BY <2>3, IndexFacts DEF Index
    <3> QED BY <1>2, <3>1 DEF Padded
  <2>4. v.words = w.words
    <3>1. v.words \in [Index -> Word] /\ w.words \in [Index -> Word]
      BY DEF Value
    <3> QED BY <2>2, <2>3, <3>1
  <2> QED BY <1>2, <2>4 DEF Value, is_fixnum
<1> QED BY <1>3, <1>4

\* Any two integers that the client has.
LEMMA Comparison ==
    ASSUME NEW v \in Value, NEW w \in Value, Canonical(v), Canonical(w),
           Padded(v), Padded(w)
    PROVE  /\ scm_number_equal(v, w) <=> IntegerOf(v) = IntegerOf(w)
           /\ scm_number_cmp(v, w) = "LT" <=> IntegerOf(v) < IntegerOf(w)
           /\ scm_number_cmp(v, w) = "EQ" <=> IntegerOf(v) = IntegerOf(w)
<1>1. IntegerOf(v) \in Int /\ IntegerOf(w) \in Int
  BY RegisterFacts
<1>2. CASE is_fixnum(v) /\ is_fixnum(w)
  BY <1>1, <1>2, FixnumComparison DEF scm_number_equal, scm_number_cmp, fixnum_cmp
<1>3. CASE ~ (is_fixnum(v) /\ is_fixnum(w))
  <2>1. CASE v.len = w.len
    BY <1>3, <2>1, SameLength
    DEF scm_number_equal, scm_number_cmp, bignum_cmp, bignum_equal
  <2>2. CASE v.len # w.len
    BY <1>1, <1>3, <2>2, OtherLength
    DEF scm_number_equal, scm_number_cmp, bignum_cmp, bignum_equal
  <2> QED BY <2>1, <2>2
<1> QED BY <1>2, <1>3

-----------------------------------------------------------------------------
(***************************************************************************)
(* The client's integers.                                                  *)
(***************************************************************************)
\* What the operations make has no words beyond its length.
LEMMA MadePadded ==
    /\ \A kind, w : \A n \in Nat : Padded(Number(kind, w, n))
    /\ \A n : Padded(FIX(n)) /\ Padded(fixaddint_to_scm(n)) /\ Padded(fixmulint_to_scm(n))
    /\ i \in Nat => Padded(Sum)
<1>1. ASSUME NEW kind, NEW w, NEW n \in Nat PROVE Padded(Number(kind, w, n))
  <2>1. ASSUME NEW k \in Index, k >= n PROVE Number(kind, w, n).words[k] = 0
    <3>1. ~ k < n
      BY <2>1, IndexFacts DEF Index
    <3> QED BY <3>1 DEF Number
  <2>2. Number(kind, w, n).len = n
    BY DEF Number
  <2> QED BY <2>1, <2>2 DEF Padded
<1>2. 1 \in Nat /\ 2 \in Nat
  OBVIOUS
<1>3. \A n : Padded(FIX(n))
  BY <1>1, <1>2, Zenon DEF FIX
<1>4. \A n : Padded(fixaddint_to_scm(n))
  BY <1>1, <1>2, <1>3, Zenon DEF fixaddint_to_scm
<1>5. \A n : Padded(fixmulint_to_scm(n))
  BY <1>1, <1>2, <1>3, <1>4, Zenon DEF fixmulint_to_scm
<1>6. ASSUME i \in Nat PROVE Padded(Sum)
  <2>1. i + 1 \in Nat
    BY <1>6
  <2> QED BY <1>1, <1>3, <2>1, Zenon DEF Sum
<1> QED BY <1>1, <1>3, <1>4, <1>5, <1>6

\* Storing an integer while no addition goes on.
LEMMA ClientKept ==
    ASSUME IInv, ClientOK, pc' \in {"run", "die"}
    PROVE  /\ reg' = reg => ClientOK'
           /\ \A r, v : Padded(v) /\ reg' = [reg EXCEPT ![r] = v] => ClientOK'
<1>1. \A r \in Regs : Padded(reg[r])
  BY DEF ClientOK
<1>2. reg \in [Regs -> Value]
  BY DEF IInv, TypeOK
<1>3. ASSUME \A r \in Regs : Padded(reg'[r]) PROVE ClientOK'
  BY <1>3 DEF ClientOK, Padded
<1>4. ASSUME NEW r, NEW v, Padded(v), reg' = [reg EXCEPT ![r] = v]
      PROVE  \A s \in Regs : Padded(reg'[s])
  <2>1. ASSUME NEW s \in Regs PROVE reg'[s] = v \/ reg'[s] = reg[s]
    BY <1>2, <1>4
  <2> QED BY <1>1, <1>4, <2>1
<1> QED BY <1>1, <1>3, <1>4

LEMMA ClientStep ==
    ASSUME IInv, ClientOK, [Next]_vars PROVE ClientOK'
<1>1. CASE UNCHANGED vars
  BY <1>1 DEF vars, addvars, ClientOK, Padded
<1>2. ASSUME NEW r \in Regs, NEW n \in Ints, Load(r, n) PROVE ClientOK'
  BY <1>2, ClientKept, MadePadded DEF Load
<1>3. ASSUME NEW r \in Results, NEW d \in {-1, 1}, IncDec(r, d) PROVE ClientOK'
  BY <1>3, ClientKept, MadePadded DEF IncDec
<1>4. ASSUME NEW r \in Regs, IncDecBignum(r) PROVE ClientOK'
  BY <1>4, ClientKept DEF IncDecBignum
<1>5. ASSUME NEW r \in Regs, NEW s \in Regs, NEW t \in Results, AddFixnums(r, s, t)
      PROVE  ClientOK'
  BY <1>5, ClientKept, MadePadded DEF AddFixnums
<1>6. ASSUME NEW r \in Regs, NEW s \in Regs, NEW t \in Results, AddStart(r, s, t)
      PROVE  ClientOK'
  BY <1>6 DEF AddStart, ClientOK, Padded
<1>7. CASE Store
  <2>1. i \in Nat
    BY IndexFacts DEF IInv, TypeOK, Index
  <2> QED BY <1>7, <2>1, ClientKept, MadePadded DEF Store
<1>8. ASSUME pc \in {"add", "reduce"}, UNCHANGED <<reg, a, b>> PROVE ClientOK'
  BY <1>8 DEF ClientOK, Padded
<1>9. CASE AddBoth \/ AddLonger \/ AddOverflow \/ AddNoOverflow \/ Reduce \/ Reduced
  BY <1>8, <1>9 DEF AddBoth, AddLonger, AddWords, AddOverflow, AddNoOverflow, Reduce, Reduced,
                    addvars
<1> QED BY <1>1, <1>2, <1>3, <1>4, <1>5, <1>6, <1>7, <1>9 DEF Next

\* No step of bignum_add changes the client's integers before the sum is
\* stored: the operands are still two of them.
THEOREM ClientInvariant == Spec => []ClientOK
<1>1. Init => ClientOK
  BY MadePadded DEF Init, ClientOK
<1>2. IInv /\ ClientOK /\ [Next]_vars => ClientOK'
  BY ClientStep
<1> QED BY <1>1, <1>2, BignumInvariant, PTL DEF Spec

\* scm_number_cmp and scm_number_equal order any two integers that the client
\* can compute, whatever their representations, as the integers they denote.
THEOREM ComparisonHolds == Spec => []ComparisonOK
<1>1. ASSUME IInv, ClientOK PROVE ComparisonOK
  <2>1. \A r \in Regs : reg[r] \in Value /\ Canonical(reg[r]) /\ Padded(reg[r])
    BY <1>1 DEF IInv, TypeOK, AllCanonical, ClientOK
  <2> QED BY <2>1, Comparison DEF ComparisonOK
<1>2. IInv /\ ClientOK => ComparisonOK
  BY <1>1
<1> QED BY <1>2, BignumInvariant, ClientInvariant, PTL

-----------------------------------------------------------------------------
(***************************************************************************)
(* What the operations make.                                               *)
(***************************************************************************)
\* Integers of one word and of two.
LEMMA ShortIntegers ==
    ASSUME NEW v \in Value
    PROVE  /\ v.len = 1 => IntegerOf(v) = INT(v)
           /\ v.len = 2 => IntegerOf(v) = v.words[0] + SignedWord(v.words[1]) * Base
<1>1. PICK half \in Nat : half > 0 /\ Base = 2 * half
  BY HalfBase
<1>2. v.len = 1 => IntegerOf(v) = INT(v)
  BY <1>1, RegisterFacts, Magnitude
<1> DEFINE p == PowersOfBase
           f == SumsOf(v.words)
<1>3. Powers(p) /\ PartialSums(f, v.words, v.len, p) /\ IntegerOf(v) = Denoted(v.words, v.len, f, p)
  BY RegisterFacts DEF DenotedBy
<1> HIDE DEF p, f
<1>4. ASSUME v.len = 2 PROVE IntegerOf(v) = v.words[0] + SignedWord(v.words[1]) * Base
  <2>1. /\ 2 \in 1..MaxWords /\ 1 \in Index /\ 0 \in Index /\ 0 \in 0..(v.len - 1)
        /\ 2 - 1 = 1 /\ 0 + 1 = 1 /\ Base \in Int
    BY <1>4, IndexFacts, WordFacts DEF Index
  <2>2. v.words[1] \in Word /\ v.words[0] \in Word /\ v.words[0] \in Int
    BY <2>1, ValueFacts, WordFacts
  <2>3. Denoted(v.words, 2, f, p) = f[1] + SignedWord(v.words[1]) * p[1]
    BY <1>3, <1>4, <2>1, <2>2, DenotedFromTop
  <2>4. f[0] = 0 /\ p[0] = 1 /\ f[0 + 1] = f[0] + v.words[0] * p[0] /\ p[0 + 1] = Base * p[0]
    BY <1>3, <2>1 DEF Powers, PartialSums
  <2>5. f[1] = v.words[0] /\ p[1] = Base
    BY <2>1, <2>2, <2>4
  <2> QED BY <1>3, <1>4, <2>3, <2>5
<1> QED BY <1>2, <1>4

\* The word of an integer that fits into one, and FIX of one that fits.
LEMMA Fitting ==
    ASSUME NEW half \in Nat, half > 0, Base = 2 * half, NEW n \in Int
    PROVE  /\ -half <= n /\ n < half => SignedWord(ToWord(n)) = n
           /\ IS_IN_FIX_RANGE(n) => FixedInt(n) = n /\ -half < n /\ n < half
<1>1. PICK q \in Nat : /\ q > 0 /\ Base = 16 * q /\ Base \div 2 = 8 * q
                       /\ Base \div 8 = 2 * q /\ Base \div 16 = q
  BY BaseFacts
<1>2. half = 8 * q
  BY <1>1
<1>3. ASSUME -half <= n, n < half PROVE SignedWord(ToWord(n)) = n
  <2>1. CASE n >= 0
    <3>1. n = Base * 0 + n /\ 0 <= n /\ n < Base
      BY <1>1, <1>2, <1>3, <2>1
    <3>2. n % Base = n
      BY <1>1, <3>1, DivUnique
    <3> QED BY <1>1, <1>2, <1>3, <3>2 DEF ToWord, SignedWord, WORD_IS_NEGATIVE
  <2>2. CASE n < 0
    <3>1. n = Base * (-1) + (n + Base) /\ 0 <= n + Base /\ n + Base < Base
      BY <1>1, <1>2, <1>3, <2>2
    <3>2. n % Base = n + Base
      BY <1>1, <3>1, DivUnique
    <3> QED BY <1>1, <1>2, <1>3, <3>2 DEF ToWord, SignedWord, WORD_IS_NEGATIVE
  <2> QED BY <2>1, <2>2
<1>4. ASSUME IS_IN_FIX_RANGE(n) PROVE FixedInt(n) = n /\ -half < n /\ n < half
  <2>1. -q <= n /\ n < q
    BY <1>1, <1>4 DEF IS_IN_FIX_RANGE, FIXNUM_MAXINT, FIXNUM_MININT
  <2>2. CASE n >= 0
    <3>1. n = (2 * q) * 0 + n /\ 0 <= n /\ n < 2 * q
      BY <1>1, <2>1, <2>2
    <3>2. n % (2 * q) = n
      BY ONLY <1>1, <3>1, n \in Int, DivUnique
    <3> QED BY <1>1, <1>2, <2>1, <2>2, <3>2 DEF FixedInt, FIXNUM_MAXINT
  <2>3. CASE n < 0
    <3>1. n = (2 * q) * (-1) + (n + 2 * q) /\ 0 <= n + 2 * q /\ n + 2 * q < 2 * q
      BY <1>1, <2>1, <2>3
    <3>2. n % (2 * q) = n + 2 * q
      BY ONLY <1>1, <3>1, n \in Int, DivUnique
    <3> QED BY <1>1, <1>2, <2>1, <2>3, <3>2 DEF FixedInt, FIXNUM_MAXINT
  <2> QED BY <2>2, <2>3
<1> QED BY <1>3, <1>4

LEMMA FixDenotes ==
    ASSUME NEW n \in Int, IS_IN_FIX_RANGE(n)
    PROVE  IntegerOf(FIX(n)) = n
<1>1. PICK half \in Nat : half > 0 /\ Base = 2 * half
  BY HalfBase
<1>2. FixedInt(n) = n /\ SignedWord(ToWord(n)) = n
  BY <1>1, Fitting, ToWordFacts
<1>3. FIX(n) \in Value /\ FIX(n).len = 1 /\ FIX(n).words[0] = ToWord(n)
  BY <1>2, FixFacts
<1> QED BY <1>2, <1>3, ShortIntegers DEF INT

\* fixaddint_to_scm denotes the signed word that it gets.
LEMMA FixaddintDenotes ==
    ASSUME NEW x \in Int
    PROVE  IntegerOf(fixaddint_to_scm(x)) = SignedWord(ToWord(x))
<1>1. PICK n \in Int : n = SignedWord(ToWord(x))
  BY ToWordFacts, WordFacts
<1>2. CASE IS_IN_FIX_RANGE(n)
  BY <1>1, <1>2, FixDenotes DEF fixaddint_to_scm
<1>3. CASE ~ IS_IN_FIX_RANGE(n)
  <2> DEFINE w == [k \in {0} |-> ToWord(n)]
  <2>1. ToWord(n) = ToWord(x) /\ ToWord(x) \in Word
    BY <1>1, ToWordFacts
  <2>2. 1 \in 1..MaxWords /\ \A k \in 0..(1 - 1) : w[k] \in Word /\ k = 0
    BY <2>1, IndexFacts
  <2>3. fixaddint_to_scm(x) = Number("bignum", w, 1) /\ w[0] = ToWord(x) /\ 0 \in 0..(1 - 1)
    BY <1>1, <1>3, <2>1 DEF fixaddint_to_scm
  <2> HIDE DEF w
  <2>4. /\ fixaddint_to_scm(x) \in Value /\ fixaddint_to_scm(x).len = 1
        /\ fixaddint_to_scm(x).words[0] = ToWord(x)
    BY <2>2, <2>3, NumberFacts
  <2> QED BY <2>4, ShortIntegers DEF INT
<1> QED BY <1>2, <1>3

\* fixmulint_to_scm denotes the integer that it gets.
LEMMA FixmulintDenotes ==
    ASSUME NEW x \in Int, 2 * x >= -(Base * Base), 2 * x < Base * Base
    PROVE  IntegerOf(fixmulint_to_scm(x)) = x
<1>1. PICK half \in Nat : half > 0 /\ Base = 2 * half
  BY HalfBase
<1>2. Base \in Nat /\ Base > 0
  BY WordFacts
<1>3. PICK lo \in Int, hi \in Int : /\ lo = x % Base /\ hi = x \div Base
                                    /\ 0 <= lo /\ lo < Base /\ x = Base * hi + lo
  BY <1>2
<1>4. -half <= hi /\ hi < half
  <2>1. 2 * x >= -(2 * (half * Base)) /\ 2 * x < 2 * (half * Base) /\ half * Base \in Int
    <3>1. Base * Base = 2 * (half * Base)
      BY <1>1, <1>2
    <3>2. half * Base \in Int
      BY <1>1, <1>2
    <3> QED BY <3>1, <3>2
  <2>2. x >= -(half * Base) /\ x < half * Base
    BY <2>1
  <2>3. CASE hi >= half
    <3>1. half * Base <= hi * Base /\ hi * Base = Base * hi /\ hi * Base \in Int
      BY <1>2, <2>3, ProductMonotone
    <3>2. x >= hi * Base
      BY <1>3, <3>1
    <3> QED BY <2>1, <2>2, <3>1, <3>2
  <2>4. CASE hi < -half
    <3>1. hi * Base <= (-half - 1) * Base /\ hi * Base = Base * hi
      BY <1>2, <2>4, ProductMonotone
    <3>2. (-half - 1) * Base = -(half * Base) - Base
      BY <1>2
    <3> QED BY <1>2, <1>3, <2>1, <2>2, <3>1, <3>2
  <2> QED BY <1>3, <2>3, <2>4
<1>5. /\ DWORD_LO(x) = lo /\ DWORD_HI(x) = ToWord(hi) /\ lo \in Word /\ ToWord(hi) \in Word
      /\ SignedWord(ToWord(hi)) = hi
  BY <1>1, <1>2, <1>3, <1>4, Fitting, ToWordFacts DEF DWORD_LO, DWORD_HI, ToWord, Word
<1>6. CASE IS_IN_FIX_RANGE(x)
  BY <1>6, FixDenotes DEF fixmulint_to_scm
<1>7. CASE ~ IS_IN_FIX_RANGE(x) /\ ToWord(hi) = SignExtension(Sign(lo))
  <2>1. Sign(lo) \in {0, 1} /\ SignedWord(lo) = lo - Base * Sign(lo)
    BY <1>1, <1>5, SignedFacts
  <2>2. hi = -Sign(lo)
    <3>1. SignedWord(0) = 0 /\ SignedWord(Base - 1) = -1
      BY <1>1 DEF SignedWord, WORD_IS_NEGATIVE
    <3> QED BY <1>5, <1>7, <2>1, <3>1 DEF SignExtension
  <2>3. SignedWord(lo) = x
    BY <1>2, <1>3, <2>1, <2>2
  <2>4. ToWord(lo) = lo
    BY <1>2, <1>3, <1>5 DEF ToWord
  <2>5. fixmulint_to_scm(x) = fixaddint_to_scm(lo)
    BY <1>5, <1>7 DEF fixmulint_to_scm
  <2> QED BY <2>3, <2>4, <2>5, FixaddintDenotes
<1>8. CASE ~ IS_IN_FIX_RANGE(x) /\ ToWord(hi) # SignExtension(Sign(lo))
  <2> DEFINE w == [k \in 0..1 |-> IF k = 0 THEN lo ELSE ToWord(hi)]
             v == Number("bignum", w, 2)
  <2>1. /\ w[0] = lo /\ w[1] = ToWord(hi) /\ 2 \in 1..MaxWords /\ 0 \in 0..(2 - 1) /\ 1 \in 0..(2 - 1)
        /\ \A k \in 0..(2 - 1) : w[k] \in Word
    BY <1>5, IndexFacts
  <2>2. fixmulint_to_scm(x) = v
    BY <1>5, <1>8 DEF fixmulint_to_scm
  <2> HIDE DEF w
  <2>3. v \in Value /\ v.len = 2 /\ v.words[0] = lo /\ v.words[1] = ToWord(hi)
    BY <2>1, NumberFacts
  <2> HIDE DEF v
  <2>4. IntegerOf(v) = lo + hi * Base
    BY <1>5, <2>3, ShortIntegers
  <2> QED BY <1>2, <1>3, <2>2, <2>4
<1> QED BY <1>5, <1>6, <1>7, <1>8

-----------------------------------------------------------------------------
(***************************************************************************)
(* The refinement.                                                         *)
(***************************************************************************)
\* A client's step that stores v in register r.
LEMMA Stored ==
    ASSUME IInv, NEW r \in Regs, NEW v, reg' = [reg EXCEPT ![r] = v]
    PROVE  [s \in Regs |-> IntegerOf(reg[s])]' =
           [[s \in Regs |-> IntegerOf(reg[s])] EXCEPT ![r] = IntegerOf(v)]
<1> DEFINE before == [s \in Regs |-> IntegerOf(reg[s])]
           after == [s \in Regs |-> IntegerOf(reg'[s])]
<1>1. reg \in [Regs -> Value]
  BY DEF IInv, TypeOK
<1>2. \A s \in Regs : reg'[s] = IF s = r THEN v ELSE reg[s]
  BY <1>1
<1>3. after = [before EXCEPT ![r] = IntegerOf(v)]
  <2>1. ASSUME NEW s \in Regs
        PROVE  IntegerOf(reg'[s]) = IF s = r THEN IntegerOf(v) ELSE IntegerOf(reg[s])
    BY <1>2
  <2> QED BY <2>1
<1>4. [s \in Regs |-> IntegerOf(reg[s])]' = after
  BY DEF IntegerOf, DenotedBy, Denoted, SumsOf, PowersOfBase
<1> QED BY <1>3, <1>4

\* A fixnum of the client is less than half a word: adding to it stays in range.
LEMMA ClientFixnums ==
    ASSUME IInv, NEW r \in Regs, is_fixnum(reg[r])
    PROVE  IntegerOf(reg[r]) = INT(reg[r]) /\ INT(reg[r]) \in Int /\ IS_IN_FIX_RANGE(INT(reg[r]))
<1>1. reg[r] \in Value /\ Canonical(reg[r]) /\ reg[r].len = 1
  BY DEF IInv, TypeOK, AllCanonical, Canonical
<1> QED BY <1>1, ValueFacts, ShortIntegers DEF Canonical, INT

\* The sum of two integers in fixnum range, or one and a step, fits into a word.
LEMMA SumFits ==
    ASSUME NEW m \in Int, NEW n \in Int, IS_IN_FIX_RANGE(m), IS_IN_FIX_RANGE(n) \/ n \in {-1, 1}
    PROVE  IntegerOf(fixaddint_to_scm(m + n)) = m + n
<1>1. PICK q \in Nat : q > 0 /\ Base = 16 * q /\ Base \div 16 = q
  BY BaseFacts
<1>2. -(8 * q) <= m + n /\ m + n < 8 * q /\ m + n \in Int
  BY <1>1 DEF IS_IN_FIX_RANGE, FIXNUM_MAXINT, FIXNUM_MININT
<1>3. 8 * q \in Nat /\ 8 * q > 0 /\ Base = 2 * (8 * q)
  BY <1>1
<1>4. PICK half \in Nat : half > 0 /\ Base = 2 * half /\ -half <= m + n /\ m + n < half
  BY <1>2, <1>3
<1>5. SignedWord(ToWord(m + n)) = m + n
  BY <1>2, <1>4, Fitting
<1> QED BY <1>2, <1>5, FixaddintDenotes

LEMMA RefinesStep ==
    ASSUME IInv, ClientOK, pc = "store" => StoredIsSum, [Next]_vars
    PROVE  [Integer!Next]_[r \in Regs |-> IntegerOf(reg[r])]
<1> DEFINE num == [r \in Regs |-> IntegerOf(reg[r])]
<1>1. \A n \in Ints : n \in Int /\ 2 * n >= -(Base * Base) /\ 2 * n < Base * Base
  BY BignumConstants DEF BignumConstants
<1>2. Results \subseteq Regs
  BY BignumConstants DEF BignumConstants
<1>3. ASSUME reg' = reg PROVE num' = num
  BY <1>3
<1>4. ASSUME NEW r \in Regs, NEW n \in Ints, Load(r, n) PROVE Integer!Load(r, n)
  <2>1. reg' = [reg EXCEPT ![r] = fixmulint_to_scm(n)]
    BY <1>4 DEF Load
  <2>2. IntegerOf(fixmulint_to_scm(n)) = n
    BY <1>1, FixmulintDenotes
  <2> QED BY <2>1, <2>2, Stored DEF Integer!Load
<1>5. ASSUME NEW r \in Results, NEW d \in {-1, 1}, IncDec(r, d) PROVE Integer!Change(r, d)
  <2>1. is_fixnum(reg[r]) /\ reg' = [reg EXCEPT ![r] = fixaddint_to_scm(INT(reg[r]) + d)]
    BY <1>5 DEF IncDec
  <2>2. r \in Regs /\ d \in Int
    BY <1>2
  <2>3. PICK v : v = fixaddint_to_scm(INT(reg[r]) + d)
    OBVIOUS
  <2>4. IntegerOf(v) = num[r] + d
    BY <2>1, <2>2, <2>3, ClientFixnums, SumFits
  <2> QED BY ZenonT(60), <2>1, <2>2, <2>3, <2>4, Stored DEF Integer!Change
<1>6. ASSUME NEW r \in Regs, NEW s \in Regs, NEW t \in Results, AddFixnums(r, s, t)
      PROVE  Integer!Add(r, s, t)
  <2>1. /\ is_fixnum(reg[r]) /\ is_fixnum(reg[s]) /\ t \in Regs
        /\ reg' = [reg EXCEPT ![t] = fixaddint_to_scm(INT(reg[r]) + INT(reg[s]))]
    BY <1>2, <1>6 DEF AddFixnums
  <2>2. PICK v : v = fixaddint_to_scm(INT(reg[r]) + INT(reg[s]))
    OBVIOUS
  <2>3. IntegerOf(v) = num[r] + num[s]
    BY <2>1, <2>2, ClientFixnums, SumFits
  <2> QED BY <2>1, <2>2, <2>3, Stored DEF Integer!Add
<1>7. ASSUME Store PROVE \E r, s \in Regs, t \in Results : Integer!Add(r, s, t)
  <2>1. pc = "store" /\ reg' = [reg EXCEPT ![dst] = Sum] /\ dst \in Regs
    BY <1>2, <1>7 DEF Store, IInv, TypeOK
  <2>2. PICK r \in Regs, s \in Regs : a = reg[r] /\ b = reg[s]
    BY <2>1 DEF ClientOK
  <2>3. a \in Value /\ b \in Value /\ Sum \in Value
    <3>1. TypeOK
      BY DEF IInv
    <3>2. Sum \in Value
      BY <1>7, <2>1, <3>1, SumIsValue
    <3> QED BY <3>1, <3>2 DEF TypeOK
  <2>4. IntegerOf(Sum) = IntegerOf(a) + IntegerOf(b)
    BY <2>1, <2>3, RegisterFacts DEF StoredIsSum
  <2>5. PICK t, v : t \in Results /\ t = dst /\ v = Sum
    BY DEF IInv, TypeOK
  <2>6. IntegerOf(v) = num[r] + num[s]
    BY <2>2, <2>4, <2>5
  <2>7. Integer!Add(r, s, t)
    <3>1. t \in Regs /\ reg' = [reg EXCEPT ![t] = v]
      BY <1>2, <2>1, <2>5
    <3>2. num' = [num EXCEPT ![t] = IntegerOf(v)]
      BY <3>1, Stored
    <3> QED BY <2>6, <3>2 DEF Integer!Add
  <2> QED BY <2>5, <2>7
<1>8. CASE reg' = reg
  BY <1>3, <1>8
<1>9. UNCHANGED vars => reg' = reg
  BY DEF vars
<1>10. \/ reg' = reg
       \/ \E r \in Regs, n \in Ints : Load(r, n)
       \/ \E r \in Results, d \in {-1, 1} : IncDec(r, d)
       \/ \E r, s \in Regs, t \in Results : AddFixnums(r, s, t)
       \/ Store
  BY <1>9 DEF Next, IncDecBignum, AddStart, AddBoth, AddLonger, AddWords, AddOverflow,
              AddNoOverflow, Reduce, Reduced
<1> QED BY <1>4, <1>5, <1>6, <1>7, <1>8, <1>10 DEF Integer!Next

\* Whatever the client computes, through any mixture of fixnums and bignums,
\* its registers hold the integers that exact arithmetic gives: Bignum
\* implements IntegerRegisters for every word size and length.
THEOREM ImplementsIntegersHolds == Spec => ImplementsIntegers
<1>1. Init => Integer!Init
  <2>1. IS_IN_FIX_RANGE(0)
    <3>1. PICK q \in Nat : q > 0 /\ Base \div 16 = q
      BY BaseFacts
    <3> QED BY <3>1 DEF IS_IN_FIX_RANGE, FIXNUM_MAXINT, FIXNUM_MININT
  <2>2. IntegerOf(FIX(0)) = 0
    BY <2>1, FixDenotes
  <2> QED BY <2>2 DEF Init, Integer!Init
<1>2. IInv /\ ClientOK /\ (pc = "store" => StoredIsSum) /\ [Next]_vars
      => [Integer!Next]_[r \in Regs |-> IntegerOf(reg[r])]
  BY RefinesStep
<1> QED BY <1>1, <1>2, BignumInvariant, ClientInvariant, AdditionStoresSum, PTL
        DEF Spec, ImplementsIntegers, Integer!Spec
=============================================================================
