---------------------------- MODULE BignumProofs ----------------------------
(***************************************************************************)
(* Proofs about Bignum: every integer stays canonical, and bignum_add      *)
(* computes sums, for every word size, every number of words and every     *)
(* sequence of operations.                                                 *)
(***************************************************************************)
EXTENDS BignumInv, TLAPS

-----------------------------------------------------------------------------
(***************************************************************************)
(* Words.                                                                  *)
(***************************************************************************)
\* Remainder and quotient are determined by the equation.
LEMMA DivUnique ==
    ASSUME NEW n \in Int, n > 0, NEW m \in Int, NEW d \in Int, NEW r \in Int,
           0 <= r, r < n, m = n * d + r
    PROVE  m % n = r /\ m \div n = d
  OBVIOUS

\* All quantities that depend on the word size are multiples of q.
LEMMA BaseFacts ==
    \E q \in Nat : /\ q > 0 /\ Base = 16 * q
                   /\ Base \div 2 = 8 * q /\ Base \div 8 = 2 * q
                   /\ Base \div 16 = q
<1>1. Base \in Nat /\ Base > 0 /\ Base % 16 = 0
  BY BignumConstants DEF BignumConstants
<1>2. PICK q \in Int : q = Base \div 16
  BY <1>1
<1>3. Base = 16 * q
  BY <1>1, <1>2
<1>4. Base \div 2 = 8 * q /\ Base \div 8 = 2 * q
  BY <1>1, <1>3
<1> QED BY <1>1, <1>2, <1>3, <1>4

\* Signs, sign extensions and the conversion of words to integers and back.
LEMMA WordFacts ==
    /\ Base \in Nat /\ Base > 1 /\ Word \subseteq Int /\ 0 \in Word
    /\ \A w \in Word : Sign(w) \in {0, 1} /\ SignedWord(w) \in Int
    /\ Sign(0) = 0
    /\ \A s \in {0, 1} : SignExtension(s) \in Word /\ Sign(SignExtension(s)) = s
<1>1. PICK q \in Nat : q > 0 /\ Base = 16 * q /\ Base \div 2 = 8 * q
  BY BaseFacts
<1>2. Base \in Nat /\ Base > 1 /\ Word \subseteq Int /\ 0 \in Word
  BY <1>1 DEF Word
<1>3. \A w \in Word : Sign(w) \in {0, 1} /\ SignedWord(w) \in Int
  BY <1>1 DEF Word, Sign, SignedWord, WORD_IS_NEGATIVE
<1>4. Sign(0) = 0 /\ Sign(Base - 1) = 1 /\ Base - 1 \in Word
  BY <1>1 DEF Word, Sign, WORD_IS_NEGATIVE
<1> QED BY <1>2, <1>3, <1>4 DEF SignExtension

\* The word of an integer, and the integer of a word.
LEMMA ToWordFacts ==
    /\ \A n \in Int : ToWord(n) \in Word
    /\ \A w \in Word : ToWord(SignedWord(w)) = w
    /\ \A n \in Int : IS_IN_FIX_RANGE(n) => SignedWord(ToWord(n)) = n
<1>1. PICK q \in Nat : /\ q > 0 /\ Base = 16 * q /\ Base \div 2 = 8 * q
                       /\ Base \div 16 = q
  BY BaseFacts
<1>2. ASSUME NEW n \in Int PROVE ToWord(n) \in Word
  BY <1>1 DEF ToWord, Word
<1>3. ASSUME NEW w \in Word PROVE ToWord(SignedWord(w)) = w
  <2>1. w \in Int /\ 0 <= w /\ w < Base
    BY <1>1 DEF Word
  <2>2. SignedWord(w) = Base * 0 + w \/ SignedWord(w) = Base * (-1) + w
    BY <1>1, <2>1 DEF SignedWord
  <2>3. SignedWord(w) % Base = w
    BY ONLY <1>1, <2>1, <2>2, DivUnique
  <2> QED BY <2>3 DEF ToWord
<1>4. ASSUME NEW n \in Int, IS_IN_FIX_RANGE(n) PROVE SignedWord(ToWord(n)) = n
  <2>1. -q <= n /\ n < q
    BY <1>1, <1>4 DEF IS_IN_FIX_RANGE, FIXNUM_MAXINT, FIXNUM_MININT
  <2>2. CASE n >= 0
    <3>1. n % Base = n
      BY <1>1, <2>1, <2>2
    <3> QED BY <1>1, <2>1, <3>1 DEF ToWord, SignedWord, WORD_IS_NEGATIVE
  <2>3. CASE n < 0
    <3>1. n = Base * (-1) + (n + Base) /\ 0 <= n + Base /\ n + Base < Base
      BY <1>1, <2>1, <2>3
    <3>2. n % Base = n + Base
      BY <1>1, <3>1, DivUnique
    <3> QED BY <1>1, <2>1, <3>2 DEF ToWord, SignedWord, WORD_IS_NEGATIVE
  <2> QED BY <2>2, <2>3
<1> QED BY <1>2, <1>3, <1>4

\* FIX keeps an integer in range, given as such or as its word.
LEMMA FixedIntFacts ==
    /\ \A n \in Int : FixedInt(n) \in Int /\ IS_IN_FIX_RANGE(FixedInt(n))
    /\ \A w \in Word : IS_IN_FIX_RANGE(SignedWord(w)) => FixedInt(w) = SignedWord(w)
<1>1. PICK q \in Nat : /\ q > 0 /\ Base = 16 * q /\ Base \div 2 = 8 * q
                       /\ Base \div 8 = 2 * q /\ Base \div 16 = q
  BY BaseFacts
<1>2. ASSUME NEW n \in Int PROVE FixedInt(n) \in Int /\ IS_IN_FIX_RANGE(FixedInt(n))
  <2>1. PICK m \in Int : m = n % (Base \div 8)
    BY <1>1
  <2>2. 0 <= m /\ m < 2 * q
    BY <1>1, <2>1
  <2>3. FixedInt(n) = IF m > q - 1 THEN m - 2 * q ELSE m
    BY <1>1, <2>1 DEF FixedInt, FIXNUM_MAXINT
  <2> QED BY <1>1, <2>2, <2>3 DEF IS_IN_FIX_RANGE, FIXNUM_MAXINT, FIXNUM_MININT
<1>3. ASSUME NEW w \in Word, IS_IN_FIX_RANGE(SignedWord(w))
      PROVE  FixedInt(w) = SignedWord(w)
  <2>1. w \in Int /\ 0 <= w /\ w < 16 * q
    BY <1>1 DEF Word
  <2>2. CASE w < 8 * q
    <3>1. SignedWord(w) = w /\ w < q
      BY <1>1, <1>3, <2>1, <2>2
      DEF SignedWord, WORD_IS_NEGATIVE, IS_IN_FIX_RANGE, FIXNUM_MAXINT
    <3>2. w = (2 * q) * 0 + w
      BY <2>1
    <3>3. w % (2 * q) = w
      BY ONLY <1>1, <2>1, <3>1, <3>2, DivUnique
    <3>4. FixedInt(w) = IF w > q - 1 THEN w - 2 * q ELSE w
      BY <1>1, <3>3 DEF FixedInt, FIXNUM_MAXINT
    <3> QED BY ONLY <1>1, <2>1, <3>1, <3>4
  <2>3. CASE w >= 8 * q
    <3>1. SignedWord(w) = w - 16 * q /\ 15 * q <= w
      BY <1>1, <1>3, <2>1, <2>3
      DEF SignedWord, WORD_IS_NEGATIVE, IS_IN_FIX_RANGE, FIXNUM_MININT, FIXNUM_MAXINT
    <3>2. w = (2 * q) * 7 + (w - 14 * q)
      BY <2>1
    <3>3. w % (2 * q) = w - 14 * q
      BY ONLY <1>1, <2>1, <3>1, <3>2, DivUnique
    <3>4. FixedInt(w) = IF w - 14 * q > q - 1 THEN (w - 14 * q) - 2 * q ELSE w - 14 * q
      BY <1>1, <3>3 DEF FixedInt, FIXNUM_MAXINT
    <3> QED BY ONLY <1>1, <2>1, <3>1, <3>4
  <2> QED BY <2>1, <2>2, <2>3
<1> QED BY <1>2, <1>3

-----------------------------------------------------------------------------
(***************************************************************************)
(* Values.                                                                 *)
(***************************************************************************)
\* A number made of n words has these words.
LEMMA NumberFacts ==
    ASSUME NEW n \in 1..MaxWords, NEW w, \A k \in 0..(n - 1) : w[k] \in Word
    PROVE  /\ Number("fixnum", w, n) \in Value /\ is_fixnum(Number("fixnum", w, n))
           /\ Number("fixnum", w, n).len = n
           /\ \A k \in 0..(n - 1) : Number("fixnum", w, n).words[k] = w[k]
           /\ Number("bignum", w, n) \in Value /\ ~ is_fixnum(Number("bignum", w, n))
           /\ Number("bignum", w, n).len = n
           /\ \A k \in 0..(n - 1) : Number("bignum", w, n).words[k] = w[k]
<1>1. n \in Nat /\ MaxWords \in Nat /\ n >= 1 /\ n <= MaxWords
  BY BignumConstants DEF BignumConstants
<1>2. \A k \in 0..(n - 1) : k \in Index /\ k < n
  BY <1>1 DEF Index
<1>3. \A k \in Index : k < n => w[k] \in Word
  BY <1>1 DEF Index
<1>4. [k \in Index |-> IF k < n THEN w[k] ELSE 0] \in [Index -> Word]
  BY <1>3, WordFacts
<1>5. /\ Number("fixnum", w, n) \in Value /\ is_fixnum(Number("fixnum", w, n))
      /\ Number("fixnum", w, n).len = n
      /\ \A k \in 0..(n - 1) : Number("fixnum", w, n).words[k] = w[k]
  BY <1>2, <1>4 DEF Number, Value, Kind, is_fixnum
<1>6. /\ Number("bignum", w, n) \in Value /\ ~ is_fixnum(Number("bignum", w, n))
      /\ Number("bignum", w, n).len = n
      /\ \A k \in 0..(n - 1) : Number("bignum", w, n).words[k] = w[k]
  BY <1>2, <1>4 DEF Number, Value, Kind, is_fixnum
<1> QED BY <1>5, <1>6

\* FIX makes a canonical fixnum.
LEMMA FixFacts ==
    ASSUME NEW n \in Int
    PROVE  /\ FIX(n) \in Value /\ Canonical(FIX(n))
           /\ is_fixnum(FIX(n)) /\ FIX(n).len = 1
           /\ FIX(n).words[0] = ToWord(FixedInt(n))
<1> DEFINE w == [k \in {0} |-> ToWord(FixedInt(n))]
<1>1. FixedInt(n) \in Int /\ IS_IN_FIX_RANGE(FixedInt(n))
  BY FixedIntFacts
<1>2. /\ ToWord(FixedInt(n)) \in Word
      /\ SignedWord(ToWord(FixedInt(n))) = FixedInt(n)
  BY <1>1, ToWordFacts
<1>3. 1 \in 1..MaxWords /\ \A k \in 0..(1 - 1) : w[k] \in Word /\ k = 0
  BY <1>2, BignumConstants DEF BignumConstants
<1>4. FIX(n) = Number("fixnum", w, 1) /\ w[0] = ToWord(FixedInt(n))
  BY DEF FIX
<1> HIDE DEF w
<1>5. /\ FIX(n) \in Value /\ is_fixnum(FIX(n)) /\ FIX(n).len = 1
      /\ FIX(n).words[0] = ToWord(FixedInt(n))
  BY <1>3, <1>4, NumberFacts
<1> QED BY <1>1, <1>2, <1>5 DEF Canonical

\* A number of one word that is out of fixnum range is canonical.
LEMMA OneWordFacts ==
    ASSUME NEW w, w[0] \in Word, ~ IS_IN_FIX_RANGE(SignedWord(w[0]))
    PROVE  Number("bignum", w, 1) \in Value /\ Canonical(Number("bignum", w, 1))
<1>1. 1 \in 1..MaxWords /\ \A k \in 0..(1 - 1) : w[k] \in Word /\ k = 0
  BY BignumConstants DEF BignumConstants
<1>2. /\ Number("bignum", w, 1) \in Value /\ ~ is_fixnum(Number("bignum", w, 1))
      /\ Number("bignum", w, 1).len = 1
      /\ Number("bignum", w, 1).words[0] = w[0]
  BY <1>1, NumberFacts
<1> QED BY <1>2 DEF Canonical

\* A number of several words is canonical if its top word is needed.
LEMMA LongFacts ==
    ASSUME NEW n \in 2..MaxWords, NEW w, \A k \in 0..(n - 1) : w[k] \in Word,
           w[n - 1] # SignExtension(Sign(w[n - 2]))
    PROVE  Number("bignum", w, n) \in Value /\ Canonical(Number("bignum", w, n))
<1>1. n \in Nat /\ n >= 2 /\ n \in 1..MaxWords /\ n - 1 \in 0..(n - 1) /\ n - 2 \in 0..(n - 1)
  BY BignumConstants DEF BignumConstants
<1>2. /\ Number("bignum", w, n) \in Value /\ ~ is_fixnum(Number("bignum", w, n))
      /\ Number("bignum", w, n).len = n
      /\ \A k \in 0..(n - 1) : Number("bignum", w, n).words[k] = w[k]
  BY <1>1, NumberFacts
<1> QED BY <1>1, <1>2 DEF Canonical, TopWord

\* The conversions of C integers return canonical values.
LEMMA FixaddintFacts ==
    ASSUME NEW x \in Int
    PROVE  fixaddint_to_scm(x) \in Value /\ Canonical(fixaddint_to_scm(x))
<1>1. PICK n \in Int : n = SignedWord(ToWord(x))
  BY ToWordFacts, WordFacts
<1>2. CASE IS_IN_FIX_RANGE(n)
  BY <1>1, <1>2, FixFacts DEF fixaddint_to_scm
<1>3. CASE ~ IS_IN_FIX_RANGE(n)
  <2> DEFINE w == [k \in {0} |-> ToWord(n)]
  <2>1. ToWord(n) = ToWord(x) /\ ToWord(x) \in Word
    BY <1>1, ToWordFacts
  <2>2. w[0] \in Word /\ ~ IS_IN_FIX_RANGE(SignedWord(w[0]))
    BY <1>1, <1>3, <2>1
  <2>3. fixaddint_to_scm(x) = Number("bignum", w, 1)
    BY <1>1, <1>3 DEF fixaddint_to_scm
  <2> HIDE DEF w
  <2> QED BY <2>2, <2>3, OneWordFacts
<1> QED BY <1>2, <1>3

LEMMA FixmulintFacts ==
    ASSUME NEW x \in Int
    PROVE  fixmulint_to_scm(x) \in Value /\ Canonical(fixmulint_to_scm(x))
<1>1. DWORD_LO(x) \in Word /\ DWORD_HI(x) \in Word /\ DWORD_LO(x) \in Int
  BY WordFacts DEF DWORD_LO, DWORD_HI, Word
<1>2. CASE IS_IN_FIX_RANGE(x)
  BY <1>2, FixFacts DEF fixmulint_to_scm
<1>3. CASE ~ IS_IN_FIX_RANGE(x) /\ DWORD_HI(x) = SignExtension(Sign(DWORD_LO(x)))
  BY <1>1, <1>3, FixaddintFacts DEF fixmulint_to_scm
<1>4. CASE ~ IS_IN_FIX_RANGE(x) /\ DWORD_HI(x) # SignExtension(Sign(DWORD_LO(x)))
  <2> DEFINE w == [k \in 0..1 |-> IF k = 0 THEN DWORD_LO(x) ELSE DWORD_HI(x)]
  <2>1. w[0] = DWORD_LO(x) /\ w[1] = DWORD_HI(x)
    OBVIOUS
  <2>2. /\ 2 \in 2..MaxWords
        /\ \A k \in 0..(2 - 1) : w[k] \in Word
        /\ w[2 - 1] # SignExtension(Sign(w[2 - 2]))
    BY <1>1, <1>4, <2>1, BignumConstants DEF BignumConstants
  <2>3. fixmulint_to_scm(x) = Number("bignum", w, 2)
    BY <1>4 DEF fixmulint_to_scm
  <2> HIDE DEF w
  <2> QED BY <2>2, <2>3, LongFacts
<1> QED BY <1>2, <1>3, <1>4

\* The words of a value.
LEMMA ValueFacts ==
    ASSUME NEW v \in Value
    PROVE  /\ v.len \in Nat /\ v.len >= 1 /\ v.len <= MaxWords
           /\ \A k \in Index : v.words[k] \in Word
           /\ TopWord(v) \in Word /\ INT(v) \in Int
<1>1. /\ v.len \in 1..MaxWords /\ v.words \in [Index -> Word]
      /\ MaxWords \in Nat /\ MaxWords > 1
  BY BignumConstants DEF BignumConstants, Value
<1>2. v.len - 1 \in Index /\ 0 \in Index /\ v.len \in Nat /\ v.len >= 1
  BY <1>1 DEF Index
<1>3. v.words[0] \in Word /\ TopWord(v) \in Word
  BY <1>1, <1>2 DEF TopWord
<1>4. INT(v) \in Int
  BY <1>3, WordFacts DEF INT
<1>5. \A k \in Index : v.words[k] \in Word
  BY <1>1
<1>6. v.len <= MaxWords
  BY <1>1
<1> QED BY <1>2, <1>3, <1>4, <1>5, <1>6

\* One turn of the digit loops: the word and the carry it leaves.
LEMMA AddWordFacts ==
    ASSUME NEW c \in {0, 1}, NEW m \in Word, NEW n \in Word
    PROVE  /\ DWORD_LO(c + m + n) \in Word /\ DWORD_HI(c + m + n) \in {0, 1}
           /\ DWORD_LO(c + m + n) + Base * DWORD_HI(c + m + n) = c + m + n
           /\ Sign(m) + Sign(n) \in 0..2
           /\ Sign(m) + Sign(n) = 0 => DWORD_HI(c + m + n) = 0
           /\ Sign(m) + Sign(n) = 2 => DWORD_HI(c + m + n) = 1
           /\ Sign(m) + Sign(n) = 1 =>
                DWORD_HI(c + m + n) = 1 - Sign(DWORD_LO(c + m + n))
<1>1. PICK q \in Nat : q > 0 /\ Base = 16 * q /\ Base \div 2 = 8 * q
  BY BaseFacts
<1>2. m \in Int /\ 0 <= m /\ m < Base /\ n \in Int /\ 0 <= n /\ n < Base /\ c \in Int
  BY <1>1 DEF Word
<1>3. PICK s \in Int : s = c + m + n
  BY <1>2
<1>4. \/ DWORD_LO(s) = s /\ DWORD_HI(s) = 0 /\ 0 <= s /\ s < Base
      \/ DWORD_LO(s) = s - Base /\ DWORD_HI(s) = 1 /\ Base <= s /\ s < 2 * Base
  <2>1. 0 <= s /\ s < 2 * Base
    BY <1>1, <1>2, <1>3
  <2>2. CASE s < Base
    <3>1. s = Base * 0 + s
      BY <1>1
    <3>2. s % Base = s /\ s \div Base = 0
      BY ONLY <1>1, <2>1, <2>2, <3>1, s \in Int, DivUnique
    <3>3. 0 % Base = 0
      BY ONLY <1>1
    <3> QED BY <2>1, <2>2, <3>2, <3>3 DEF DWORD_LO, DWORD_HI
  <2>3. CASE s >= Base
    <3>1. s = Base * 1 + (s - Base)
      BY <1>1
    <3>2. s % Base = s - Base /\ s \div Base = 1
      BY ONLY <1>1, <2>1, <2>3, <3>1, s \in Int, DivUnique
    <3>3. 1 % Base = 1
      BY ONLY <1>1
    <3> QED BY <2>1, <2>3, <3>2, <3>3 DEF DWORD_LO, DWORD_HI
  <2> QED BY <1>1, <2>2, <2>3
<1>5. /\ DWORD_LO(s) \in Int /\ 0 <= DWORD_LO(s) /\ DWORD_LO(s) < Base
      /\ DWORD_HI(s) \in {0, 1} /\ DWORD_LO(s) + Base * DWORD_HI(s) = s
  BY <1>1, <1>4
<1>6. /\ Sign(m) = IF m >= 8 * q THEN 1 ELSE 0
      /\ Sign(n) = IF n >= 8 * q THEN 1 ELSE 0
      /\ Sign(DWORD_LO(s)) = IF DWORD_LO(s) >= 8 * q THEN 1 ELSE 0
  BY <1>1 DEF Sign, WORD_IS_NEGATIVE
<1>7. /\ Sign(m) + Sign(n) \in 0..2
      /\ Sign(m) + Sign(n) = 0 => DWORD_HI(s) = 0
      /\ Sign(m) + Sign(n) = 2 => DWORD_HI(s) = 1
      /\ Sign(m) + Sign(n) = 1 => DWORD_HI(s) = 1 - Sign(DWORD_LO(s))
  BY ONLY <1>1, <1>2, <1>3, <1>4, <1>6
<1>8. DWORD_LO(s) \in Word
  BY <1>1, <1>5 DEF Word
<1> QED BY <1>3, <1>5, <1>7, <1>8

-----------------------------------------------------------------------------
(***************************************************************************)
(* The invariant.                                                          *)
(***************************************************************************)
LEMMA IndexFacts ==
    /\ MaxWords \in Nat /\ MaxWords > 1 /\ 0 \in Index
    /\ NoWords \in [Index -> Word]
  BY BignumConstants, WordFacts DEF BignumConstants, Index, NoWords

LEMMA BignumInit ==
    ASSUME Init PROVE IInv
<1>1. FIX(0) \in Value /\ Canonical(FIX(0))
  BY FixFacts
<1>2. TypeOK
  BY <1>1, IndexFacts DEF Init, TypeOK
<1>3. AllCanonical
  BY <1>1 DEF Init, AllCanonical
<1> QED BY <1>2, <1>3 DEF Init, IInv, CarryOK, LoopOK

\* The client stores a canonical value.
LEMMA ClientStores ==
    ASSUME IInv, pc = "run", NEW r, NEW v \in Value, Canonical(v),
           reg' = [reg EXCEPT ![r] = v], UNCHANGED <<pc, addvars>>
    PROVE  IInv'
<1> USE DEF addvars
<1>1. reg \in [Regs -> Value] /\ \A s \in Regs : Canonical(reg[s])
  BY DEF IInv, TypeOK, AllCanonical
<1>2. reg' \in [Regs -> Value] /\ \A s \in Regs : Canonical(reg'[s])
  BY <1>1
<1>3. TypeOK'
  BY <1>2 DEF IInv, TypeOK
<1>4. AllCanonical'
  BY <1>2 DEF AllCanonical
<1> QED BY <1>3, <1>4 DEF IInv, CarryOK, LoopOK

LEMMA ClientSteps ==
    ASSUME IInv
    PROVE  /\ \A r \in Regs, n \in Ints : Load(r, n) => IInv'
           /\ \A r \in Results, d \in {-1, 1} : IncDec(r, d) => IInv'
           /\ \A r \in Regs : IncDecBignum(r) => IInv'
           /\ \A r, s \in Regs, t \in Results : AddFixnums(r, s, t) => IInv'
<1>1. Results \subseteq Regs /\ \A n \in Ints : n \in Int
  BY BignumConstants DEF BignumConstants
<1>2. \A r \in Regs : reg[r] \in Value /\ INT(reg[r]) \in Int
  BY ValueFacts DEF IInv, TypeOK
<1>3. ASSUME NEW r \in Regs, NEW n \in Ints, Load(r, n) PROVE IInv'
  <2>1. fixmulint_to_scm(n) \in Value /\ Canonical(fixmulint_to_scm(n))
    BY <1>1, FixmulintFacts
  <2> QED BY <1>3, <2>1, ClientStores DEF Load
<1>4. ASSUME NEW r \in Results, NEW d \in {-1, 1}, IncDec(r, d) PROVE IInv'
  <2>1. PICK n \in Int : n = INT(reg[r]) + d
    BY <1>1, <1>2
  <2>2. fixaddint_to_scm(n) \in Value /\ Canonical(fixaddint_to_scm(n))
    BY FixaddintFacts
  <2> QED BY <1>4, <2>1, <2>2, ClientStores DEF IncDec
<1>5. ASSUME NEW r \in Regs, IncDecBignum(r) PROVE IInv'
  <2>1. pc' = "die" /\ UNCHANGED <<reg, addvars>>
    BY <1>5 DEF IncDecBignum
  <2>2. TypeOK' /\ AllCanonical'
    BY <2>1 DEF IInv, TypeOK, AllCanonical, addvars
  <2> QED BY <2>1, <2>2 DEF IInv, CarryOK, LoopOK
<1>6. ASSUME NEW r \in Regs, NEW s \in Regs, NEW t \in Results, AddFixnums(r, s, t)
      PROVE  IInv'
  <2>1. PICK n \in Int : n = INT(reg[r]) + INT(reg[s])
    BY <1>2
  <2>2. fixaddint_to_scm(n) \in Value /\ Canonical(fixaddint_to_scm(n))
    BY FixaddintFacts
  <2> QED BY <1>6, <2>1, <2>2, ClientStores DEF AddFixnums
<1> QED BY <1>3, <1>4, <1>5, <1>6

LEMMA AddStartOK ==
    ASSUME IInv, NEW r \in Regs, NEW s \in Regs, NEW t \in Results, AddStart(r, s, t)
    PROVE  IInv'
<1>1. /\ pc' = "add" /\ a' = reg[r] /\ b' = reg[s] /\ dst' = t
      /\ i' = 0 /\ A' = 0 /\ z' = NoWords /\ last_signs' = 0 /\ reg' = reg
      /\ reg[r].len < MaxWords /\ reg[s].len < MaxWords
  BY DEF AddStart
<1>2. reg[r] \in Value /\ reg[s] \in Value
  BY DEF IInv, TypeOK
<1>3. TypeOK'
  BY <1>1, <1>2, IndexFacts DEF IInv, TypeOK
<1>4. AllCanonical'
  BY <1>1 DEF IInv, AllCanonical
<1>5. Longer'.len \in Nat /\ Longer'.len < MaxWords
  BY <1>1, <1>2, ValueFacts DEF Longer
<1>6. LoopOK'
  BY <1>1, <1>5 DEF LoopOK
<1> QED BY <1>1, <1>3, <1>4, <1>6 DEF IInv, CarryOK

\* What the digit loops read.
LEMMA LoopFacts ==
    ASSUME IInv, pc = "add"
    PROVE  /\ a \in Value /\ b \in Value /\ Shorter \in Value /\ Longer \in Value
           /\ i \in Nat /\ i <= Longer.len /\ Longer.len < MaxWords
           /\ Shorter.len <= Longer.len /\ Longer.len >= 1
           /\ a.len \in Nat /\ b.len \in Nat /\ Longer.len \in Nat /\ Shorter.len \in Nat
           /\ Extend \in Word
<1>1. a \in Value /\ b \in Value /\ i \in Index /\ i <= Longer.len /\ Longer.len < MaxWords
  BY DEF IInv, TypeOK, LoopOK
<1>2. i \in Nat
  BY <1>1, IndexFacts DEF Index
<1>3. Shorter \in Value /\ Longer \in Value
  BY <1>1 DEF Shorter, Longer
<1>4. a.len \in Nat /\ b.len \in Nat /\ Longer.len \in Nat /\ Shorter.len \in Nat /\ Longer.len >= 1
  BY <1>1, <1>3, ValueFacts
<1>5. Shorter.len <= Longer.len
  BY <1>4 DEF Shorter, Longer
<1>6. TopWord(Shorter) \in Word
  BY <1>3, ValueFacts
<1>7. Sign(TopWord(Shorter)) \in {0, 1}
  BY <1>6, WordFacts
<1>8. Extend \in Word
  BY <1>7, WordFacts DEF Extend
<1> QED BY <1>1, <1>2, <1>3, <1>4, <1>5, <1>8

\* The words that are added next are those of the operands, extended.
LEMMA LoopWords ==
    ASSUME IInv, pc = "add"
    PROVE  /\ AddBoth => /\ i < a.len /\ i < b.len /\ i < Longer.len
                         /\ a.words[i] \in Word /\ b.words[i] \in Word
                         /\ WordAt(a, i) = a.words[i] /\ WordAt(b, i) = b.words[i]
           /\ AddLonger => /\ i < Longer.len
                           /\ Longer.words[i] \in Word /\ Extend \in Word
                           /\ \/ /\ a = Shorter /\ b = Longer
                                 /\ WordAt(a, i) = Extend /\ WordAt(b, i) = Longer.words[i]
                              \/ /\ b = Shorter /\ a = Longer
                                 /\ WordAt(b, i) = Extend /\ WordAt(a, i) = Longer.words[i]
<1>1. i \in Index
  BY DEF IInv, TypeOK
<1>2. /\ a.words[i] \in Word /\ b.words[i] \in Word /\ Longer.words[i] \in Word
  BY <1>1, LoopFacts, ValueFacts
<1>3. ASSUME AddBoth
      PROVE  /\ i < a.len /\ i < b.len /\ i < Longer.len
             /\ WordAt(a, i) = a.words[i] /\ WordAt(b, i) = b.words[i]
  <2>1. i < Shorter.len
    BY <1>3 DEF AddBoth
  <2>2. i < a.len /\ i < b.len /\ i < Longer.len
    BY <2>1, LoopFacts DEF Shorter, Longer
  <2> QED BY <2>2 DEF WordAt
<1>4. ASSUME AddLonger
      PROVE  /\ i < Longer.len
             /\ \/ /\ a = Shorter /\ b = Longer
                   /\ WordAt(a, i) = Extend /\ WordAt(b, i) = Longer.words[i]
                \/ /\ b = Shorter /\ a = Longer
                   /\ WordAt(b, i) = Extend /\ WordAt(a, i) = Longer.words[i]
  <2>1. Shorter.len <= i /\ i < Longer.len
    BY <1>4 DEF AddLonger
  <2>2. (a = Shorter /\ b = Longer) \/ (b = Shorter /\ a = Longer)
    BY DEF Shorter, Longer
  <2>3. WordAt(Longer, i) = Longer.words[i]
    BY <2>1 DEF WordAt
  <2>4. WordAt(Shorter, i) = Extend
    BY <2>1, LoopFacts DEF WordAt, Extend
  <2> QED BY <2>1, <2>2, <2>3, <2>4
<1> QED BY <1>2, <1>3, <1>4, LoopFacts

LEMMA AddWordsOK ==
    ASSUME IInv, pc = "add", i < Longer.len, NEW m \in Word, NEW n \in Word,
           AddWords(m, n), Sign(m) + Sign(n) = Sign(WordAt(a, i)) + Sign(WordAt(b, i))
    PROVE  IInv'
<1>1. /\ z' = [z EXCEPT ![i] = DWORD_LO(A + m + n)]
      /\ A' = DWORD_HI(A + m + n)
      /\ last_signs' = Sign(m) + Sign(n)
      /\ i' = i + 1 /\ reg' = reg /\ pc' = pc /\ a' = a /\ b' = b /\ dst' = dst
  BY DEF AddWords
<1>2. A \in {0, 1} /\ i \in Index /\ z \in [Index -> Word]
  BY DEF IInv, TypeOK
<1>3. /\ DWORD_LO(A + m + n) \in Word /\ A' \in {0, 1} /\ last_signs' \in 0..2
      /\ last_signs' = 0 => A' = 0
      /\ last_signs' = 2 => A' = 1
      /\ last_signs' = 1 => A' = 1 - Sign(DWORD_LO(A + m + n))
  BY <1>1, <1>2, AddWordFacts
<1>4. z' \in [Index -> Word] /\ z'[i] = DWORD_LO(A + m + n)
  BY <1>1, <1>2, <1>3
<1>5. i' \in Index /\ i' - 1 = i /\ i' <= Longer.len
  <2>1. i \in Nat /\ Longer.len \in Nat /\ Longer.len < MaxWords
    BY LoopFacts
  <2>2. i + 1 \in Nat /\ i + 1 <= Longer.len /\ i + 1 < MaxWords
    BY <2>1, IndexFacts
  <2> QED BY <1>1, <2>1, <2>2, IndexFacts DEF Index
<1>6. TypeOK'
  BY <1>1, <1>3, <1>4, <1>5 DEF IInv, TypeOK
<1>7. AllCanonical'
  BY <1>1 DEF IInv, AllCanonical
<1>8. Longer' = Longer /\ \A v, k : WordAt(v, k)' = WordAt(v, k)
  BY <1>1 DEF Longer, WordAt
<1>9. LoopOK'
  BY <1>1, <1>5, <1>8 DEF IInv, LoopOK
<1>10. CarryOK'
  <2>1. last_signs' = Sign(WordAt(a, i)) + Sign(WordAt(b, i))
    BY <1>1
  <2>2. last_signs' = Sign(WordAt(a', i' - 1)) + Sign(WordAt(b', i' - 1))
    BY <2>1, <1>1, <1>5
  <2>3. last_signs' = 1 => A' = 1 - Sign(z'[i' - 1])
    BY <1>3, <1>4, <1>5
  <2> QED BY <1>3, <2>2, <2>3 DEF CarryOK
<1> QED BY <1>6, <1>7, <1>9, <1>10 DEF IInv

LEMMA AddBothOK ==
    ASSUME IInv, AddBoth PROVE IInv'
<1>1. pc = "add" /\ AddWords(a.words[i], b.words[i])
  BY DEF AddBoth
<1>2. /\ i < Longer.len /\ a.words[i] \in Word /\ b.words[i] \in Word
      /\ WordAt(a, i) = a.words[i] /\ WordAt(b, i) = b.words[i]
  BY <1>1, LoopWords
<1> QED BY <1>1, <1>2, AddWordsOK

LEMMA AddLongerOK ==
    ASSUME IInv, AddLonger PROVE IInv'
<1>1. pc = "add" /\ AddWords(Longer.words[i], Extend)
  BY DEF AddLonger
<1>2. /\ i < Longer.len /\ Longer.words[i] \in Word /\ Extend \in Word
      /\ \/ WordAt(a, i) = Extend /\ WordAt(b, i) = Longer.words[i]
         \/ WordAt(b, i) = Extend /\ WordAt(a, i) = Longer.words[i]
  BY <1>1, LoopWords
<1>3. Sign(Longer.words[i]) \in Int /\ Sign(Extend) \in Int
  BY <1>2, WordFacts
<1>4. Sign(Longer.words[i]) + Sign(Extend) = Sign(WordAt(a, i)) + Sign(WordAt(b, i))
  BY <1>2, <1>3
<1> QED BY <1>1, <1>2, <1>4, AddWordsOK

\* The overflow word is needed: it is the extension of the other sign.
LEMMA AddOverflowOK ==
    ASSUME IInv, AddOverflow PROVE IInv'
<1> DEFINE s == IF last_signs = 2 THEN 1 ELSE 0
<1>1. /\ pc = "add" /\ pc' = "store" /\ i = Longer.len /\ NeedOverflow
      /\ z' = [z EXCEPT ![i] = SignExtension(s)]
      /\ reg' = reg /\ a' = a /\ b' = b /\ dst' = dst /\ i' = i /\ A' = A
      /\ last_signs' = last_signs
  BY DEF AddOverflow
<1>2. i \in Nat /\ i >= 1 /\ i < MaxWords
  BY <1>1, LoopFacts
<1>3. i \in Index /\ i - 1 \in Index /\ i # i - 1 /\ i # 0 /\ i + 1 \in 2..MaxWords
  BY <1>2, IndexFacts DEF Index
<1>4. s \in {0, 1} /\ SignExtension(s) \in Word /\ Sign(SignExtension(s)) = s
  BY WordFacts
<1>5. z \in [Index -> Word] /\ z[i - 1] \in Word
  BY <1>3 DEF IInv, TypeOK
<1>6. z' \in [Index -> Word] /\ z'[i] = SignExtension(s) /\ z'[i - 1] = z[i - 1]
  BY <1>1, <1>3, <1>4, <1>5
<1>7. Sign(z[i - 1]) = 1 - s
  BY <1>1 DEF NeedOverflow, Sign
<1>8. z'[i] # SignExtension(Sign(z'[i - 1]))
  <2>1. Sign(z[i - 1]) \in {0, 1} /\ Sign(z[i - 1]) # s
    BY <1>4, <1>7
  <2>2. Sign(SignExtension(Sign(z[i - 1]))) = Sign(z[i - 1])
    BY <2>1, WordFacts
  <2> QED BY <1>4, <1>6, <2>1, <2>2
<1> HIDE DEF s
<1>9. TypeOK'
  BY <1>1, <1>6 DEF IInv, TypeOK
<1>10. AllCanonical'
  BY <1>1 DEF IInv, AllCanonical
<1>11. Canonical(Number("bignum", z', i + 1))
  <2>1. \A k \in 0..((i + 1) - 1) : z'[k] \in Word
    <3>1. \A k \in 0..((i + 1) - 1) : k \in Index
      BY <1>2, IndexFacts DEF Index
    <3> QED BY <1>6, <3>1
  <2>2. (i + 1) - 1 = i /\ (i + 1) - 2 = i - 1
    BY <1>2
  <2>3. z'[(i + 1) - 1] # SignExtension(Sign(z'[(i + 1) - 2]))
    BY <1>8, <2>2
  <2> QED BY <1>3, <2>1, <2>3, LongFacts
<1>12. Sum' = Number("bignum", z', i + 1)
  BY <1>1, <1>3 DEF Sum
<1>13. LoopOK'
  BY <1>1, <1>11, <1>12 DEF LoopOK, Canonical, TopWord, is_fixnum
<1> QED BY <1>1, <1>9, <1>10, <1>13 DEF IInv, CarryOK

LEMMA AddNoOverflowOK ==
    ASSUME IInv, AddNoOverflow PROVE IInv'
<1>1. /\ pc = "add" /\ pc' = "reduce" /\ i = Longer.len /\ i' = i - 1
      /\ reg' = reg /\ a' = a /\ b' = b /\ dst' = dst /\ A' = A /\ z' = z
      /\ last_signs' = last_signs
  BY DEF AddNoOverflow
<1>2. i' \in Index
  BY <1>1, LoopFacts, IndexFacts DEF Index
<1>3. TypeOK'
  BY <1>1, <1>2 DEF IInv, TypeOK
<1> QED BY <1>1, <1>3 DEF IInv, AllCanonical, CarryOK, LoopOK

LEMMA ReduceOK ==
    ASSUME IInv, Reduce PROVE IInv'
<1>1. /\ pc = "reduce" /\ i > 0 /\ i' = i - 1
      /\ reg' = reg /\ pc' = pc /\ a' = a /\ b' = b /\ dst' = dst /\ A' = A /\ z' = z
      /\ last_signs' = last_signs
  BY DEF Reduce, Redundant
<1>2. i' \in Index
  BY <1>1, IndexFacts DEF Index, IInv, TypeOK
<1>3. TypeOK'
  BY <1>1, <1>2 DEF IInv, TypeOK
<1> QED BY <1>1, <1>3 DEF IInv, AllCanonical, CarryOK, LoopOK

\* The sum of words that are not redundant is canonical.
LEMMA SumFacts ==
    ASSUME TypeOK, ~ Redundant PROVE Sum \in Value /\ Canonical(Sum)
<1>1. i \in Index /\ z \in [Index -> Word] /\ i \in Nat /\ i < MaxWords
  BY IndexFacts DEF TypeOK, Index
<1>2. CASE i = 0
  <2>1. z[0] \in Word /\ z[0] \in Int
    BY <1>1, <1>2, WordFacts
  <2>2. CASE IS_IN_FIX_RANGE(SignedWord(z[0]))
    BY <1>2, <2>1, <2>2, FixFacts DEF Sum
  <2>3. CASE ~ IS_IN_FIX_RANGE(SignedWord(z[0]))
    <3>1. Sum = Number("bignum", z, 1)
      BY <1>2, <2>3 DEF Sum
    <3> QED BY <2>1, <2>3, <3>1, OneWordFacts
  <2> QED BY <2>2, <2>3
<1>3. CASE i # 0
  <2>1. /\ i > 0 /\ i - 1 \in Index /\ i + 1 \in 2..MaxWords
        /\ (i + 1) - 1 = i /\ (i + 1) - 2 = i - 1
    BY <1>1, <1>3, IndexFacts DEF Index
  <2>2. Sum = Number("bignum", z, i + 1)
    BY <1>3 DEF Sum
  <2>3. \A k \in 0..((i + 1) - 1) : z[k] \in Word
    BY <1>1, <2>1, IndexFacts DEF Index
  <2>4. z[i] # SignExtension(Sign(z[i - 1]))
    <3>1. SUFFICES ASSUME z[i] = SignExtension(Sign(z[i - 1])) PROVE FALSE
      OBVIOUS
    <3>2. Sign(z[i - 1]) \in {0, 1}
      BY <1>1, <2>1, WordFacts
    <3>3. Sign(z[i]) = Sign(z[i - 1])
      BY <3>1, <3>2, WordFacts
    <3> QED BY <2>1, <3>1, <3>3 DEF Redundant
  <2> QED BY <2>1, <2>2, <2>3, <2>4, LongFacts
<1> QED BY <1>2, <1>3

LEMMA ReducedOK ==
    ASSUME IInv, Reduced PROVE IInv'
<1>1. /\ pc = "reduce" /\ ~ Redundant /\ pc' = "store"
      /\ reg' = reg /\ a' = a /\ b' = b /\ dst' = dst /\ i' = i /\ A' = A /\ z' = z
      /\ last_signs' = last_signs
  BY DEF Reduced, addvars
<1>2. Canonical(Sum)
  BY <1>1, SumFacts DEF IInv
<1>3. Canonical(Sum)'
  BY <1>1, <1>2 DEF Sum, Canonical, TopWord, is_fixnum
<1>4. TypeOK' /\ AllCanonical'
  BY <1>1 DEF IInv, TypeOK, AllCanonical
<1> QED BY <1>1, <1>3, <1>4 DEF IInv, CarryOK, LoopOK

LEMMA SumIsValue ==
    ASSUME TypeOK PROVE Sum \in Value
<1>1. i \in Index /\ z \in [Index -> Word] /\ i \in Nat /\ i < MaxWords
  BY IndexFacts DEF TypeOK, Index
<1>2. i + 1 \in 1..MaxWords
  BY <1>1, IndexFacts
<1>3. \A k \in 0..((i + 1) - 1) : k \in Index
  BY <1>1, IndexFacts DEF Index
<1>4. \A k \in 0..((i + 1) - 1) : z[k] \in Word
  BY <1>1, <1>3
<1>5. Number("bignum", z, i + 1) \in Value
  BY <1>2, <1>4, NumberFacts
<1>6. z[0] \in Int
  BY <1>1, IndexFacts, WordFacts
<1> QED BY <1>5, <1>6, FixFacts DEF Sum

LEMMA StoreOK ==
    ASSUME IInv, Store PROVE IInv'
<1>1. /\ pc = "store" /\ pc' = "run" /\ reg' = [reg EXCEPT ![dst] = Sum]
      /\ a' = FIX(0) /\ b' = FIX(0)
      /\ i' = 0 /\ A' = 0 /\ z' = NoWords /\ last_signs' = 0 /\ dst' = dst
  BY DEF Store
<1>2. Sum \in Value
  BY SumIsValue DEF IInv
<1>3. Canonical(Sum)
  BY <1>1 DEF IInv, LoopOK
<1>4. /\ reg \in [Regs -> Value] /\ dst \in Results
      /\ \A r \in Regs : Canonical(reg[r])
  BY DEF IInv, TypeOK, AllCanonical
<1>5. reg' \in [Regs -> Value] /\ \A r \in Regs : Canonical(reg'[r])
  BY <1>1, <1>2, <1>3, <1>4
<1>6. TypeOK'
  BY <1>1, <1>4, <1>5, FixFacts, IndexFacts DEF TypeOK
<1>7. AllCanonical'
  BY <1>5 DEF AllCanonical
<1> QED BY <1>1, <1>6, <1>7 DEF IInv, CarryOK, LoopOK

LEMMA BignumStep ==
    ASSUME IInv, [Next]_vars PROVE IInv'
<1>1. CASE UNCHANGED vars
  BY <1>1 DEF vars, addvars, IInv, TypeOK, AllCanonical, CarryOK, LoopOK, Longer,
              Sum, Canonical, TopWord, is_fixnum, WordAt
<1>2. CASE Next
  BY <1>2, ClientSteps, AddStartOK, AddBothOK, AddLongerOK, AddOverflowOK,
     AddNoOverflowOK, ReduceOK, ReducedOK, StoreOK DEF Next
<1> QED BY <1>1, <1>2

\* The inductive invariant of Bignum: types, canonical integers, and in the
\* digit loops of bignum_add the relation of carry and signs.
THEOREM BignumInvariant == Spec => []IInv
<1>1. Init => IInv
  BY BignumInit
<1>2. IInv /\ [Next]_vars => IInv'
  BY BignumStep
<1> QED BY <1>1, <1>2, PTL DEF Spec

\* The words, the carry (a single bit) and the indices of bignum_add stay in
\* range: no digit is written past the words that were allocated.
THEOREM BignumTypeOK == Spec => []TypeOK
<1>1. IInv => TypeOK
  BY DEF IInv
<1> QED BY <1>1, BignumInvariant, PTL

\* Every integer that fixmulint_to_scm, scm_inc, scm_dec and scm_add produce
\* is canonical: a fixnum if it fits, without redundant top words if not.
THEOREM CanonicalHolds == Spec => []AllCanonical
<1>1. IInv => AllCanonical
  BY DEF IInv
<1> QED BY <1>1, BignumInvariant, PTL

-----------------------------------------------------------------------------
(***************************************************************************)
(* bignum_add computes the sum of its operands.  The powers of the base    *)
(* and the partial sums of words are any functions that satisfy their      *)
(* recurrences.                                                            *)
(***************************************************************************)
(***************************************************************************)
(* Arithmetic.                                                             *)
(***************************************************************************)
\* A digit and its carry weigh what was added.
LEMMA DigitAndCarry ==
    ASSUME NEW u \in Int, NEW lo \in Int, NEW hi \in Int, NEW c \in Int, NEW m \in Int,
           NEW n \in Int, NEW d \in Int, NEW x \in Int, NEW y \in Int, NEW B \in Int,
           lo + B * hi = c + m + n, u + c * d = x + y
    PROVE  u + lo * d + hi * (B * d) = (x + m * d) + (y + n * d)
<1>1. (lo + B * hi) * d = lo * d + hi * (B * d)
  OBVIOUS
<1>2. (c + m + n) * d = c * d + m * d + n * d
  OBVIOUS
<1>3. lo * d \in Int /\ hi * (B * d) \in Int /\ c * d \in Int /\ m * d \in Int /\ n * d \in Int
  OBVIOUS
<1>4. lo * d + hi * (B * d) = c * d + m * d + n * d
  BY <1>1, <1>2
<1> QED BY <1>3, <1>4

\* A sign extension weighs the difference of two powers.
LEMMA ExtensionWeight ==
    ASSUME NEW s \in {0, 1}, NEW d \in Int
    PROVE  /\ SignExtension(s) * d = s * (Base * d) - s * d
           /\ s * (Base * d) \in Int /\ s * d \in Int
<1>1. Base \in Int
  BY WordFacts
<1>2. CASE s = 0
  BY <1>1, <1>2 DEF SignExtension
<1>3. CASE s = 1
  <2>1. (Base - 1) * d = Base * d - d
    BY <1>1
  <2>2. Base * d \in Int
    BY <1>1
  <2> QED BY <1>3, <2>1, <2>2 DEF SignExtension
<1> QED BY <1>2, <1>3

\* The signs of two operands and a carry, weighted.
LEMMA SignsWeight ==
    ASSUME NEW u \in Int, NEW c \in Int, NEW d \in Int, NEW x \in Int, NEW y \in Int,
           NEW s \in Int, NEW t \in Int, u + c * d = (x + s * d) + (y + t * d)
    PROVE  u = x + y + (s + t - c) * d
<1>1. (s + t - c) * d = s * d + t * d - c * d
  OBVIOUS
<1>2. s * d \in Int /\ t * d \in Int /\ c * d \in Int
  OBVIOUS
<1> QED BY <1>1, <1>2

\* The powers are integers, each Base times the one before.
LEMMA PowerFacts ==
    ASSUME NEW p, Powers(p)
    PROVE  /\ \A k \in 0..MaxWords : p[k] \in Int
           /\ \A k \in Index : p[k + 1] = Base * p[k]
  BY DEF Powers

\* What one more word contributes to the sum.
LEMMA NextContribution ==
    ASSUME NEW v \in Value, NEW k \in Index, NEW p, NEW f,
           Powers(p), PartialSums(f, v.words, v.len, p)
    PROVE  /\ Contribution(v, k, f, p) \in Int
           /\ Contribution(v, k + 1, f, p) = Contribution(v, k, f, p) + WordAt(v, k) * p[k]
<1>1. /\ v.len \in Nat /\ v.len >= 1 /\ v.len <= MaxWords /\ MaxWords \in Nat
      /\ TopWord(v) \in Word /\ v.words[k] \in Word
  BY ValueFacts, IndexFacts
<1>2. /\ k \in Nat /\ k < MaxWords /\ k \in 0..MaxWords /\ k + 1 \in 0..MaxWords
      /\ v.len \in 0..MaxWords
  BY <1>1 DEF Index
<1>3. p[k] \in Int /\ p[k + 1] \in Int /\ p[v.len] \in Int /\ p[k + 1] = Base * p[k]
  BY <1>2, PowerFacts
<1>4. f[k] \in Int /\ f[k + 1] \in Int /\ f[v.len] \in Int
  BY <1>2 DEF PartialSums
<1> DEFINE s == Sign(TopWord(v))
<1>5. s \in {0, 1}
  BY <1>1, WordFacts
<1>6. CASE k < v.len
  <2>1. k \in 0..(v.len - 1)
    BY <1>1, <1>2, <1>6
  <2>2. f[k + 1] = f[k] + v.words[k] * p[k]
    BY <2>1 DEF PartialSums
  <2>3. WordAt(v, k) = v.words[k]
    BY <1>6 DEF WordAt
  <2>4. k <= v.len /\ k + 1 <= v.len
    BY <1>1, <1>2, <1>6
  <2>5. Contribution(v, k, f, p) = f[k] /\ Contribution(v, k + 1, f, p) = f[k + 1]
    BY <2>4 DEF Contribution
  <2> QED BY <1>4, <2>2, <2>3, <2>5
<1>7. CASE v.len <= k
  <2>1. WordAt(v, k) = SignExtension(s)
    BY <1>1, <1>2, <1>7 DEF WordAt
  <2>2. Contribution(v, k + 1, f, p) = f[v.len] + s * (p[k + 1] - p[v.len])
    BY <1>1, <1>2, <1>7 DEF Contribution
  <2>3. Contribution(v, k, f, p) = f[v.len] + s * (p[k] - p[v.len])
    <3>1. CASE k = v.len
      <4>1. Contribution(v, k, f, p) = f[k]
        BY <1>1, <3>1 DEF Contribution
      <4>2. s * (p[k] - p[v.len]) = 0
        BY <1>3, <1>5, <3>1
      <4> QED BY <1>4, <3>1, <4>1, <4>2
    <3>2. CASE k # v.len
      BY <1>1, <1>2, <1>7, <3>2 DEF Contribution
    <3> QED BY <3>1, <3>2
  <2>4. SignExtension(s) * p[k] = s * p[k + 1] - s * p[k]
    BY <1>3, <1>5, ExtensionWeight
  <2> HIDE DEF s
  <2>5. CASE s = 0
    BY <1>3, <1>4, <2>1, <2>2, <2>3, <2>4, <2>5
  <2>6. CASE s = 1
    BY <1>3, <1>4, <2>1, <2>2, <2>3, <2>4, <2>6
  <2> QED BY <1>5, <2>5, <2>6
<1> QED BY <1>1, <1>2, <1>6, <1>7

\* Once every word of v was added, it has contributed what it denotes and,
\* if it is negative, the power that its sign stands for.
LEMMA WholeContribution ==
    ASSUME NEW v \in Value, NEW k \in Index, v.len <= k, NEW p, NEW f,
           Powers(p), PartialSums(f, v.words, v.len, p)
    PROVE  /\ DenotedBy(v, f, p) \in Int /\ p[k] \in Int
           /\ Sign(TopWord(v)) \in {0, 1}
           /\ Contribution(v, k, f, p) = DenotedBy(v, f, p) + Sign(TopWord(v)) * p[k]
           /\ Sign(WordAt(v, k - 1)) = Sign(TopWord(v))
<1>1. /\ v.len \in Nat /\ v.len >= 1 /\ v.len <= MaxWords /\ MaxWords \in Nat
      /\ TopWord(v) \in Word
  BY ValueFacts, IndexFacts
<1>2. /\ k \in Nat /\ k \in 0..MaxWords /\ v.len \in 0..MaxWords
  BY <1>1 DEF Index
<1>3. p[k] \in Int /\ p[v.len] \in Int /\ f[v.len] \in Int
  BY <1>2, PowerFacts DEF PartialSums
<1> DEFINE s == Sign(TopWord(v))
<1>4. s \in {0, 1}
  BY <1>1, WordFacts
<1>5. DenotedBy(v, f, p) = f[v.len] - s * p[v.len]
  BY DEF DenotedBy, Denoted, TopWord
<1>6. Contribution(v, k, f, p) = IF k = v.len THEN f[v.len]
                                 ELSE f[v.len] + s * (p[k] - p[v.len])
  BY <1>1, <1>2 DEF Contribution
<1>7. Sign(WordAt(v, k - 1)) = s
  <2>1. CASE k = v.len
    <3>1. k - 1 < v.len
      BY <1>1, <2>1
    <3> QED BY <2>1, <3>1 DEF WordAt, TopWord
  <2>2. CASE k # v.len
    <3>1. ~ (k - 1 < v.len)
      BY <1>1, <1>2, <2>2
    <3>2. WordAt(v, k - 1) = SignExtension(s)
      BY <3>1 DEF WordAt
    <3> QED BY <1>4, <3>2, WordFacts
  <2> QED BY <2>1, <2>2
<1>8. CASE s = 0
  BY <1>3, <1>5, <1>6, <1>7, <1>8
<1>9. CASE s = 1
  BY <1>3, <1>5, <1>6, <1>7, <1>9
<1> QED BY <1>4, <1>8, <1>9

-----------------------------------------------------------------------------
(***************************************************************************)
(* The steps of bignum_add keep SumInv.                                    *)
(***************************************************************************)
\* One turn of a digit loop.
LEMMA AddWordsSum ==
    ASSUME IInv, SumInv, pc = "add", i < Longer.len, NEW m \in Word, NEW n \in Word,
           AddWords(m, n),
           \/ m = WordAt(a, i) /\ n = WordAt(b, i)
           \/ n = WordAt(a, i) /\ m = WordAt(b, i)
    PROVE  SumInv'
<1>1. /\ z' = [z EXCEPT ![i] = DWORD_LO(A + m + n)]
      /\ A' = DWORD_HI(A + m + n)
      /\ i' = i + 1 /\ pc' = pc /\ a' = a /\ b' = b
  BY DEF AddWords
<1>2. /\ A \in {0, 1} /\ i \in Index /\ z \in [Index -> Word]
      /\ a \in Value /\ b \in Value
  BY DEF IInv, TypeOK
<1>3. i \in Nat /\ i + 1 \in Nat /\ i \in 0..MaxWords /\ i + 1 \in 0..MaxWords
  BY <1>2, IndexFacts DEF Index
<1>4. SUFFICES ASSUME NEW p, NEW fa, NEW fb, NEW fz, Powers(p),
                      PartialSums(fa, a.words, a.len, p), PartialSums(fb, b.words, b.len, p),
                      PartialSums(fz, z', i + 1, p)
               PROVE  fz[i + 1] + A' * p[i + 1]
                        = Contribution(a, i + 1, fa, p) + Contribution(b, i + 1, fb, p)
  <2>1. Summed' = i + 1
    BY <1>1 DEF Summed
  <2>2. SUFFICES ASSUME NEW p, NEW fa, NEW fb, NEW fz, Powers(p)',
                        PartialSums(fa, a.words, a.len, p)',
                        PartialSums(fb, b.words, b.len, p)',
                        PartialSums(fz, z, Summed, p)'
                 PROVE  SumsAddUp(p, fa, fb, fz)'
    BY DEF SumInv
  <2>3. /\ Powers(p)
        /\ PartialSums(fa, a.words, a.len, p) /\ PartialSums(fb, b.words, b.len, p)
        /\ PartialSums(fz, z', i + 1, p)
    BY <1>1, <2>1, <2>2 DEF Powers, PartialSums
  <2>4. fz[i + 1] + A' * p[i + 1]
          = Contribution(a, i + 1, fa, p) + Contribution(b, i + 1, fb, p)
    BY <1>4, <2>3
  <2> QED BY <1>1, <2>4 DEF SumsAddUp, Contribution
<1>5. PartialSums(fz, z, i, p)
  <2>1. \A k \in 0..(i - 1) : k \in 0..((i + 1) - 1) /\ k # i
    BY <1>3
  <2>2. \A k \in Index : k # i => z'[k] = z[k]
    BY <1>1, <1>2
  <2>3. \A k \in 0..(i - 1) : k \in Index
    BY <1>2, <1>3, IndexFacts DEF Index
  <2> QED BY <1>4, <2>1, <2>2, <2>3 DEF PartialSums
<1>6. fz[i] + A * p[i] = Contribution(a, i, fa, p) + Contribution(b, i, fb, p)
  <2>1. Summed = i
    BY DEF Summed
  <2> QED BY <1>4, <1>5, <2>1 DEF SumInv, SumsAddUp
<1>7. /\ fz[i] \in Int /\ p[i] \in Int
      /\ fz[i + 1] = fz[i] + z'[i] * p[i] /\ p[i + 1] = Base * p[i]
  <2>1. i \in 0..((i + 1) - 1)
    BY <1>3
  <2> QED BY <1>2, <1>3, <1>4, <2>1, PowerFacts DEF PartialSums
<1>8. /\ DWORD_LO(A + m + n) \in Word /\ A' \in {0, 1}
      /\ DWORD_LO(A + m + n) + Base * A' = A + m + n /\ z'[i] = DWORD_LO(A + m + n)
  BY <1>1, <1>2, AddWordFacts
<1>9. /\ Contribution(a, i, fa, p) \in Int
      /\ Contribution(a, i + 1, fa, p) = Contribution(a, i, fa, p) + WordAt(a, i) * p[i]
      /\ Contribution(b, i, fb, p) \in Int
      /\ Contribution(b, i + 1, fb, p) = Contribution(b, i, fb, p) + WordAt(b, i) * p[i]
  BY <1>2, <1>4, NextContribution
<1>10. /\ z'[i] \in Int /\ A \in Int /\ A' \in Int /\ m \in Int /\ n \in Int /\ Base \in Int
       /\ WordAt(a, i) \in Int /\ WordAt(b, i) \in Int
       /\ z'[i] + Base * A' = A + WordAt(a, i) + WordAt(b, i)
  <2>1. /\ z'[i] \in Int /\ A \in Int /\ A' \in Int /\ m \in Int /\ n \in Int /\ Base \in Int
    <3>1. Word \subseteq Int /\ Base \in Int
      BY WordFacts
    <3>2. z'[i] \in Word
      BY <1>8
    <3>3. m \in Int /\ n \in Int /\ z'[i] \in Int
      BY <3>1, <3>2
    <3>4. A \in Int /\ A' \in Int
      BY <1>2, <1>8
    <3> QED BY <3>1, <3>3, <3>4
  <2>2. z'[i] + Base * A' = A + m + n
    BY <1>8
  <2>3. CASE m = WordAt(a, i) /\ n = WordAt(b, i)
    BY <2>1, <2>2, <2>3
  <2>4. CASE n = WordAt(a, i) /\ m = WordAt(b, i)
    <3>1. A + m + n = A + n + m
      BY <2>1
    <3> QED BY <2>1, <2>2, <2>4, <3>1
  <2> QED BY <2>3, <2>4
<1>11. fz[i] + z'[i] * p[i] + A' * (Base * p[i])
         = (Contribution(a, i, fa, p) + WordAt(a, i) * p[i])
             + (Contribution(b, i, fb, p) + WordAt(b, i) * p[i])
  <2> DEFINE x == Contribution(a, i, fa, p)
             y == Contribution(b, i, fb, p)
             wa == WordAt(a, i)
             wb == WordAt(b, i)
             lo == z'[i]
             hi == A'
             u == fz[i]
             d == p[i]
  <2>1. /\ u \in Int /\ lo \in Int /\ hi \in Int /\ A \in Int /\ wa \in Int /\ wb \in Int
        /\ d \in Int /\ x \in Int /\ y \in Int /\ Base \in Int
        /\ lo + Base * hi = A + wa + wb /\ u + A * d = x + y
    BY <1>6, <1>7, <1>9, <1>10
  <2> HIDE DEF x, y, wa, wb, lo, hi, u, d
  <2>2. u + lo * d + hi * (Base * d) = (x + wa * d) + (y + wb * d)
    BY <2>1, DigitAndCarry
  <2> QED BY <2>2 DEF x, y, wa, wb, lo, hi, u, d
<1> QED BY <1>7, <1>9, <1>11

LEMMA LoopsSum ==
    ASSUME IInv, SumInv PROVE (AddBoth => SumInv') /\ (AddLonger => SumInv')
<1>1. ASSUME AddBoth PROVE SumInv'
  <2>1. pc = "add" /\ AddWords(a.words[i], b.words[i])
    BY <1>1 DEF AddBoth
  <2>2. /\ i < Longer.len /\ a.words[i] \in Word /\ b.words[i] \in Word
        /\ WordAt(a, i) = a.words[i] /\ WordAt(b, i) = b.words[i]
    BY <1>1, <2>1, LoopWords
  <2> QED BY <2>1, <2>2, AddWordsSum
<1>2. ASSUME AddLonger PROVE SumInv'
  <2>1. pc = "add" /\ AddWords(Longer.words[i], Extend)
    BY <1>2 DEF AddLonger
  <2>2. /\ i < Longer.len /\ Longer.words[i] \in Word /\ Extend \in Word
        /\ \/ WordAt(a, i) = Extend /\ WordAt(b, i) = Longer.words[i]
           \/ WordAt(b, i) = Extend /\ WordAt(a, i) = Longer.words[i]
    BY <1>2, <2>1, LoopWords
  <2> QED BY <2>1, <2>2, AddWordsSum
<1> QED BY <1>1, <1>2

\* After the loops the words added denote the sum, but for the signs of the
\* operands and the carry.
LEMMA LoopsDone ==
    ASSUME IInv, SumInv, pc = "add", i = Longer.len, NEW p, NEW fa, NEW fb, NEW fz,
           Powers(p), PartialSums(fa, a.words, a.len, p), PartialSums(fb, b.words, b.len, p),
           PartialSums(fz, z, i, p)
    PROVE  /\ fz[i] \in Int /\ p[i] \in Int /\ last_signs \in 0..2 /\ A \in {0, 1}
           /\ fz[i] = DenotedBy(a, fa, p) + DenotedBy(b, fb, p) + (last_signs - A) * p[i]
           /\ DenotedBy(a, fa, p) \in Int /\ DenotedBy(b, fb, p) \in Int
<1>1. i \in Index /\ a \in Value /\ b \in Value /\ last_signs \in 0..2 /\ A \in {0, 1}
  BY DEF IInv, TypeOK
<1>2. i \in Nat /\ i > 0 /\ a.len \in Nat /\ b.len \in Nat /\ i \in 0..MaxWords
  BY <1>1, LoopFacts, IndexFacts
<1>3. a.len <= i /\ b.len <= i
  BY <1>2 DEF Longer
<1> DEFINE sa == Sign(TopWord(a))
           sb == Sign(TopWord(b))
           da == DenotedBy(a, fa, p)
           db == DenotedBy(b, fb, p)
<1>4. /\ da \in Int /\ db \in Int /\ p[i] \in Int /\ sa \in {0, 1} /\ sb \in {0, 1}
      /\ Contribution(a, i, fa, p) = da + sa * p[i]
      /\ Contribution(b, i, fb, p) = db + sb * p[i]
      /\ Sign(WordAt(a, i - 1)) = sa /\ Sign(WordAt(b, i - 1)) = sb
  <2>1. /\ da \in Int /\ p[i] \in Int /\ sa \in {0, 1}
        /\ Contribution(a, i, fa, p) = da + sa * p[i]
        /\ Sign(WordAt(a, i - 1)) = sa
    BY ONLY <1>1, <1>3, Powers(p), PartialSums(fa, a.words, a.len, p), WholeContribution
  <2>2. /\ db \in Int /\ sb \in {0, 1}
        /\ Contribution(b, i, fb, p) = db + sb * p[i]
        /\ Sign(WordAt(b, i - 1)) = sb
    BY ONLY <1>1, <1>3, Powers(p), PartialSums(fb, b.words, b.len, p), WholeContribution
  <2> QED BY <2>1, <2>2
<1>5. last_signs = sa + sb
  BY <1>2, <1>4 DEF IInv, CarryOK
<1>6. fz[i] + A * p[i] = Contribution(a, i, fa, p) + Contribution(b, i, fb, p)
  <2>1. Summed = i
    BY DEF Summed
  <2> QED BY <2>1 DEF SumInv, SumsAddUp
<1>7. fz[i] \in Int
  BY <1>2 DEF PartialSums
<1> HIDE DEF sa, sb, da, db
<1>8. fz[i] + A * p[i] = (da + sa * p[i]) + (db + sb * p[i])
  BY <1>4, <1>6
<1>9. \E d, u \in Int : d = p[i] /\ u = fz[i]
  BY <1>4, <1>7
<1>10. fz[i] = da + db + (last_signs - A) * p[i]
  <2>1. PICK d \in Int, u \in Int : d = p[i] /\ u = fz[i]
    BY <1>9
  <2>2. sa \in Int /\ sb \in Int /\ A \in Int
    BY <1>1, <1>4
  <2>3. u + A * d = (da + sa * d) + (db + sb * d)
    BY <1>8, <2>1
  <2>4. u = da + db + (sa + sb - A) * d
    BY ONLY <1>4, <2>2, <2>3, d \in Int, u \in Int, SignsWeight
  <2>5. last_signs - A = sa + sb - A
    BY ONLY <1>5, <2>2
  <2>6. da + db + (last_signs - A) * d = da + db + (sa + sb - A) * d
    BY <2>5, Zenon
  <2> QED BY <2>1, <2>4, <2>6, Zenon
<1> QED BY <1>1, <1>4, <1>7, <1>10 DEF da, db

\* The sign of the last word is what is left of the signs and the carry,
\* unless there is an overflow word to say so.
LEMMA SignsAndCarry ==
    ASSUME IInv, pc = "add", i = Longer.len
    PROVE  /\ ~ NeedOverflow => last_signs - A = Sign(z[i - 1])
           /\ NeedOverflow => last_signs - A = IF last_signs = 2 THEN 1 ELSE 0
<1>1. i > 0 /\ i - 1 \in Index
  BY LoopFacts, IndexFacts DEF Index
<1>2. /\ last_signs \in 0..2 /\ A \in {0, 1}
      /\ last_signs = 0 => A = 0
      /\ last_signs = 2 => A = 1
      /\ last_signs = 1 => A = 1 - Sign(z[i - 1])
  BY <1>1 DEF IInv, TypeOK, CarryOK
<1>3. Sign(z[i - 1]) = IF WORD_IS_NEGATIVE(z[i - 1]) THEN 1 ELSE 0
  BY DEF Sign
<1> QED BY <1>2, <1>3 DEF NeedOverflow

\* The words that a denotation depends on.
LEMMA AddNoOverflowSum ==
    ASSUME IInv, SumInv, AddNoOverflow PROVE SumInv'
<1>1. /\ pc = "add" /\ pc' = "reduce" /\ i = Longer.len /\ ~ NeedOverflow /\ i' = i - 1
      /\ a' = a /\ b' = b /\ z' = z
  BY DEF AddNoOverflow
<1>2. i' + 1 = i /\ i \in Int
  BY <1>1, LoopFacts
<1>3. SUFFICES ASSUME NEW p, NEW fa, NEW fb, NEW fz, Powers(p)',
                      PartialSums(fa, a.words, a.len, p)',
                      PartialSums(fb, b.words, b.len, p)',
                      PartialSums(fz, z, Summed, p)'
               PROVE  SumsAddUp(p, fa, fb, fz)'
  BY DEF SumInv
<1>4. /\ Powers(p)
      /\ PartialSums(fa, a.words, a.len, p) /\ PartialSums(fb, b.words, b.len, p)
      /\ PartialSums(fz, z, i, p)
  BY <1>1, <1>2, <1>3 DEF Powers, PartialSums, Summed
<1> DEFINE d == p[i]
           u == fz[i]
           da == DenotedBy(a, fa, p)
           db == DenotedBy(b, fb, p)
           s == Sign(z[i - 1])
<1>5. /\ u \in Int /\ d \in Int /\ da \in Int /\ db \in Int
      /\ u = da + db + (last_signs - A) * d
  BY <1>1, <1>4, LoopsDone
<1>6. last_signs - A = s /\ s \in {0, 1}
  BY <1>1, SignsAndCarry DEF Sign
<1>7. DenotedBy(a, fa, p)' = da /\ DenotedBy(b, fb, p)' = db
  BY <1>1 DEF DenotedBy, Denoted, TopWord
<1>8. Denoted(z', i' + 1, fz, p) = u - s * d
  BY <1>1, <1>2 DEF Denoted
<1> HIDE DEF d, u, da, db, s
<1>9. u = da + db + s * d
  BY <1>5, <1>6, Zenon
<1>10. s * d \in Int
  BY <1>5, <1>6
<1>11. Denoted(z', i' + 1, fz, p) = da + db
  BY <1>5, <1>8, <1>9, <1>10
<1> QED BY <1>1, <1>7, <1>11 DEF SumsAddUp, Denoted, DenotedBy

LEMMA AddOverflowSum ==
    ASSUME IInv, SumInv, AddOverflow PROVE SumInv'
<1> DEFINE s == IF last_signs = 2 THEN 1 ELSE 0
<1>1. /\ pc = "add" /\ pc' = "store" /\ i = Longer.len /\ NeedOverflow /\ i' = i
      /\ a' = a /\ b' = b /\ z' = [z EXCEPT ![i] = SignExtension(s)]
  BY DEF AddOverflow
<1>2. i \in Nat /\ i \in Index /\ (i + 1) - 1 = i /\ z \in [Index -> Word] /\ i < MaxWords
  BY <1>1, LoopFacts, IndexFacts DEF IInv, TypeOK, Index
<1>3. SUFFICES ASSUME NEW p, NEW fa, NEW fb, NEW fz, Powers(p)',
                      PartialSums(fa, a.words, a.len, p)',
                      PartialSums(fb, b.words, b.len, p)',
                      PartialSums(fz, z, Summed, p)'
               PROVE  SumsAddUp(p, fa, fb, fz)'
  BY DEF SumInv
<1>4. /\ Powers(p)
      /\ PartialSums(fa, a.words, a.len, p) /\ PartialSums(fb, b.words, b.len, p)
      /\ PartialSums(fz, z', i + 1, p)
  BY <1>1, <1>3 DEF Powers, PartialSums, Summed
<1>5. PartialSums(fz, z, i, p) /\ fz[i + 1] = fz[i] + z'[i] * p[i]
  <2>1. i \in 0..((i + 1) - 1) /\ \A k \in 0..(i - 1) : k \in 0..((i + 1) - 1) /\ k # i
    BY <1>2
  <2>2. \A k \in Index : k # i => z'[k] = z[k]
    BY <1>1, <1>2
  <2>3. \A k \in 0..(i - 1) : k \in Index
    BY <1>2, IndexFacts DEF Index
  <2> QED BY <1>4, <2>1, <2>2, <2>3 DEF PartialSums
<1> DEFINE d == p[i]
           u == fz[i]
           da == DenotedBy(a, fa, p)
           db == DenotedBy(b, fb, p)
<1>6. /\ u \in Int /\ d \in Int /\ da \in Int /\ db \in Int
      /\ u = da + db + (last_signs - A) * d
  BY <1>1, <1>4, <1>5, LoopsDone
<1>7. last_signs - A = s /\ s \in {0, 1}
  BY <1>1, SignsAndCarry
<1>8. z'[i] = SignExtension(s) /\ Sign(z'[i]) = s /\ p[i + 1] = Base * d
  BY <1>1, <1>2, <1>4, <1>7, WordFacts, PowerFacts
<1>9. DenotedBy(a, fa, p)' = da /\ DenotedBy(b, fb, p)' = db
  BY <1>1 DEF DenotedBy, Denoted, TopWord
<1>10. Denoted(z', i' + 1, fz, p) = (u + SignExtension(s) * d) - s * (Base * d)
  BY <1>1, <1>2, <1>5, <1>8 DEF Denoted
<1> HIDE DEF d, u, da, db, s
<1>11. /\ SignExtension(s) * d = s * (Base * d) - s * d
       /\ s * (Base * d) \in Int /\ s * d \in Int
  BY <1>6, <1>7, ExtensionWeight
<1>12. u = da + db + s * d
  BY <1>6, <1>7, Zenon
<1>13. Denoted(z', i' + 1, fz, p) = da + db
  BY <1>6, <1>10, <1>11, <1>12
<1> QED BY <1>1, <1>9, <1>13 DEF SumsAddUp, Denoted, DenotedBy

LEMMA ReduceSum ==
    ASSUME IInv, SumInv, Reduce PROVE SumInv'
<1>1. /\ pc = "reduce" /\ pc' = pc /\ i' = i - 1 /\ i > 0
      /\ z[i] = SignExtension(Sign(z[i])) /\ Sign(z[i - 1]) = Sign(z[i])
      /\ a' = a /\ b' = b /\ z' = z
  BY DEF Reduce, Redundant
<1>2. /\ i \in Index /\ z \in [Index -> Word] /\ i \in Nat /\ i < MaxWords
      /\ i' + 1 = i /\ (i + 1) - 1 = i
  BY <1>1, IndexFacts DEF IInv, TypeOK, Index
<1>3. SUFFICES ASSUME NEW p, NEW fa, NEW fb, NEW fz, Powers(p)',
                      PartialSums(fa, a.words, a.len, p)',
                      PartialSums(fb, b.words, b.len, p)',
                      PartialSums(fz, z, Summed, p)'
               PROVE  SumsAddUp(p, fa, fb, fz)'
  BY DEF SumInv
<1>4. /\ Powers(p)
      /\ PartialSums(fa, a.words, a.len, p) /\ PartialSums(fb, b.words, b.len, p)
      /\ PartialSums(fz, z, i, p)
  BY <1>1, <1>2, <1>3 DEF Powers, PartialSums, Summed
<1> DEFINE d == p[i]
           u == fz[i]
           s == Sign(z[i])
           g == [fz EXCEPT ![i + 1] = u + z[i] * d]
\* The redundant word, too, was part of the sum.
<1>5. u \in Int /\ d \in Int /\ z[i] \in Int /\ s \in {0, 1} /\ p[i + 1] = Base * d
  <2>1. i \in 0..MaxWords /\ z[i] \in Word
    BY <1>2, IndexFacts
  <2> QED BY <1>2, <1>4, <2>1, PowerFacts, WordFacts DEF PartialSums
<1>6. u + z[i] * d \in Int
  BY <1>5
<1>7. /\ g \in [0..MaxWords -> Int] /\ g[i + 1] = u + z[i] * d
      /\ \A k \in 0..MaxWords : k # i + 1 => g[k] = fz[k]
  <2>1. i + 1 \in 0..MaxWords /\ fz \in [0..MaxWords -> Int]
    BY <1>2, <1>4, IndexFacts DEF PartialSums
  <2> HIDE DEF u, d
  <2> QED BY <1>6, <2>1
<1> HIDE DEF g
<1>8. PartialSums(g, z, i + 1, p)
  <2>1. g[0] = 0
    <3>1. 0 \in 0..MaxWords /\ 0 # i + 1
      BY <1>2, IndexFacts
    <3> QED BY <1>4, <1>7, <3>1 DEF PartialSums
  <2>2. ASSUME NEW k \in 0..((i + 1) - 1) PROVE g[k + 1] = g[k] + z[k] * p[k]
    <3>1. k \in Nat /\ k <= i /\ k \in 0..MaxWords /\ k + 1 \in 0..MaxWords /\ k # i + 1
      BY <1>2, IndexFacts
    <3>2. g[k] = fz[k]
      BY <1>7, <3>1
    <3>3. CASE k = i
      BY <1>7, <3>2, <3>3
    <3>4. CASE k # i
      <4>1. k + 1 # i + 1 /\ k \in 0..(i - 1)
        BY <1>2, <3>1, <3>4
      <4>2. g[k + 1] = fz[k + 1] /\ fz[k + 1] = fz[k] + z[k] * p[k]
        BY <1>4, <1>7, <3>1, <4>1 DEF PartialSums
      <4> QED BY <3>2, <4>2
    <3> QED BY <3>3, <3>4
  <2> QED BY <1>7, <2>1, <2>2 DEF PartialSums
<1> DEFINE da == DenotedBy(a, fa, p)
           db == DenotedBy(b, fb, p)
<1>9. Denoted(z, i + 1, g, p) = da + db
  <2>1. Summed = i + 1
    BY <1>1 DEF Summed
  <2> QED BY <1>1, <1>4, <1>8, <2>1 DEF SumInv, SumsAddUp
<1>10. Denoted(z, i + 1, g, p) = (u + z[i] * d) - s * (Base * d)
  BY <1>2, <1>5, <1>7 DEF Denoted
<1>11. Denoted(z', i' + 1, fz, p) = u - s * d
  BY <1>1, <1>2 DEF Denoted
<1>12. DenotedBy(a, fa, p)' = da /\ DenotedBy(b, fb, p)' = db
  BY <1>1 DEF DenotedBy, Denoted, TopWord
<1>13. z[i] = SignExtension(s)
  BY <1>1
<1> HIDE DEF d, u, da, db, s
<1>14. /\ SignExtension(s) * d = s * (Base * d) - s * d
       /\ s * (Base * d) \in Int /\ s * d \in Int
  BY <1>5, ExtensionWeight
<1>15. (u + z[i] * d) - s * (Base * d) = u - s * d
  BY <1>5, <1>13, <1>14
<1>16. Denoted(z', i' + 1, fz, p) = da + db
  BY <1>9, <1>10, <1>11, <1>15
<1> QED BY <1>1, <1>12, <1>16 DEF SumsAddUp, Denoted, DenotedBy

\* Steps that end the reduction or leave the addition alone.
LEMMA OtherSum ==
    ASSUME IInv, SumInv
    PROVE  /\ Reduced => SumInv'
           /\ UNCHANGED <<pc, addvars>> => SumInv'
           /\ pc' \in {"run", "die"} => SumInv'
           /\ \A r, s \in Regs, t \in Results : AddStart(r, s, t) => SumInv'
<1>1. ASSUME pc' \in {"run", "die"} PROVE SumInv'
  BY <1>1 DEF SumInv, SumsAddUp
<1>2. ASSUME pc' = pc \/ (pc = "reduce" /\ pc' = "store"),
             a' = a, b' = b, i' = i, z' = z, A' = A
      PROVE  SumInv'
  <2>1. SUFFICES ASSUME NEW p, NEW fa, NEW fb, NEW fz, Powers(p)',
                        PartialSums(fa, a.words, a.len, p)',
                        PartialSums(fb, b.words, b.len, p)',
                        PartialSums(fz, z, Summed, p)'
                 PROVE  SumsAddUp(p, fa, fb, fz)'
    BY DEF SumInv
  <2>2. Summed' = Summed
    BY <1>2 DEF Summed
  <2>3. /\ Powers(p) /\ PartialSums(fa, a.words, a.len, p)
        /\ PartialSums(fb, b.words, b.len, p) /\ PartialSums(fz, z, Summed, p)
    BY <1>2, <2>1, <2>2 DEF Powers, PartialSums
  <2>4. SumsAddUp(p, fa, fb, fz)
    BY <2>3 DEF SumInv
  <2> QED BY <1>2, <2>4 DEF SumsAddUp, Denoted, DenotedBy, Contribution, TopWord
<1>3. (UNCHANGED <<pc, addvars>> => SumInv') /\ (Reduced => SumInv')
  BY <1>2 DEF Reduced, addvars
<1>4. ASSUME NEW r \in Regs, NEW s \in Regs, NEW t \in Results, AddStart(r, s, t)
      PROVE  SumInv'
  <2>1. /\ pc' = "add" /\ a' = reg[r] /\ b' = reg[s] /\ i' = 0 /\ A' = 0
    BY <1>4 DEF AddStart
  <2>2. a' \in Value /\ b' \in Value
    BY <2>1 DEF IInv, TypeOK
  <2>3. SUFFICES ASSUME NEW p, NEW fa, NEW fb, NEW fz, Powers(p)',
                        PartialSums(fa, a.words, a.len, p)',
                        PartialSums(fb, b.words, b.len, p)',
                        PartialSums(fz, z, Summed, p)'
                 PROVE  SumsAddUp(p, fa, fb, fz)'
    BY DEF SumInv
  <2>4. p[0] = 1 /\ fa[0] = 0 /\ fb[0] = 0 /\ fz[0] = 0
    BY <2>3 DEF Powers, PartialSums
  <2>5. a'.len \in Nat /\ b'.len \in Nat
    BY <2>2, ValueFacts
  <2>6. Contribution(a', 0, fa, p) = 0 /\ Contribution(b', 0, fb, p) = 0
    BY <2>4, <2>5 DEF Contribution
  <2> QED BY <2>1, <2>4, <2>6 DEF SumsAddUp, Contribution
<1> QED BY <1>1, <1>2, <1>3, <1>4

LEMMA SumStep ==
    ASSUME IInv, SumInv, [Next]_vars PROVE SumInv'
<1>1. CASE UNCHANGED vars
  BY <1>1, OtherSum DEF vars
<1>2. ASSUME NEW r \in Regs, NEW n \in Ints, Load(r, n) PROVE SumInv'
  BY <1>2, OtherSum DEF Load
<1>3. ASSUME NEW r \in Results, NEW d \in {-1, 1}, IncDec(r, d) PROVE SumInv'
  BY <1>3, OtherSum DEF IncDec
<1>4. ASSUME NEW r \in Regs, IncDecBignum(r) PROVE SumInv'
  BY <1>4, OtherSum DEF IncDecBignum
<1>5. ASSUME NEW r \in Regs, NEW s \in Regs, NEW t \in Results, AddFixnums(r, s, t)
      PROVE  SumInv'
  BY <1>5, OtherSum DEF AddFixnums
<1>6. CASE Store
  BY <1>6, OtherSum DEF Store
<1> QED BY <1>1, <1>2, <1>3, <1>4, <1>5, <1>6, LoopsSum, AddOverflowSum,
           AddNoOverflowSum, ReduceSum, OtherSum DEF Next

-----------------------------------------------------------------------------
\* The digit loops of bignum_add keep the sum of the operands, through carry,
\* sign extension, overflow word and reduction.
THEOREM SumInvariant == Spec => []SumInv
<1>1. Init => SumInv
  BY DEF Init, SumInv, SumsAddUp
<1>2. IInv /\ SumInv /\ [Next]_vars => SumInv'
  BY SumStep
<1> QED BY <1>1, <1>2, BignumInvariant, PTL DEF Spec

\* The value stored has the words of the sum, as a fixnum too.
LEMMA SumWords ==
    ASSUME TypeOK
    PROVE  Sum.len = i + 1 /\ \A k \in 0..i : Sum.words[k] = z[k]
<1>1. i \in Index /\ z \in [Index -> Word] /\ i \in Nat /\ i < MaxWords /\ i + 1 \in 1..MaxWords
  BY IndexFacts DEF TypeOK, Index
<1>2. \A k \in 0..((i + 1) - 1) : k \in Index
  BY <1>1, IndexFacts DEF Index
<1>3. CASE Sum = Number("bignum", z, i + 1)
  <2>1. \A k \in 0..((i + 1) - 1) : z[k] \in Word
    BY <1>1, <1>2
  <2>2. /\ Number("bignum", z, i + 1).len = i + 1
        /\ \A k \in 0..((i + 1) - 1) : Number("bignum", z, i + 1).words[k] = z[k]
    BY <1>1, <2>1, NumberFacts
  <2>3. (i + 1) - 1 = i
    BY <1>1
  <2> QED BY <1>3, <2>2, <2>3
<1>4. CASE i = 0 /\ IS_IN_FIX_RANGE(SignedWord(z[0])) /\ Sum = FIX(z[0])
  <2>1. z[0] \in Word /\ z[0] \in Int
    BY <1>1, <1>4, WordFacts
  <2>2. Sum.len = 1 /\ Sum.words[0] = ToWord(FixedInt(z[0]))
    BY <1>4, <2>1, FixFacts
  <2>3. ToWord(FixedInt(z[0])) = z[0]
    BY <1>4, <2>1, FixedIntFacts, ToWordFacts
  <2>4. \A k \in 0..0 : k = 0
    OBVIOUS
  <2> QED BY <1>4, <2>2, <2>3, <2>4
<1> QED BY <1>3, <1>4 DEF Sum

\* bignum_add stores the sum: whenever its result is stored, the integer that
\* the words of the result denote is the sum of those of its operands.
THEOREM AdditionStoresSum == Spec => [](pc = "store" => StoredIsSum)
<1>1. ASSUME IInv, SumInv, pc = "store" PROVE StoredIsSum
  <2>1. SUFFICES ASSUME NEW p, NEW fa, NEW fb, NEW f, Powers(p),
                        PartialSums(fa, a.words, a.len, p),
                        PartialSums(fb, b.words, b.len, p),
                        PartialSums(f, Sum.words, Sum.len, p)
                 PROVE  DenotedBy(Sum, f, p) = DenotedBy(a, fa, p) + DenotedBy(b, fb, p)
    BY DEF StoredIsSum
  <2>2. i \in Nat /\ (i + 1) - 1 = i /\ i \in 0..i
    BY <1>1, IndexFacts DEF IInv, TypeOK, Index
  <2>3. Sum.len = i + 1 /\ \A k \in 0..i : Sum.words[k] = z[k]
    BY <1>1, SumWords DEF IInv
  <2>4. PartialSums(f, z, i + 1, p)
    BY <2>1, <2>2, <2>3 DEF PartialSums
  <2>5. Denoted(z, i + 1, f, p) = DenotedBy(a, fa, p) + DenotedBy(b, fb, p)
    <3>1. Summed = i + 1
      BY <1>1 DEF Summed
    <3> QED BY <1>1, <2>1, <2>4, <3>1 DEF SumInv, SumsAddUp
  <2>6. DenotedBy(Sum, f, p) = Denoted(z, i + 1, f, p)
    BY <2>2, <2>3 DEF DenotedBy, Denoted
  <2> QED BY <2>5, <2>6
<1>2. IInv /\ SumInv => (pc = "store" => StoredIsSum)
  BY <1>1
<1> QED BY <1>2, BignumInvariant, SumInvariant, PTL
=============================================================================
