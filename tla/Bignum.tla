------------------------------- MODULE Bignum -------------------------------
(***************************************************************************)
(* Integer arithmetic of vm_mem.c: fixmulint_to_scm, scm_inc, scm_dec,     *)
(* scm_add with the digit loops of bignum_add, scm_number_cmp and          *)
(* scm_number_equal.  VMMem models what these do to the memory and leaves  *)
(* the digits open; here the memory is left out and the digits are exact.  *)
(*                                                                         *)
(* A word has Base values.  An integer is a fixnum or a bignum, in either  *)
(* case a number of words, the least significant one at index 0, in two's  *)
(* complement: _NUMBER_DISPATCH passes a fixnum operand to bignum_add as   *)
(* the single word INT(x).  Words from len on mean nothing and are 0.      *)
(***************************************************************************)
EXTENDS Integers

CONSTANTS
    Base,       \* values of a word: 2^16 in the code
    MaxWords,   \* bound: words of the longest integer
    Regs,       \* where the client keeps integers
    Results,    \* the registers it stores sums in
    Ints        \* the C integers it turns into Scheme ones

ASSUME BignumConstants ==
    /\ Base \in Nat /\ Base > 0 /\ Base % 16 = 0
    /\ MaxWords \in Nat /\ 1 < MaxWords /\ MaxWords < 254
    /\ Results \subseteq Regs
    /\ \A n \in Ints : n \in Int /\ 2 * n >= -(Base * Base) /\ 2 * n < Base * Base

Word == 0..(Base - 1)
Index == 0..(MaxWords - 1)

WORD_IS_NEGATIVE(w) == w >= Base \div 2
Sign(w) == IF WORD_IS_NEGATIVE(w) THEN 1 ELSE 0
\* (signed_word_t)w, and the word of an integer
SignedWord(w) == IF WORD_IS_NEGATIVE(w) THEN w - Base ELSE w
ToWord(n) == n % Base
SignExtension(s) == IF s = 1 THEN Base - 1 ELSE 0

\* A fixnum has three bits less than a word.
FIXNUM_MAXINT == Base \div 16 - 1
FIXNUM_MININT == -(FIXNUM_MAXINT + 1)
IS_IN_FIX_RANGE(n) == FIXNUM_MININT <= n /\ n <= FIXNUM_MAXINT

\* INT(FIX(n)): FIX drops the upper bits, INT extends the sign of the rest.
FixedInt(n) == LET m == n % (Base \div 8) IN
               IF m > FIXNUM_MAXINT THEN m - Base \div 8 ELSE m

Kind == {"fixnum", "bignum"}
Value == [kind : Kind, len : 1..MaxWords, words : [Index -> Word]]

is_fixnum(v) == v.kind = "fixnum"

\* The first n words of w, as an integer of the given kind.
Number(kind, w, n) == [kind |-> kind, len |-> n,
                       words |-> [k \in Index |-> IF k < n THEN w[k] ELSE 0]]
FIX(n) == Number("fixnum", [k \in {0} |-> ToWord(FixedInt(n))], 1)

\* fixaddint_to_scm: x arrives as a signed word.
fixaddint_to_scm(x) ==
    LET n == SignedWord(ToWord(x)) IN
    IF IS_IN_FIX_RANGE(n) THEN FIX(n)
    ELSE Number("bignum", [k \in {0} |-> ToWord(n)], 1)

DWORD_LO(x) == x % Base
\* Fault: the upper word keeps the sign of x.
DWORD_HIUncast(x) == x \div Base
DWORD_HI(x) == (x \div Base) % Base

\* fixmulint_to_scm: x is a signed double word.
fixmulint_to_scm(x) ==
    IF IS_IN_FIX_RANGE(x) THEN FIX(x)
    ELSE IF DWORD_HI(x) = SignExtension(Sign(DWORD_LO(x)))
    THEN fixaddint_to_scm(DWORD_LO(x))
    ELSE Number("bignum", [k \in 0..1 |-> IF k = 0 THEN DWORD_LO(x) ELSE DWORD_HI(x)], 2)

INT(v) == SignedWord(v.words[0])

-----------------------------------------------------------------------------
(***************************************************************************)
(* Comparison.  It does not allocate and changes nothing.                  *)
(***************************************************************************)
TopWord(v) == v.words[v.len - 1]

\* The words at which integers of the same length differ.
Differ(v, w) == {k \in 0..(v.len - 1) : v.words[k] # w.words[k]}
HighestDiffering(v, w) == CHOOSE k \in Differ(v, w) : \A j \in Differ(v, w) : j <= k

bignum_equal(v, w) == v.len = w.len /\ Differ(v, w) = {}

\* Same length: the top words are compared as signed ones, those below not.
CmpSameLen(v, w) ==
    IF Differ(v, w) = {} THEN "EQ"
    ELSE LET k == HighestDiffering(v, w)
             Read(n) == IF k = v.len - 1 THEN SignedWord(n) ELSE n
         IN  IF Read(v.words[k]) < Read(w.words[k]) THEN "LT" ELSE "GT"

\* Fault: the longer one is taken to be the larger.
CmpOtherLenUnsigned(v, w) == IF v.len < w.len THEN "LT" ELSE "GT"
\* Different lengths: the signs and the lengths decide.
CmpOtherLen(v, w) ==
    CASE WORD_IS_NEGATIVE(TopWord(v)) /\ ~ WORD_IS_NEGATIVE(TopWord(w)) -> "LT"
      [] ~ WORD_IS_NEGATIVE(TopWord(v)) /\ WORD_IS_NEGATIVE(TopWord(w)) -> "GT"
      [] WORD_IS_NEGATIVE(TopWord(v)) /\ WORD_IS_NEGATIVE(TopWord(w)) ->
            IF v.len < w.len THEN "GT" ELSE "LT"
      [] OTHER -> IF v.len < w.len THEN "LT" ELSE "GT"

bignum_cmp(v, w) == IF v.len = w.len THEN CmpSameLen(v, w) ELSE CmpOtherLen(v, w)

fixnum_cmp(v, w) == IF INT(v) = INT(w) THEN "EQ" ELSE IF INT(v) < INT(w) THEN "LT" ELSE "GT"

scm_number_cmp(v, w) == IF is_fixnum(v) /\ is_fixnum(w) THEN fixnum_cmp(v, w) ELSE bignum_cmp(v, w)
scm_number_equal(v, w) == IF is_fixnum(v) /\ is_fixnum(w) THEN v = w ELSE bignum_equal(v, w)

-----------------------------------------------------------------------------
VARIABLES
    reg,            \* the client's integers
    pc,             \* "run", "add", "reduce", "store", "die"
    a, b,           \* bignum_add: the operands
    dst,            \* where the client wants the sum
    i,              \* bignum_add: i (an index of the body of z)
    A,              \* bignum_add: the carry
    z,              \* bignum_add: body of the result
    last_signs      \* bignum_add: negative words among the last two added

addvars == <<a, b, dst, i, A, z, last_signs>>
vars == <<reg, pc, addvars>>

NoWords == [k \in Index |-> 0]

Init ==
    /\ reg = [r \in Regs |-> FIX(0)]
    /\ pc = "run"
    /\ a = FIX(0) /\ b = FIX(0)
    /\ dst \in Results
    /\ i = 0 /\ A = 0 /\ z = NoWords /\ last_signs = 0

\* fixmulint_to_scm of an integer of the host or of the bytecode.
Load(r, n) ==
    /\ pc = "run"
    /\ reg' = [reg EXCEPT ![r] = fixmulint_to_scm(n)]
    /\ UNCHANGED <<pc, addvars>>

\* scm_inc (d = 1) and scm_dec (d = -1)
IncDec(r, d) ==
    /\ pc = "run"
    /\ is_fixnum(reg[r])
    /\ reg' = [reg EXCEPT ![r] = fixaddint_to_scm(INT(reg[r]) + d)]
    /\ UNCHANGED <<pc, addvars>>

\* UNFINISHED in scm_inc and scm_dec ends the process.
IncDecBignum(r) ==
    /\ pc = "run"
    /\ ~ is_fixnum(reg[r])
    /\ pc' = "die"
    /\ UNCHANGED <<reg, addvars>>

\* DO_FIXNUM_ADD
AddFixnums(r, s, t) ==
    /\ pc = "run"
    /\ is_fixnum(reg[r]) /\ is_fixnum(reg[s])
    /\ reg' = [reg EXCEPT ![t] = fixaddint_to_scm(INT(reg[r]) + INT(reg[s]))]
    /\ UNCHANGED <<pc, addvars>>

\* bignum_add is called and has allocated its result.
AddStart(r, s, t) ==
    /\ pc = "run"
    /\ ~ (is_fixnum(reg[r]) /\ is_fixnum(reg[s]))
    /\ reg[r].len < MaxWords /\ reg[s].len < MaxWords
    /\ pc' = "add"
    /\ a' = reg[r] /\ b' = reg[s] /\ dst' = t
    /\ i' = 0 /\ A' = 0 /\ z' = NoWords /\ last_signs' = 0
    /\ UNCHANGED reg

Shorter == IF a.len < b.len THEN a ELSE b
Longer == IF a.len < b.len THEN b ELSE a

\* Fault: the carry is lost.
AddWordsNoCarry(m, n) ==
    /\ z' = [z EXCEPT ![i] = DWORD_LO(m + n)]
    /\ A' = DWORD_HI(A + m + n)
    /\ last_signs' = Sign(m) + Sign(n)
    /\ i' = i + 1
    /\ UNCHANGED <<reg, pc, a, b, dst>>
\* The body of both loops.
AddWords(m, n) ==
    /\ z' = [z EXCEPT ![i] = DWORD_LO(A + m + n)]
    /\ A' = DWORD_HI(A + m + n)
    /\ last_signs' = Sign(m) + Sign(n)
    /\ i' = i + 1
    /\ UNCHANGED <<reg, pc, a, b, dst>>

\* for (i=0; i<len1; i++)
AddBoth ==
    /\ pc = "add"
    /\ i < Shorter.len
    /\ AddWords(a.words[i], b.words[i])

\* Fault: the shorter operand is taken to be positive.
ZeroExtend == 0
\* sign_extension: the words that the shorter operand does not have.
Extend == SignExtension(Sign(TopWord(Shorter)))

\* for (; i<len2; i++)
AddLonger ==
    /\ pc = "add"
    /\ Shorter.len <= i /\ i < Longer.len
    /\ AddWords(Longer.words[i], Extend)

\* Fault: an overflow word for a negative result only.
NeedOverflowNegative ==
    last_signs = 2 /\ ~ WORD_IS_NEGATIVE(z[i - 1])
\* The sign of the result is not that of the operands.
NeedOverflow == \/ last_signs = 0 /\ WORD_IS_NEGATIVE(z[i - 1])
                \/ last_signs = 2 /\ ~ WORD_IS_NEGATIVE(z[i - 1])

AddOverflow ==
    /\ pc = "add"
    /\ i = Longer.len
    /\ NeedOverflow
    /\ z' = [z EXCEPT ![i] = SignExtension(IF last_signs = 2 THEN 1 ELSE 0)]
    /\ pc' = "store"
    /\ UNCHANGED <<reg, a, b, dst, i, A, last_signs>>

AddNoOverflow ==
    /\ pc = "add"
    /\ i = Longer.len
    /\ ~ NeedOverflow
    /\ i' = i - 1
    /\ pc' = "reduce"
    /\ UNCHANGED <<reg, a, b, dst, A, z, last_signs>>

\* The top word only repeats the sign of the one below.  The code takes the
\* sign of the first top word; every word the loop gets to has the same one.
Redundant ==
    /\ i > 0
    /\ z[i] = SignExtension(Sign(z[i]))
    /\ Sign(z[i - 1]) = Sign(z[i])

\* while (...) i--
Reduce ==
    /\ pc = "reduce"
    /\ Redundant
    /\ i' = i - 1
    /\ UNCHANGED <<reg, pc, a, b, dst, A, z, last_signs>>

Reduced ==
    /\ pc = "reduce"
    /\ ~ Redundant
    /\ pc' = "store"
    /\ UNCHANGED <<reg, addvars>>

\* Fault: a sum of one word is never turned into a fixnum.
SumNeverFixnum == Number("bignum", z, i + 1)
\* return FIX(z[0]), or the bignum of the words up to i
Sum == IF i = 0 /\ IS_IN_FIX_RANGE(SignedWord(z[0])) THEN FIX(z[0])
       ELSE Number("bignum", z, i + 1)

Store ==
    /\ pc = "store"
    /\ reg' = [reg EXCEPT ![dst] = Sum]
    /\ pc' = "run"
    /\ a' = FIX(0) /\ b' = FIX(0)
    /\ i' = 0 /\ A' = 0 /\ z' = NoWords /\ last_signs' = 0
    /\ UNCHANGED dst

Next ==
    \/ \E r \in Regs, n \in Ints : Load(r, n)
    \/ \E r \in Results, d \in {-1, 1} : IncDec(r, d)
    \/ \E r \in Regs : IncDecBignum(r)
    \/ \E r, s \in Regs, t \in Results : AddFixnums(r, s, t)
    \/ \E r, s \in Regs, t \in Results : AddStart(r, s, t)
    \/ AddBoth
    \/ AddLonger
    \/ AddOverflow
    \/ AddNoOverflow
    \/ Reduce
    \/ Reduced
    \/ Store

Spec == Init /\ [][Next]_vars

-----------------------------------------------------------------------------
TypeOK ==
    /\ reg \in [Regs -> Value]
    /\ pc \in {"run", "add", "reduce", "store", "die"}
    /\ a \in Value /\ b \in Value
    /\ dst \in Results
    /\ i \in Index
    /\ A \in {0, 1}
    /\ z \in [Index -> Word]
    /\ last_signs \in 0..2

\* v is in the form that every operation produces and comparison relies on:
\* a bignum only if it is no fixnum, and no redundant top word.
Canonical(v) ==
    /\ v.len = 1 => (is_fixnum(v) <=> IS_IN_FIX_RANGE(SignedWord(v.words[0])))
    /\ is_fixnum(v) => v.len = 1
    /\ v.len > 1 => TopWord(v) # SignExtension(Sign(v.words[v.len - 2]))

\* Every integer is canonical, so that there is one representation of it: the
\* result of an addition is reduced as far as possible and never too far.
AllCanonical == \A r \in Regs : Canonical(reg[r])
=============================================================================
