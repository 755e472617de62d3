-------------------------- MODULE BignumRefinement --------------------------
(***************************************************************************)
(* Bignum implements IntegerRegisters: every register holds the integer    *)
(* that its words denote.                                                  *)
(***************************************************************************)
EXTENDS BignumInv

PowersOfBase[k \in 0..MaxWords] == IF k = 0 THEN 1 ELSE Base * PowersOfBase[k - 1]
SumsOf(w) ==
    LET f[n \in 0..MaxWords] ==
          IF n = 0 THEN 0 ELSE f[n - 1] + w[n - 1] * PowersOfBase[n - 1]
    IN  f

IntegerOf(v) == DenotedBy(v, SumsOf(v.words), PowersOfBase)

\* The loops of bignum_add keep the sum, word by word: the carry, the sign
\* extension of the shorter operand, the overflow word and the reduction.
SumKept == SumsAddUp(PowersOfBase, SumsOf(a.words), SumsOf(b.words), SumsOf(z))

\* scm_number_cmp and scm_number_equal order the words as the integers they
\* denote, also across lengths and between fixnums and bignums.
ComparisonOK ==
    \A r, s \in Regs :
        LET m == IntegerOf(reg[r])
            n == IntegerOf(reg[s])
        IN  /\ scm_number_equal(reg[r], reg[s]) <=> m = n
            /\ scm_number_cmp(reg[r], reg[s]) = "LT" <=> m < n
            /\ scm_number_cmp(reg[r], reg[s]) = "EQ" <=> m = n

Integer == INSTANCE IntegerRegisters WITH num <- [r \in Regs |-> IntegerOf(reg[r])]

\* Whatever the client computes, through any mixture of fixnums and bignums,
\* its registers hold the integers that exact arithmetic gives.
ImplementsIntegers == Integer!Spec
=============================================================================
