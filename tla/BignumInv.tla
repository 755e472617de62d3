----------------------------- MODULE BignumInv -----------------------------
(***************************************************************************)
(* The inductive invariant of Bignum, and what an addition has computed at *)
(* each of its steps.                                                      *)
(***************************************************************************)
EXTENDS Bignum

\* The words added last, with the shorter operand extended.
WordAt(v, k) == IF k < v.len THEN v.words[k] ELSE SignExtension(Sign(TopWord(v)))

\* The carry out of the last words and their signs: a sum of words with equal
\* signs has carried exactly if they are negative, one with different signs
\* exactly if it is not negative.
CarryOK ==
    (pc = "add" /\ i > 0) =>
        /\ last_signs = Sign(WordAt(a, i - 1)) + Sign(WordAt(b, i - 1))
        /\ last_signs = 0 => A = 0
        /\ last_signs = 2 => A = 1
        /\ last_signs = 1 => A = 1 - Sign(z[i - 1])

\* Where the loops stand, and that only canonical integers are stored.
LoopOK ==
    /\ pc = "add" => i <= Longer.len /\ Longer.len < MaxWords
    /\ pc = "store" => Canonical(Sum)

IInv == TypeOK /\ AllCanonical /\ CarryOK /\ LoopOK

Padded(v) == \A k \in Index : k >= v.len => v.words[k] = 0

\* The client's integers have no words beyond their length, and the operands
\* of bignum_add are two of them: nothing overwrites them before the sum is
\* stored.
ClientOK ==
    /\ \A r \in Regs : Padded(reg[r])
    /\ pc \in {"add", "reduce", "store"} => \E r, s \in Regs : a = reg[r] /\ b = reg[s]

-----------------------------------------------------------------------------
(***************************************************************************)
(* What words denote.  p holds the powers of Base and f the sums of the    *)
(* first words of w, weighted by them.                                     *)
(***************************************************************************)
Powers(p) == /\ p \in [0..MaxWords -> Int]
             /\ p[0] = 1
             /\ \A k \in Index : p[k + 1] = Base * p[k]
PartialSums(f, w, n, p) == /\ f \in [0..MaxWords -> Int]
                           /\ f[0] = 0
                           /\ \A k \in 0..(n - 1) : f[k + 1] = f[k] + w[k] * p[k]

\* The integer that the first n words denote in two's complement.
Denoted(w, n, f, p) == f[n] - Sign(w[n - 1]) * p[n]
DenotedBy(v, f, p) == Denoted(v.words, v.len, f, p)

\* What the first n words of v contribute to a sum, v extended if need be.
Contribution(v, n, f, p) ==
    IF n <= v.len THEN f[n] ELSE f[v.len] + Sign(TopWord(v)) * (p[n] - p[v.len])

\* The words added so far and the carry are the sum of what the operands
\* contributed; then the result denotes the sum of what the operands denote,
\* and still does when an overflow word is put on or redundant words are
\* taken off.
SumsAddUp(p, fa, fb, fz) ==
    /\ pc = "add" =>
         fz[i] + A * p[i] = Contribution(a, i, fa, p) + Contribution(b, i, fb, p)
    /\ pc \in {"reduce", "store"} =>
         Denoted(z, i + 1, fz, p) = DenotedBy(a, fa, p) + DenotedBy(b, fb, p)

\* The words of z that hold the sum so far.
Summed == IF pc = "add" THEN i ELSE i + 1

\* The same for whatever functions are the powers and the partial sums.
SumInv ==
    \A p, fa, fb, fz :
        /\ Powers(p)
        /\ PartialSums(fa, a.words, a.len, p)
        /\ PartialSums(fb, b.words, b.len, p)
        /\ PartialSums(fz, z, Summed, p)
        => SumsAddUp(p, fa, fb, fz)

\* What bignum_add stores denotes the sum of what its operands denote.
StoredIsSum ==
    \A p, fa, fb, f :
        /\ Powers(p)
        /\ PartialSums(fa, a.words, a.len, p)
        /\ PartialSums(fb, b.words, b.len, p)
        /\ PartialSums(f, Sum.words, Sum.len, p)
        => DenotedBy(Sum, f, p) = DenotedBy(a, fa, p) + DenotedBy(b, fb, p)
=============================================================================
