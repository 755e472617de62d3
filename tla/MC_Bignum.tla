----------------------------- MODULE MC_Bignum -----------------------------
(* Constants for the runs of Bignum. *)
EXTENDS BignumRefinement

\* Around the borders of fixnums, of one word and of two, for words of 4 bits.
MC_Ints == {-128, -127, -17, -9, -8, -2, -1, 0, 1, 7, 8, 16, 127}
=============================================================================
