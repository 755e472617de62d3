------------------------- MODULE MC_VMMemRefinement -------------------------
(* Constants of the TLC run that checks VMMem against ObjectStore. *)
EXTENDS VMMemRefinement

MC_Immediates == {41, 15}
MC_OneImmediate == {15}
MC_BodyWords == {4}
MC_RegsA == {1}
=============================================================================
