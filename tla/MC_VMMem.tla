------------------------------ MODULE MC_VMMem ------------------------------
(* Constants of the TLC runs of VMMem. *)
EXTENDS VMMemInv

\* #!uninitialized and the fixnum 1, as words.
MC_UNINITIALIZED == 41
MC_Immediates == {41, 15}
MC_OneImmediate == {15}
\* A digit that looks like an object's offset.
MC_BodyWords == {4}
MC_RegsA == {1}
MC_RegsAB == {1, 2}
=============================================================================
