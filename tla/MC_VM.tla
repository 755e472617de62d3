------------------------------- MODULE MC_VM --------------------------------
(* Constants for the runs of VM: the programs. *)
EXTENDS VMInv

I(op) == [op |-> op, r |-> "A", b1 |-> 0, b2 |-> 0, im |-> FIX(0), off |-> 0]
R(op, r) == [I(op) EXCEPT !.r = r]
B(op, b) == [I(op) EXCEPT !.b1 = b]
IM(op, im) == [I(op) EXCEPT !.im = im]
J(op, off) == [I(op) EXCEPT !.off = off]

(***************************************************************************)
(* An integer, then any verified sequence of instructions, on two          *)
(* registers: one is run, then control jumps back for the next one.  The   *)
(* immediates and branches, words, dec__dup, frame_jsr_rel8_2 and the      *)
(* compiled opcodes are left to the tests (VMTest).                        *)
(***************************************************************************)
AnyInstruction ==
    {I(op) : op \in {"TAB", "TBA", "swapA", "drop1", "swap", "dup", "dec", "decA", "add", "addA",
                     "swap__dec", "mul__", "bitwise_and", "ret", "ret_pop", "halt", "invalid_op"}}
    \cup {R("push", "B"), R("pop", "B"), R("push", "A")}
    \cup {B(op, 1) : op \in {"unsafe_ld", "unsafe_st", "pick_b", "unsafe_addA_"}}
    \cup {[I("add__") EXCEPT !.b1 = b, !.b2 = 1 - b] : b \in {0, 1}}
    \cup {B("unsafe_frame_ret", 2)}
    \cup {J(op, 1) : op \in {"jsr_rel8", "frame_jsr_rel8_1", "jsr_rel8__swap"}}
AnyCode == [a \in {0, 3, 4, 5} |-> CASE a = 0 -> {IM("push_im", FIX(n)) : n \in {-1, 0}}
                                     [] a = 3 -> AnyInstruction
                                     [] OTHER -> {J("jmp_rel8", 3 - a)}]

MC_AnyCode == [p \in {"any"} |-> AnyCode]

\* They are programs that the theorems of VMProofs are about.
ASSUME AnyCodeIsSafe == Code = MC_AnyCode => SafeCode

\* A frame of two slots when there is one free slot too few.
MC_Frame == [p \in {"frame"} |-> [a \in {0, 3, 5} |->
    CASE a = 0 -> {IM("push_im", FIX(0))} [] a = 3 -> {J("frame_jsr_rel8_2", 2)} [] a = 5 -> {I("halt")}]]
=============================================================================
