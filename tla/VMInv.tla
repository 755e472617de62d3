------------------------------- MODULE VMInv --------------------------------
(***************************************************************************)
(* The inductive invariant of VM for the programs that keep within what    *)
(* the interpreter and the collector can do together.                      *)
(***************************************************************************)
EXTENDS VM

\* Values in the representation their size asks for, and those of them that
\* refer to no object that is gone.
Fitting == {v \in Value : IsInteger(v) => (is_fixnum(v) <=> InFixRange(v.n))}
Live == {v \in Fitting : v.kind # "dangling"}

\* The opcodes that leave a value where the collector does not find it or that
\* write behind the stack.
Excluded == {"dec__dup", "frame_jsr_rel8_2", "fib"}

\* What the assembler accepts as the arguments of an instruction: a register,
\* an immediate value (never an object) or a number, bytes.
WellFormed(x) ==
    /\ x.b1 \in Nat /\ x.b2 \in Nat
    /\ x.op \in {"unsafe_ld", "unsafe_st", "load_im", "push", "pop"} => x.r \in Regs
    /\ x.op \in {"unsafe_ldw_int", "unsafe_stw_fix", "loadw_im", "ldNV_im", "pushw"} => x.r \in WordRegs
    /\ x.op \in {"loadw_im", "ldNV_im"} => x.im \in Int
    /\ x.op \in {"load_im", "push_im", "add_im", "ret_im", "cmpbr_keep_lt_im_rel8", "cmpbr_A_lt_im_rel8"}
          => x.im \in Live /\ ~ is_allocated(x.im)

\* The return addresses of the compiled opcode are fixnums.
LabelsFit == FIX(1).n = 1 /\ FIX(2).n = 2 /\ FIX(3).n = 3

\* STACK_ALLOC cannot wrap SP.
AllocIsSafe == stacklen < MaxSP

\* The programs the theorems are about.
SafeCode ==
    \A p \in DOMAIN Code :
        /\ DOMAIN Code[p] \subseteq Nat /\ 0 \in DOMAIN Code[p]
        /\ \A a \in DOMAIN Code[p] : \A x \in Code[p][a] :
              WellFormed(x) /\ x.op \notin Excluded
              /\ (x.op = "fib_with_registers" => LabelsFit)
              /\ (x.op = "jsr_rel8__swap" => AllocIsSafe)

\* The registers, those of the process, and all used slots are live, whether
\* the interpreter or the process says that they are used.
MachineOK ==
    /\ reg \in [Regs -> Live]
    /\ word \in [WordRegs -> -(8 * FixRange)..(8 * FixRange - 1)]
    /\ SP \in 0..stacklen
    /\ vals \in [Slots -> Fitting]
    /\ \A i \in Slots : i < SP \/ i < proc.sp => vals[i] \in Live
    /\ proc \in [reg : [Regs -> Live], sp : 0..stacklen]

\* The frames of the compiled opcode: the caller's return address below slot b,
\* in b that of the outermost call, and d frames of two slots above it, each an
\* integer and a return address.  The address of the uppermost one has been
\* popped when control is where it leads to.
InCall(b, d) ==
    /\ LabelsFit
    /\ b - 1 \in Slots /\ b + 2 * d \in Slots
    /\ vals[b - 1].kind = "pcnum" /\ vals[b - 1].n \in DOMAIN Code[program]
    /\ vals[b] = FIX(3)
    /\ \A k \in 1..d : IsInteger(vals[b + 2 * k - 1]) /\ vals[b + 2 * k] \in {FIX(1), FIX(2)}
    /\ IF label = "fib_with_registers_entry" THEN SP = b + 2 * d + 1
       ELSE label = RegisterLabels[vals[b + 2 * d].n] /\ SP = b + 2 * d /\ IsInteger(reg.A)

ControlOK ==
    /\ program \in DOMAIN Code /\ pc \in DOMAIN Code[program]
    /\ status \in {"run", "halt", "error"}
    /\ status = "halt" => label = "dispatch"
    /\ label # "dispatch" => \E b \in Slots, d \in 0..stacklen : InCall(b, d)

MInv == MachineOK /\ ControlOK
=============================================================================
