--------------------------------- MODULE VM ---------------------------------
(***************************************************************************)
(* The interpreter: vm_process_run of vm.c with the opcodes of             *)
(* _opcode_dispatch.h, which opcodes.scm generates from normal-opcodes.scm *)
(* and optim-opcodes.scm.                                                  *)
(*                                                                         *)
(* The registers A-D and SP are C locals.  The collector does not see      *)
(* them: it sees their copies in the process structure, and the stack up   *)
(* to the copy of SP.  VMMem has what a collection does to the memory;     *)
(* here it has one effect: a bignum which is referred to from a place that *)
(* is no root is gone, and that place is left with a dangling reference.   *)
(*                                                                         *)
(* The opcodes that differ in a register only are one operator, the        *)
(* register being an argument of the instruction.                          *)
(***************************************************************************)
EXTENDS Integers, FiniteSetsExt

CONSTANTS
    stacklen,   \* slots of the stack
    MaxSP,      \* the largest stacksize_t; 65535 in the code
    FixRange,   \* fixnums are -FixRange .. FixRange - 1; 4096 in the code
    MaxInt,     \* bound: integers are -MaxInt .. MaxInt - 1
    Code,       \* programs: for every address, what may be there
    Reruns      \* does the host run the process again after a halt?

ASSUME VMConstants ==
    /\ MaxSP \in Nat /\ stacklen \in 0..MaxSP
    /\ FixRange \in Nat \ {0} /\ MaxInt \in Nat
    /\ Reruns \in BOOLEAN

VARIABLES
    reg,        \* A-D of the interpreter
    word,       \* M, N and NV, as signed words
    SP,         \* of the interpreter
    vals,       \* the memory of the stack
    proc,       \* what the process structure has of the registers and of SP
    program, pc,
    label,      \* "dispatch", or where in a compiled opcode control is
    status      \* "run", "halt", "error", "undefined"

control == <<program, pc, label>>
machine == <<reg, word, SP, vals, proc>>
vars == <<machine, control, status>>

Regs == {"A", "B", "C", "D"}
WordRegs == {"M", "N", "NV"}
Slots == 0..(stacklen - 1)

\* n as a two's complement number from -half to half - 1
Wrap(n, half) == ((n + half) % (2 * half)) - half
SignedWord(n) == Wrap(n, 8 * FixRange)
int8(n) == Wrap(n, 128)
int16(n) == Wrap(n, 32768)
uint8(n) == n % 256
uint16(n) == n % 65536

-----------------------------------------------------------------------------
(***************************************************************************)
(* Values.  An instruction's immediate is a value, or a number where the   *)
(* opcode takes it as one.                                                 *)
(***************************************************************************)
FIX(n) == [kind |-> "fixnum", n |-> Wrap(n, FixRange)]
PCNUM(n) == [kind |-> "pcnum", n |-> n % 8192]
SPECIAL(n) == [kind |-> "special", n |-> n]
FAL == SPECIAL(0)
TRU == SPECIAL(1)
UNINITIALIZED == SPECIAL(5)
Dangling == [kind |-> "dangling", n |-> 0]

is_fixnum(v) == v.kind = "fixnum"
is_allocated(v) == v.kind \in {"bignum", "dangling"}
IsInteger(v) == v.kind \in {"fixnum", "bignum"}
InFixRange(n) == -FixRange <= n /\ n < FixRange

\* What the primitives return for the integer n.
ToScm(n) == IF InFixRange(n) THEN FIX(n) ELSE [kind |-> "bignum", n |-> n]

\* The word a value is encoded in.
Encoded(v) == SignedWord(8 * v.n + (CASE is_fixnum(v) -> 7 [] v.kind = "pcnum" -> 3 [] OTHER -> 1))

\* INT(v) is signed, whatever v is, and of an object's offset could be anything.
INTs(v) == IF is_allocated(v) THEN {-1, 0, 1} ELSE {Wrap(v.n, FixRange)}

\* The data bits of a fixnum or a special value, and the values of a kind that
\* have the data bits B: one, when FixRange is a power of two, as in the code.
Bits(v) == {k \in 0..12 : 2^k < 2 * FixRange /\ (v.n \div 2^k) % 2 = 1}
Numbers(kind) == IF kind = "fixnum" THEN -FixRange..(FixRange - 1) ELSE 0..(2 * FixRange - 1)
OfBits(kind, B) == {v \in {[kind |-> kind, n |-> n] : n \in Numbers(kind)} : Bits(v) = B}

-----------------------------------------------------------------------------
(***************************************************************************)
(* Instructions: [op, r, b1, b2, im, off], with a register, two bytes, an  *)
(* immediate and a branch distance.                                        *)
(***************************************************************************)
Ref(i) == vals[SP - 1 - i]
Swapped == [vals EXCEPT ![SP - 1] = vals[SP - 2], ![SP - 2] = vals[SP - 1]]
StoredSP == [proc EXCEPT !.sp = SP]

\* Argument bytes and the opcode.  ldNV_im takes two and is declared with one.
Size(x) ==
    CASE x.op \in {"unsafe_ld", "unsafe_ldw_int", "ldNV_im", "unsafe_st", "unsafe_stw_fix",
                   "pick_b", "inc_", "unsafe_addA_"} -> 2
      [] x.op \in {"load_im", "loadw_im", "push_im", "add_im", "add__", "bpos_keep_rel16",
                   "bneg0_keep_rel16", "bneg_keep_rel16", "bz_keep_rel16", "bz_rel16"} -> 3
      [] x.op \in {"cmpbr_keep_lt_im_rel8", "cmpbr_A_lt_im_rel8", "cmpbr_N_lt_im_rel8"} -> 4
      [] x.op = "beq_im_rel16" -> 5
      [] OTHER -> 1

Top1 == {"pop", "swapA", "swapN", "popN__pushA", "drop1", "dup", "inc", "dec", "add_im", "addA",
         "addM", "ret", "ret_im", "beq_im_rel16", "bpos_keep_rel16", "bneg0_keep_rel16",
         "bneg_keep_rel16", "bz_keep_rel16", "bz_rel16", "cmpbr_keep_lt_im_rel8", "jsr_rel8__swap"}
Top2 == {"swap", "add", "bitwise_and", "unsafe_bitwise_and", "unsafe_bitwise_or", "ret_pop", "swap__dec",
         "fib", "fib_with_registers"}

\* The slots that must be in use: LET_POP, LET_STACK_REF, STACK_ENSURE_HAS etc.
Has(x) == CASE x.op \in {"pick_b", "inc_"} -> x.b1 + 1
            [] x.op \in {"add__", "mul__"} -> Max({x.b1, x.b2}) + 1
            [] x.op \in Top1 -> 1
            [] x.op \in Top2 -> 2
            [] OTHER -> 0

\* Fault: PUSH does not check.
FreeUnchecked(x) == IF x.op = "dup" THEN 1 ELSE 0
\* The slots that must be free: PUSH, STACK_DUP and STACK_ENSURE_FREE(n), which
\* checks for two whatever n is.
Free(x) == CASE x.op \in {"push", "pushw", "push_im", "pick_b", "dup", "inc_", "jsr_rel8"} -> 1
             [] x.op \in {"frame_jsr_rel8_1", "frame_jsr_rel8_2"} -> 2
             [] OTHER -> 0

\* Fault: SP is narrower than the length.
AllocNarrow == (SP + 1) % MaxSP <= stacklen
\* STACK_ALLOC(1) raises SP before it compares, so that SP may wrap to 0.
Alloc == (SP + 1) % (MaxSP + 1) <= stacklen

Fits(x) == /\ Has(x) <= SP /\ Free(x) <= stacklen - SP
           /\ x.op \in {"dec__dup", "jsr_rel8__swap"} => Alloc

\* dec__dup does not check for its operand, and has a slot for the copy only if
\* STACK_ALLOC has not wrapped.
DupIsWithin == 0 < SP /\ SP < stacklen

\* What an opcode hands to a primitive that wants integers.
Operands(x) ==
    CASE x.op \in {"inc", "dec"} -> {Ref(0)}
      [] x.op = "dec__dup" -> IF DupIsWithin THEN {Ref(0)} ELSE {}
      [] x.op = "swap__dec" -> {Ref(1)}
      [] x.op = "inc_" -> {Ref(x.b1)}
      [] x.op \in {"incA", "decA"} -> {reg.A}
      [] x.op = "add" -> {Ref(1), Ref(0)}
      [] x.op \in {"add_im", "cmpbr_keep_lt_im_rel8"} -> {Ref(0), x.im}
      [] x.op = "add__" -> {Ref(x.b1), Ref(x.b2)}
      [] x.op = "addA" -> {reg.A, Ref(0)}
      [] x.op = "unsafe_addA_" -> {reg.A, Ref(x.b1)}
      [] x.op = "cmpbr_A_lt_im_rel8" -> {reg.A, x.im}
      [] OTHER -> {}

IncDec == {"inc", "dec", "dec__dup", "swap__dec", "inc_", "incA", "decA"}

\* ERROR_INTEGER, UNFINISHED, or nothing but a DIE.
Refused(x) == \/ \E v \in Operands(x) : ~ IsInteger(v)
              \/ x.op \in IncDec /\ \E v \in Operands(x) : ~ is_fixnum(v)
              \/ x.op \in {"mul__", "bitwise_and", "invalid_op"}

\* What "unsafe" opcodes and jumps leave to a bytecode verifier: operands
\* within the stack and of the right type, return addresses.
Verified(x) ==
    /\ x.op \in {"unsafe_ld", "unsafe_ldw_int", "unsafe_st", "unsafe_stw_fix", "unsafe_addA_"} => x.b1 < SP
    /\ x.op = "unsafe_ldw_int" => is_fixnum(Ref(x.b1))
    /\ x.op \in {"swapN", "popN__pushA", "addM"} /\ SP > 0 => is_fixnum(Ref(0))
    /\ x.op \in {"unsafe_bitwise_and", "unsafe_bitwise_or"} /\ SP > 1 =>
          Ref(0).kind = Ref(1).kind /\ Ref(0).kind \in {"fixnum", "special"}
    /\ x.op \in {"ret", "ret_im"} /\ SP > 0 => Ref(0).kind = "pcnum"
    /\ x.op = "ret_pop" /\ SP > 1 => Ref(1).kind = "pcnum"
    /\ x.op = "unsafe_frame_ret" => 1 <= x.b1 /\ x.b1 <= SP /\ Ref(0).kind = "pcnum"
    /\ x.op \in {"fib", "fib_with_registers"} /\ SP > 0 =>
          Ref(0).kind = "pcnum" /\ Ref(0).n \in DOMAIN Code[program]

-----------------------------------------------------------------------------
(***************************************************************************)
(* Effects and flow of control.                                            *)
(***************************************************************************)
Running == UNCHANGED status
SetReg(r, v) == reg' = [reg EXCEPT ![r] = v] /\ UNCHANGED <<word, SP, vals, proc>> /\ Running
SetWord(w, n) == word' = [word EXCEPT ![w] = SignedWord(n)] /\ UNCHANGED <<reg, SP, vals, proc>> /\ Running
SetStack(s, sp) == vals' = s /\ SP' = sp /\ UNCHANGED <<reg, word, proc>> /\ Running
SetSlot(i, v) == SetStack([vals EXCEPT ![SP - 1 - i] = v], SP)
Push(v) == SetStack([vals EXCEPT ![SP] = v], SP + 1)
Drop(n) == SetStack(vals, SP - n)
Skip == UNCHANGED machine /\ Running

Stop(s) == status' = s /\ UNCHANGED <<machine, control>>
\* ERROR_INTEGER and UNFINISHED; asking for the type of no object is undefined.
Refuse(values) == Stop(IF Dangling \in values THEN "undefined" ELSE "error")

JumpTo(p) == pc' = p /\ UNCHANGED <<program, label>>
Advance(x) == JumpTo(pc + Size(x))
Branch(x, condition, distance) == IF condition THEN JumpTo(pc + distance) ELSE Advance(x)

(***************************************************************************)
(* A primitive that may allocate.  STORE_ALL and RESTORE_ALL copy all      *)
(* registers to the process and back, STORE_EXCEPT_A and RESTORE_EXCEPT_A  *)
(* all but A.  The SCM_ forms are called, and their result is assigned, in *)
(* between; the DO_ forms copy when they take the slow path of the         *)
(* allocation or have a bignum, and assign the result at the end.          *)
(***************************************************************************)
ALL == Regs \cup {"SP"}
EXCEPT_A == ALL \ {"A"}
Always(saved) == [store |-> saved, restore |-> saved, lazy |-> FALSE]
\* Fault: B is not restored.
WithoutB(saved) == [store |-> saved, restore |-> saved \ {"B"}, lazy |-> TRUE]
\* Fault: the slow path restores what it has not saved.
Unsaved(saved) == [store |-> {}, restore |-> saved, lazy |-> TRUE]
Lazily(saved) == [store |-> saved, restore |-> saved, lazy |-> TRUE]

\* The process after a STORE with sp as the stack pointer.
Stored(store, sp) == [reg |-> [r \in Regs |-> IF r \in store THEN reg[r] ELSE proc.reg[r]],
                      sp |-> IF "SP" \in store THEN sp ELSE proc.sp]

\* A reference from a place that is no root, after a collection.
Lost(v) == IF v.kind = "bignum" THEN Dangling ELSE v

RootDangles(p, s) == \/ \E r \in Regs : p.reg[r] = Dangling
                     \/ \E i \in 0..(p.sp - 1) : s[i] = Dangling

\* The integer n is computed from operands by a primitive called with the
\* stack s and stack pointer sp, and is put into the registers toRegs and the
\* slots toSlots.  Then drop slots are given up.
Primitive(how, s, sp, operands, n, toRegs, toSlots, drop) ==
    LET bignums == \E v \in operands : ~ is_fixnum(v)
    IN  /\ -MaxInt <= n /\ n < MaxInt
        /\ \E collect \in IF bignums \/ ~ InFixRange(n) THEN BOOLEAN ELSE {FALSE} :
              LET copies == ~ how.lazy \/ collect \/ bignums
                  p == IF copies THEN Stored(how.store, sp) ELSE proc
                  restored == IF copies THEN how.restore ELSE {}
              IN  /\ status' = IF collect /\ RootDangles(p, s) THEN "undefined" ELSE "run"
                  /\ proc' = p
                  /\ reg' = [r \in Regs |-> CASE r \in restored /\ (r \notin toRegs \/ ~ how.lazy) -> p.reg[r]
                                              [] r \in toRegs /\ (r \notin restored \/ how.lazy) -> ToScm(n)
                                              [] OTHER -> IF collect THEN Lost(reg[r]) ELSE reg[r]]
                  /\ vals' = [i \in Slots |-> CASE i \in toSlots -> ToScm(n)
                                               [] i \notin toSlots /\ collect /\ i >= p.sp -> Lost(s[i])
                                               [] OTHER -> s[i]]
                  /\ SP' = (IF "SP" \in restored THEN p.sp ELSE sp) - drop

\* The common case: the stack as it is, and a sum of operands.
Compute(how, operands, n, toRegs, toSlots, drop) ==
    Primitive(how, vals, SP, operands, n, toRegs, toSlots, drop) /\ UNCHANGED word

-----------------------------------------------------------------------------
(***************************************************************************)
(* Loads, stores and moves.                                                *)
(***************************************************************************)
unsafe_ld(x) == SetReg(x.r, Ref(x.b1)) /\ Advance(x)
unsafe_ldw_int(x) == SetWord(x.r, Ref(x.b1).n) /\ Advance(x)
unsafe_st(x) == SetSlot(x.b1, reg[x.r]) /\ Advance(x)
unsafe_stw_fix(x) == SetSlot(x.b1, FIX(word[x.r])) /\ Advance(x)
loadw_im(x) == SetWord(x.r, x.im) /\ Advance(x)
load_im(x) == SetReg(x.r, x.im) /\ Advance(x)
push(x) == Push(reg[x.r]) /\ Advance(x)
pushw(x) == Push(FIX(word[x.r])) /\ Advance(x)
push_im(x) == Push(x.im) /\ Advance(x)
TAB(x) == SetReg("B", reg.A) /\ Advance(x)
TBA(x) == SetReg("A", reg.B) /\ Advance(x)
decN(x) == SetWord("N", word.N - 1) /\ Advance(x)
drop1(x) == Drop(1) /\ Advance(x)
pick_b(x) == Push(Ref(x.b1)) /\ Advance(x)
\* break as well: BREAK() of chj-64lib stops for a debugger, which lets it go on.
nop(x) == Skip /\ Advance(x)

pop(x) ==
    /\ reg' = [reg EXCEPT ![x.r] = Ref(0)]
    /\ SP' = SP - 1
    /\ UNCHANGED <<word, vals, proc, status>>
    /\ Advance(x)

swapA(x) ==
    /\ reg' = [reg EXCEPT !.A = Ref(0)]
    /\ vals' = [vals EXCEPT ![SP - 1] = reg.A]
    /\ UNCHANGED <<word, SP, proc, status>>
    /\ Advance(x)

\* swapN and popN__pushA: pop into N, push v.
IntoN(v) ==
    /\ word' = [word EXCEPT !.N = SignedWord(Ref(0).n)]
    /\ vals' = [vals EXCEPT ![SP - 1] = v]
    /\ UNCHANGED <<reg, SP, proc, status>>
swapN(x) == IntoN(FIX(word.N)) /\ Advance(x)
popN__pushA(x) == IntoN(reg.A) /\ Advance(x)

\* STACK_SWAP and STACK_DUP work on the process' SP, and leave it there.
swap(x) ==
    /\ vals' = Swapped /\ proc' = StoredSP
    /\ UNCHANGED <<reg, word, SP, status>>
    /\ Advance(x)
dup(x) ==
    /\ vals' = [vals EXCEPT ![SP] = Ref(0)]
    /\ SP' = SP + 1 /\ proc' = [proc EXCEPT !.sp = SP + 1]
    /\ UNCHANGED <<reg, word, status>>
    /\ Advance(x)

-----------------------------------------------------------------------------
(***************************************************************************)
(* Arithmetic.                                                             *)
(***************************************************************************)
inc(x) == Compute(Always(ALL), Operands(x), Ref(0).n + 1, {}, {SP - 1}, 0) /\ Advance(x)
dec(x) == Compute(Always(ALL), Operands(x), Ref(0).n - 1, {}, {SP - 1}, 0) /\ Advance(x)
incA(x) == Compute(Always(EXCEPT_A), Operands(x), reg.A.n + 1, {"A"}, {}, 0) /\ Advance(x)
decA(x) == Compute(Lazily(EXCEPT_A), Operands(x), reg.A.n - 1, {"A"}, {}, 0) /\ Advance(x)

\* The result is pushed before RESTORE_ALL puts back the old SP.
inc_(x) == Compute(Always(ALL), Operands(x), Ref(x.b1).n + 1, {}, {SP}, 0) /\ Advance(x)

add(x) == Compute(Lazily(ALL), Operands(x), Ref(1).n + Ref(0).n, {}, {SP - 2}, 1) /\ Advance(x)
add_im(x) == Compute(Lazily(ALL), Operands(x), Ref(0).n + x.im.n, {}, {SP - 1}, 0) /\ Advance(x)
add__(x) == Compute(Always(ALL), Operands(x), Ref(x.b1).n + Ref(x.b2).n, {}, {SP - 1 - x.b1}, 0) /\ Advance(x)
addA(x) == Compute(Lazily(EXCEPT_A), Operands(x), reg.A.n + Ref(0).n, {"A"}, {}, 1) /\ Advance(x)
unsafe_addA_(x) == Compute(Lazily(EXCEPT_A), Operands(x), reg.A.n + Ref(x.b1).n, {"A"}, {}, 0) /\ Advance(x)

addM(x) ==
    /\ word' = [word EXCEPT !.M = SignedWord(word.M + Ref(0).n)]
    /\ SP' = SP - 1
    /\ UNCHANGED <<reg, vals, proc, status>>
    /\ Advance(x)

unsafe_bitwise(x) ==
    /\ LET bits == IF x.op = "unsafe_bitwise_and" THEN Bits(Ref(1)) \cap Bits(Ref(0))
                   ELSE Bits(Ref(1)) \cup Bits(Ref(0))
       IN  \E v \in OfBits(Ref(0).kind, bits) : SetStack([vals EXCEPT ![SP - 2] = v], SP - 1)
    /\ Advance(x)

\* Combined: SP is raised over the slot of the copy before the registers are
\* stored, so that the collector sees what the slot has held before.
dec__dup(x) ==
    IF ~ DupIsWithin THEN Stop("undefined")
    ELSE /\ Primitive(Always(ALL), vals, SP + 1, Operands(x), Ref(0).n - 1, {}, {SP - 1, SP}, 0)
         /\ UNCHANGED word
         /\ Advance(x)
swap__dec(x) ==
    /\ Primitive(Always(ALL), Swapped, SP, Operands(x), Ref(1).n - 1, {}, {SP - 1}, 0)
    /\ UNCHANGED word
    /\ Advance(x)

-----------------------------------------------------------------------------
(***************************************************************************)
(* Jumps, calls and returns.  Distances count from the instruction; those  *)
(* of conditional branches are unsigned.                                   *)
(***************************************************************************)
jmp_rel8(x) == Skip /\ JumpTo(pc + int8(x.off))
jmp_rel16(x) == Skip /\ JumpTo(pc + int16(x.off))

\* Fault: the address of the call.
ReturnToCall == PCNUM(pc)
ReturnAddress == PCNUM(pc + 2)

jsr_rel8(x) == Push(ReturnAddress) /\ JumpTo(pc + int8(x.off))

\* A frame with n slots below the return address.
FrameJsr(x, n) ==
    /\ SetStack([i \in Slots |-> CASE i = SP + n -> ReturnAddress
                                  [] SP <= i /\ i < SP + n -> UNINITIALIZED
                                  [] OTHER -> vals[i]], SP + n + 1)
    /\ JumpTo(pc + int8(x.off))
frame_jsr_rel8_1(x) == FrameJsr(x, 1)
\* With two free slots only, the return address is written behind the stack.
frame_jsr_rel8_2(x) == IF SP + 3 <= stacklen THEN FrameJsr(x, 2) ELSE Stop("undefined")

\* Below the return address goes what was above it: before the stack, when
\* STACK_ALLOC has wrapped.
jsr_rel8__swap(x) ==
    IF SP = stacklen THEN Stop("undefined")
    ELSE /\ SetStack([vals EXCEPT ![SP - 1] = ReturnAddress, ![SP] = Ref(0)], SP + 1)
         /\ JumpTo(pc + int8(x.off))

\* Fault: the slots are given up, the return address stays.
FrameRetShort(x) == Drop(x.b1 - 1) /\ JumpTo(Ref(0).n)
ret(x) == Drop(1) /\ JumpTo(Ref(0).n)
unsafe_frame_ret(x) == Drop(x.b1) /\ JumpTo(Ref(0).n)
ret_im(x) == SetSlot(0, x.im) /\ JumpTo(Ref(0).n)
ret_pop(x) == SetStack([vals EXCEPT ![SP - 2] = Ref(0)], SP - 1) /\ JumpTo(Ref(1).n)

beq_im_rel16(x) == Drop(1) /\ Branch(x, Ref(0) = x.im, uint16(x.off))
bpos_keep_rel16(x) == Skip /\ \E n \in INTs(Ref(0)) : Branch(x, n > 0, uint16(x.off))
bneg0_keep_rel16(x) == Skip /\ \E n \in INTs(Ref(0)) : Branch(x, n <= 0, uint16(x.off))
bneg_keep_rel16(x) == Skip /\ \E n \in INTs(Ref(0)) : Branch(x, n < 0, uint16(x.off))
bz_keep_rel16(x) == Skip /\ Branch(x, Ref(0) = FIX(0), uint16(x.off))
bz_rel16(x) == Drop(1) /\ Branch(x, Ref(0) = FIX(0), uint16(x.off))
cmpbr_keep_lt_im_rel8(x) == Skip /\ Branch(x, Ref(0).n < x.im.n, uint8(x.off))
cmpbr_A_lt_im_rel8(x) == Skip /\ Branch(x, reg.A.n < x.im.n, uint8(x.off))
cmpbr_N_lt_im_rel8(x) == Skip /\ Branch(x, word.N < SignedWord(x.im), uint8(x.off))

halt(x) ==
    /\ proc' = Stored(ALL, SP)
    /\ status' = "halt"
    /\ UNCHANGED <<reg, word, SP, vals, control>>

-----------------------------------------------------------------------------
(***************************************************************************)
(* The compiled opcodes fib and fib_with_registers, from label to label.   *)
(* A return address within them is a fixnum that stands for a label.       *)
(***************************************************************************)
FibLabels == <<"fib_ret_1", "fib_ret_2">>
RegisterLabels == <<"fib_with_registers_ret_1", "fib_with_registers_ret_2",
                    "fib_with_registers_end_calling_conventions">>

GotoLabel(l) == label' = l /\ UNCHANGED <<program, pc>>
FibReturn(origpc) ==
    IF is_fixnum(origpc) THEN GotoLabel(FibLabels[origpc.n])
    ELSE label' = "dispatch" /\ pc' = origpc.n /\ UNCHANGED program
RegisterReturn(origpc) == GotoLabel(RegisterLabels[origpc.n])

\* Fault: a call too deep.
BelowOne(v) == v.n < 1
\* fib of the integer v is 1.
BelowTwo(v) == v.n < 2

\* The argument has been pushed before the return address.
fib_entry ==
    CASE SP < 2 -> Stop("error")
      [] SP >= 2 /\ ~ IsInteger(Ref(1)) -> Refuse({Ref(1)})
      [] SP >= 2 /\ IsInteger(Ref(1)) /\ BelowTwo(Ref(1)) ->
            /\ vals' = [Swapped EXCEPT ![SP - 2] = FIX(1)]
            /\ SP' = SP - 1 /\ proc' = StoredSP
            /\ UNCHANGED <<reg, word, status>>
            /\ FibReturn(Ref(0))
      [] OTHER ->
            IF SP = stacklen /\ Alloc THEN Stop("undefined")
            ELSE IF ~ is_fixnum(Ref(1)) \/ SP + 2 > stacklen THEN Stop("error")
            ELSE LET less == FIX(Ref(1).n - 1) IN
                 /\ vals' = [Swapped EXCEPT ![SP - 1] = less, ![SP] = less, ![SP + 1] = FIX(1)]
                 /\ SP' = SP + 2 /\ proc' = StoredSP
                 /\ UNCHANGED <<reg, word, status>>
                 /\ GotoLabel("fib_entry")

\* The copy of the argument, at least 1, is below the first result.
fib_ret_1 ==
    IF SP + 1 > stacklen THEN Stop("error")
    ELSE /\ vals' = [Swapped EXCEPT ![SP - 1] = FIX(Ref(1).n - 1), ![SP] = FIX(2)]
         /\ SP' = SP + 1 /\ proc' = StoredSP
         /\ UNCHANGED <<reg, word, status>>
         /\ GotoLabel("fib_entry")

\* The primitive is called without any STORE.
fib_ret_2 ==
    /\ Primitive(Always({}), vals, SP, {Ref(1), Ref(0)}, Ref(1).n + Ref(0).n, {}, {SP - 2, SP - 3}, 2)
    /\ word' = [word EXCEPT !.N = Encoded(Ref(2))]
    /\ FibReturn(Ref(2))

fib_with_registers(x) ==
    /\ reg' = [reg EXCEPT !.A = Ref(1)]
    /\ vals' = [Swapped EXCEPT ![SP - 1] = FIX(3)]
    /\ proc' = StoredSP
    /\ UNCHANGED <<word, SP, status>>
    /\ GotoLabel("fib_with_registers_entry")

fib_with_registers_entry ==
    CASE ~ IsInteger(reg.A) -> Refuse({reg.A})
      [] IsInteger(reg.A) /\ BelowTwo(reg.A) ->
            /\ word' = [word EXCEPT !.N = Encoded(Ref(0))]
            /\ SP' = SP - 1
            /\ reg' = [reg EXCEPT !.A = FIX(1)]
            /\ UNCHANGED <<vals, proc, status>>
            /\ RegisterReturn(Ref(0))
      [] OTHER ->
            IF ~ is_fixnum(reg.A) \/ SP + 2 > stacklen THEN Stop("error")
            ELSE LET less == FIX(reg.A.n - 1) IN
                 /\ reg' = [reg EXCEPT !.A = less]
                 /\ vals' = [vals EXCEPT ![SP] = less, ![SP + 1] = FIX(1)]
                 /\ SP' = SP + 2
                 /\ UNCHANGED <<word, proc, status>>
                 /\ GotoLabel("fib_with_registers_entry")

fib_with_registers_ret_1 ==
    IF SP + 1 > stacklen THEN Stop("error")
    ELSE /\ word' = [word EXCEPT !.N = Encoded(Ref(0))]
         /\ reg' = [reg EXCEPT !.A = FIX(Ref(0).n - 1)]
         /\ vals' = [vals EXCEPT ![SP - 1] = reg.A, ![SP] = FIX(2)]
         /\ SP' = SP + 1
         /\ UNCHANGED <<proc, status>>
         /\ GotoLabel("fib_with_registers_entry")

fib_with_registers_ret_2 ==
    /\ Primitive(Lazily(EXCEPT_A), vals, SP, {reg.A, Ref(0)}, reg.A.n + Ref(0).n, {"A"}, {}, 2)
    /\ word' = [word EXCEPT !.N = Encoded(Ref(1))]
    /\ RegisterReturn(Ref(1))

\* PUSH(A), STACK_SWAP and op_ret
fib_with_registers_end_calling_conventions ==
    IF SP + 1 > stacklen THEN Stop("error")
    ELSE /\ vals' = [vals EXCEPT ![SP - 1] = reg.A, ![SP] = Ref(0)]
         /\ proc' = [proc EXCEPT !.sp = SP + 1]
         /\ UNCHANGED <<reg, word, SP, status, program>>
         /\ label' = "dispatch" /\ pc' = Ref(0).n

Compiled ==
    \/ label = "fib_entry" /\ fib_entry
    \/ label = "fib_ret_1" /\ fib_ret_1
    \/ label = "fib_ret_2" /\ fib_ret_2
    \/ label = "fib_with_registers_entry" /\ fib_with_registers_entry
    \/ label = "fib_with_registers_ret_1" /\ fib_with_registers_ret_1
    \/ label = "fib_with_registers_ret_2" /\ fib_with_registers_ret_2
    \/ label = "fib_with_registers_end_calling_conventions" /\ fib_with_registers_end_calling_conventions

-----------------------------------------------------------------------------
\* The opcodes whose result is an integer that may have to be allocated.
ArithmeticOps == {"inc", "dec", "incA", "decA", "add", "add_im", "add__", "addA", "unsafe_addA_", "swap__dec"}
Arithmetic(x) ==
    \/ x.op = "inc" /\ inc(x)
    \/ x.op = "dec" /\ dec(x)
    \/ x.op = "incA" /\ incA(x)
    \/ x.op = "decA" /\ decA(x)
    \/ x.op = "add" /\ add(x)
    \/ x.op = "add_im" /\ add_im(x)
    \/ x.op = "add__" /\ add__(x)
    \/ x.op = "addA" /\ addA(x)
    \/ x.op = "unsafe_addA_" /\ unsafe_addA_(x)
    \/ x.op = "swap__dec" /\ swap__dec(x)

Execute(x) ==
    \/ x.op = "unsafe_ld" /\ unsafe_ld(x)
    \/ x.op = "unsafe_ldw_int" /\ unsafe_ldw_int(x)
    \/ x.op = "unsafe_st" /\ unsafe_st(x)
    \/ x.op = "unsafe_stw_fix" /\ unsafe_stw_fix(x)
    \/ x.op \in {"loadw_im", "ldNV_im"} /\ loadw_im(x)
    \/ x.op = "load_im" /\ load_im(x)
    \/ x.op = "push" /\ push(x)
    \/ x.op = "pushw" /\ pushw(x)
    \/ x.op = "push_im" /\ push_im(x)
    \/ x.op = "pop" /\ pop(x)
    \/ x.op = "TAB" /\ TAB(x)
    \/ x.op = "TBA" /\ TBA(x)
    \/ x.op = "swapA" /\ swapA(x)
    \/ x.op = "swapN" /\ swapN(x)
    \/ x.op = "popN__pushA" /\ popN__pushA(x)
    \/ x.op = "decN" /\ decN(x)
    \/ x.op = "drop1" /\ drop1(x)
    \/ x.op = "pick_b" /\ pick_b(x)
    \/ x.op \in {"nop", "trace_on", "trace_off", "break"} /\ nop(x)
    \/ x.op = "swap" /\ swap(x)
    \/ x.op = "dup" /\ dup(x)
    \/ Arithmetic(x)
    \/ x.op = "addM" /\ addM(x)
    \/ x.op \in {"unsafe_bitwise_and", "unsafe_bitwise_or"} /\ unsafe_bitwise(x)
    \/ x.op = "inc_" /\ inc_(x)
    \/ x.op = "dec__dup" /\ dec__dup(x)
    \/ x.op = "jmp_rel8" /\ jmp_rel8(x)
    \/ x.op = "jmp_rel16" /\ jmp_rel16(x)
    \/ x.op = "jsr_rel8" /\ jsr_rel8(x)
    \/ x.op = "frame_jsr_rel8_1" /\ frame_jsr_rel8_1(x)
    \/ x.op = "frame_jsr_rel8_2" /\ frame_jsr_rel8_2(x)
    \/ x.op = "jsr_rel8__swap" /\ jsr_rel8__swap(x)
    \/ x.op = "ret" /\ ret(x)
    \/ x.op = "unsafe_frame_ret" /\ unsafe_frame_ret(x)
    \/ x.op = "ret_im" /\ ret_im(x)
    \/ x.op = "ret_pop" /\ ret_pop(x)
    \/ x.op = "beq_im_rel16" /\ beq_im_rel16(x)
    \/ x.op = "bpos_keep_rel16" /\ bpos_keep_rel16(x)
    \/ x.op = "bneg0_keep_rel16" /\ bneg0_keep_rel16(x)
    \/ x.op = "bneg_keep_rel16" /\ bneg_keep_rel16(x)
    \/ x.op = "bz_keep_rel16" /\ bz_keep_rel16(x)
    \/ x.op = "bz_rel16" /\ bz_rel16(x)
    \/ x.op = "cmpbr_keep_lt_im_rel8" /\ cmpbr_keep_lt_im_rel8(x)
    \/ x.op = "cmpbr_A_lt_im_rel8" /\ cmpbr_A_lt_im_rel8(x)
    \/ x.op = "cmpbr_N_lt_im_rel8" /\ cmpbr_N_lt_im_rel8(x)
    \/ x.op = "halt" /\ halt(x)
    \/ x.op = "fib" /\ fib_entry
    \/ x.op = "fib_with_registers" /\ fib_with_registers(x)

\* DISPATCH
Step ==
    /\ label = "dispatch"
    /\ \E x \in Code[program][pc] :
          /\ Verified(x)
          /\ \/ ~ Fits(x) /\ Stop("error")
             \/ Fits(x) /\ Refused(x) /\ Refuse(Operands(x))
             \/ Fits(x) /\ ~ Refused(x) /\ Execute(x)
    /\ status' = "run" => pc' \in DOMAIN Code[program]

\* The host runs program p in the same process, with sp words on the stack.
Run(p, sp) ==
    /\ status = "halt"
    /\ program' = p /\ pc' = 0 /\ label' = "dispatch" /\ status' = "run"
    /\ reg' = proc.reg
    /\ word' = [w \in WordRegs |-> 0]
    /\ SP' = sp /\ proc' = [proc EXCEPT !.sp = sp]
    /\ UNCHANGED vals

\* Any program, after clearing the stack or not.
Rerun == Reruns /\ \E p \in DOMAIN Code, sp \in {0, proc.sp} : Run(p, sp)

\* malloc_process, and the entry of vm_process_run
Init ==
    /\ program \in DOMAIN Code
    /\ pc = 0 /\ label = "dispatch" /\ status = "run"
    /\ reg = [r \in Regs |-> UNINITIALIZED]
    /\ word = [w \in WordRegs |-> 0]
    /\ SP = 0
    /\ proc = [reg |-> reg, sp |-> 0]
    /\ vals = [i \in Slots |-> Dangling]

Interpret == status = "run" /\ (Step \/ Compiled)
Next == Interpret \/ Rerun

Spec == Init /\ [][Next]_vars

-----------------------------------------------------------------------------
Value == [kind : {"fixnum", "pcnum", "special", "bignum", "dangling"}, n : Int]

\* Types, and every integer in the representation its size asks for.
TypeOK ==
    /\ reg \in [Regs -> Value] /\ vals \in [Slots -> Value]
    /\ proc \in [reg : [Regs -> Value], sp : 0..stacklen]
    /\ word \in [WordRegs -> -(8 * FixRange)..(8 * FixRange - 1)]
    /\ SP \in 0..stacklen
    /\ program \in DOMAIN Code /\ pc \in DOMAIN Code[program]
    /\ status \in {"run", "halt", "error", "undefined"}
    /\ \A v \in {reg[r] : r \in Regs} \cup {proc.reg[r] : r \in Regs} \cup {vals[i] : i \in Slots} :
          IsInteger(v) => (is_fixnum(v) <=> InFixRange(v.n))

\* No register, no used slot and no copy in the process refers to an object
\* that a collection has taken away: registers and SP are where the collector
\* finds them whenever a primitive is called (the STORE_ and RESTORE_ macros).
LiveValues ==
    /\ \A r \in Regs : reg[r] # Dangling /\ proc.reg[r] # Dangling
    /\ \A i \in Slots : i < SP \/ i < proc.sp => vals[i] # Dangling

\* Verified code never makes the interpreter write before or behind the stack,
\* or follow a reference to an object that is gone (the checks of STACK_ALLOC
\* and STACK_ENSURE_FREE, and what is stored before a collection).
NothingUndefined == status # "undefined"

-----------------------------------------------------------------------------
(***************************************************************************)
(* What arithmetic opcodes are to do, for a machine that has no collector: *)
(* the registers and the stack afterwards.                                 *)
(***************************************************************************)
Stack == [i \in 1..SP |-> vals[i - 1]]
Sum(v, w) == ToScm(v.n + w.n)
Less(v) == ToScm(v.n - 1)

OnTop(v) == <<reg, [Stack EXCEPT ![SP] = v]>>
InA(v, sp) == <<[reg EXCEPT !.A = v], [i \in 1..sp |-> Stack[i]]>>

Meaning(x) ==
    CASE x.op = "inc" -> OnTop(ToScm(Ref(0).n + 1))
      [] x.op = "dec" -> OnTop(Less(Ref(0)))
      [] x.op = "add_im" -> OnTop(Sum(Ref(0), x.im))
      [] x.op = "incA" -> InA(ToScm(reg.A.n + 1), SP)
      [] x.op = "decA" -> InA(Less(reg.A), SP)
      [] x.op = "addA" -> InA(Sum(reg.A, Ref(0)), SP - 1)
      [] x.op = "unsafe_addA_" -> InA(Sum(reg.A, Ref(x.b1)), SP)
      [] x.op = "add" -> <<reg, [i \in 1..(SP - 1) |-> IF i = SP - 1 THEN Sum(Ref(1), Ref(0)) ELSE Stack[i]]>>
      [] x.op = "add__" -> <<reg, [Stack EXCEPT ![SP - x.b1] = Sum(Ref(x.b1), Ref(x.b2))]>>
      [] x.op = "swap__dec" -> <<reg, [Stack EXCEPT ![SP] = Less(Ref(1)), ![SP - 1] = Ref(0)]>>

\* An arithmetic opcode has the effect it has on the machine without a
\* collector, whether or not it collects: the result is where it belongs, and
\* nothing else has moved or changed (STORE_, the primitive, RESTORE_, and the
\* stores after it).
ArithmeticExact ==
    [][status = "run" /\ label = "dispatch" /\ status' = "run" =>
         \A x \in {y \in Code[program][pc] : y.op \in ArithmeticOps} :
            Fits(x) /\ Verified(x) /\ Arithmetic(x) /\ ~ Refused(x) => <<reg', Stack'>> = Meaning(x)]_vars
=============================================================================
