------------------------------- MODULE VMTest -------------------------------
(***************************************************************************)
(* The tests of vmtest.c: bytecode assembled by the macros of bytecode.h,  *)
(* run one program after the other in one process, the stack being cleared *)
(* in between or not, and compared with what the test asserts.             *)
(*                                                                         *)
(* The numbers of the test are parameters here.  A label of the test is an *)
(* address that its author has counted, and the distances are his.         *)
(***************************************************************************)
EXTENDS VM, Sequences, TLC

CONSTANT Scripts    \* sequences of tests

ASSUME ScriptsOK == \A s \in DOMAIN Scripts : Len(Scripts[s]) > 0

-----------------------------------------------------------------------------
(***************************************************************************)
(* The macros: an instruction and the number of bytes it takes.            *)
(***************************************************************************)
OP(op) == [op |-> op, r |-> "A", b1 |-> 0, b2 |-> 0, im |-> FAL, off |-> 0, len |-> 1]
OP_B(op, a1) == [OP(op) EXCEPT !.b1 = uint8(a1), !.off = uint8(a1), !.len = 2]
OP_B_B(op, a1, a2) == [OP(op) EXCEPT !.b1 = uint8(a1), !.b2 = uint8(a2), !.len = 3]
OP_IM(op, v) == [OP(op) EXCEPT !.im = v, !.len = 3]
OP_IM_IM(op, v1, v2) == [OP(op) EXCEPT !.im = v1, !.off = uint16(v2), !.len = 5]
OP_IM_B(op, im, b) == [OP(op) EXCEPT !.im = im, !.off = uint8(b), !.len = 4]
\* OP_IM where the argument is a distance
OP_REL16(op, d) == [OP(op) EXCEPT !.off = uint16(d), !.len = 3]

\* The same opcode for another register
On(r, x) == [x EXCEPT !.r = r]

\* The union of functions whose domains are disjoint
Merged(F) == FoldSet(LAMBDA f, g : f @@ g, <<>>, F)

\* Each macro writes at pc and raises pc by its length.
Assemble(macros) ==
    LET n == Len(macros)
        pcAfter[k \in 0..n] == IF k = 0 THEN 0 ELSE pcAfter[k - 1] + macros[k].len
    IN  Merged({pcAfter[k - 1] :> {macros[k]} : k \in 1..n})

Programs == UNION {{s} \X DOMAIN Scripts[s] : s \in DOMAIN Scripts}
TestCode == Merged({p :> Assemble(Scripts[p[1]][p[2]].code) : p \in Programs})

ASSUME CodeOK == Code = TestCode

-----------------------------------------------------------------------------
(***************************************************************************)
(* The programs: what is run, and the stack it has to leave.               *)
(***************************************************************************)
Test(clear, code, stack) == [clear |-> clear, code |-> code, stack |-> stack]

\* a is 3, b 123 and c -3333 in the test.
Basics(a, b, c) ==
    << Test(FALSE, <<OP_IM("push_im", FIX(a)), OP_IM("push_im", FIX(b)), OP("inc"), OP("halt")>>,
            <<ToScm(a), ToScm(b + 1)>>),
       Test(FALSE, <<OP("add"), OP("halt")>>, <<ToScm(a + b + 1)>>),
       Test(FALSE, <<OP_IM("add_im", FIX(c)), OP("halt")>>, <<ToScm(a + b + 1 + c)>>),
       Test(FALSE, <<OP("drop1"), OP("halt")>>, <<>>),
       Test(FALSE, <<OP_IM("push_im", FIX(0)), OP_IM_IM("beq_im_rel16", FIX(0), 9), OP_IM("push_im", FAL),
                     OP("halt"), OP_IM("push_im", TRU), OP("halt")>>, <<TRU>>),
       Test(FALSE, <<OP_IM("push_im", FAL), OP("unsafe_bitwise_and"), OP("halt")>>, <<FAL>>),
       Test(FALSE, <<OP_IM("push_im", TRU), OP("unsafe_bitwise_or"), OP("halt")>>, <<TRU>>) >>

\* What the comment above the fibonacci programs defines.
fib[n \in 0..16] == IF n < 2 THEN 1 ELSE fib[n - 1] + fib[n - 2]
FibTest(n, code) == Test(TRUE, code, <<ToScm(fib[n])>>)

FibNaive(n) == FibTest(n,
    << OP_IM("push_im", FIX(n)), OP_B("jsr_rel8", 3), OP("halt"),
       (* fib *) OP("swap"), OP_IM_B("cmpbr_keep_lt_im_rel8", FIX(2), 14),
       OP("dec"), OP("dup"), OP_B("jsr_rel8", -7),
       OP("swap"), OP("dec"), OP_B("jsr_rel8", -11), OP("add"), OP("ret_pop"),
       (* end *) OP("drop1"), OP_IM("ret_im", FIX(1)) >>)

FibCombined(n) == FibTest(n,
    << OP_IM("push_im", FIX(n)), OP_B("jsr_rel8__swap", 3), OP("halt"),
       (* fib *) OP_IM_B("cmpbr_keep_lt_im_rel8", FIX(2), 12),
       OP("dec__dup"), OP_B("jsr_rel8__swap", -5),
       OP("swap__dec"), OP_B("jsr_rel8__swap", -8), OP("add"), OP("ret_pop"),
       (* end *) OP("drop1"), OP_IM("ret_im", FIX(1)) >>)

FibRegisters(n) == FibTest(n,
    << OP_IM("load_im", FIX(n)), OP("nop"), OP("nop"), On("B", OP_IM("load_im", FAL)), OP("nop"),
       OP_B("jsr_rel8", 6), OP("push"), OP("nop"), OP("trace_off"), OP("halt"),
       (* fib *) OP_IM_B("cmpbr_A_lt_im_rel8", FIX(2), 14),
       OP("decA"), OP("push"), OP_B("jsr_rel8", -6),
       OP("swapA"), OP("decA"), OP_B("jsr_rel8", -10), OP("addA"), OP("ret"),
       (* end *) OP_IM("load_im", FIX(1)), OP("ret") >>)

FibBinaryRegisters(n) == FibTest(n,
    << On("N", OP_IM("loadw_im", n)), OP("trace_on"), OP("nop"), On("B", OP_IM("load_im", FAL)), OP("nop"),
       OP_B("jsr_rel8", 6), OP("push"), OP("nop"), OP("trace_off"), OP("halt"),
       (* fib *) OP_IM_B("cmpbr_N_lt_im_rel8", 2, 14),
       OP("decN"), On("N", OP("pushw")), OP_B("jsr_rel8", -6),
       OP("popN__pushA"), OP("decN"), OP_B("jsr_rel8", -10), OP("addA"), OP("ret"),
       (* end *) OP_IM("load_im", FIX(1)), OP("ret") >>)

FibFrames(n) == FibTest(n,
    << On("N", OP_IM("loadw_im", n)), OP("trace_on"), OP("nop"), On("B", OP_IM("load_im", FAL)), OP("nop"),
       OP_B("frame_jsr_rel8_1", 6), OP("push"), OP("nop"), OP("trace_off"), OP("halt"),
       (* fib *) OP_IM_B("cmpbr_N_lt_im_rel8", 2, 20),
       OP("decN"), On("N", OP_B("unsafe_stw_fix", 1)), OP_B("frame_jsr_rel8_1", -7),
       On("N", OP_B("unsafe_ldw_int", 1)), OP_B("unsafe_st", 1),
       OP("decN"), OP_B("frame_jsr_rel8_1", -14), OP_B("unsafe_addA_", 1), OP_B("unsafe_frame_ret", 2),
       (* end *) OP_IM("load_im", FIX(1)), OP_B("unsafe_frame_ret", 2) >>)

\* These the test saves, for lilyvm to run.
FibCompiled(n) == FibTest(n,
    <<OP_IM("push_im", FIX(n)), OP_B("jsr_rel8", 3), OP("halt"), OP("fib")>>)
FibCompiledRegister(n) == FibTest(n,
    <<OP_IM("push_im", FIX(n)), OP_B("jsr_rel8", 3), OP("halt"), OP("fib_with_registers")>>)

\* The test as a whole; small is 2 and large is 16.
VMTests(a, b, c, small, large) ==
    Basics(a, b, c) \o << FibNaive(small), FibNaive(large), FibCombined(small), FibRegisters(large),
                          FibBinaryRegisters(large), FibFrames(large) >>

-----------------------------------------------------------------------------
CurrentTest == Scripts[program[1]][program[2]]
LastTest == program[2] = Len(Scripts[program[1]])

TestInit == Init /\ program[2] = 1

\* The next program of the script, after vm_process_stack_clear or not
NextTest ==
    /\ ~ LastTest
    /\ LET next == <<program[1], program[2] + 1>>
       IN  Run(next, IF Scripts[next[1]][next[2]].clear THEN 0 ELSE proc.sp)

TestNext == Interpret \/ NextTest

\* Neither the interpreter nor the test waits for anything.
TestSpec == TestInit /\ [][TestNext]_vars /\ WF_vars(Interpret) /\ WF_vars(NextTest)

-----------------------------------------------------------------------------
\* Whenever a program halts, the stack of the process is what the test
\* expects, the whole of it: recursion leaves nothing behind, and programs
\* that are given the stack of the one before find it (the ASSERT_EQs).
TestsSucceed == status = "halt" =>
    [i \in 1..proc.sp |-> vals[i - 1]] = CurrentTest.stack

\* Every script is run to its end: each program halts, without an error, and
\* control never leaves its code.
TestsComplete == <>(status = "halt" /\ LastTest)
=============================================================================
