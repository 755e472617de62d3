----------------------------- MODULE MC_VMTest ------------------------------
(***************************************************************************)
(* Constants for the runs of VMTest: the test of vmtest.c with smaller     *)
(* numbers, each fibonacci program alone and in a stack that others have   *)
(* used, and programs for the opcodes that the test leaves out.            *)
(***************************************************************************)
EXTENDS VMTest

\* With fixnums from -8 to 7, b + 1 = 8, and fib(5) and above are bignums.
Small == 2
Large == 7
Whole == VMTests(3, 7, -8, Small, Large)
InFixnums == VMTests(3, 2, -8, Small, Large)

\* The compiled opcodes come first: they find no bignum in a register.
Fibs(n) == << FibCompiled(n), FibCompiledRegister(n), FibNaive(n), FibCombined(n), FibRegisters(n),
              FibBinaryRegisters(n), FibFrames(n) >>

\* The opcodes that no fibonacci program has: M = 3 + 4, N = 5, and a frame of two slots.
Tour == Test(TRUE,
    << OP_IM("push_im", FIX(6)), OP_IM("push_im", FIX(3)), OP("unsafe_bitwise_and"),
       OP_IM("push_im", FIX(1)), OP("unsafe_bitwise_or"), OP("addM"),
       On("N", OP_IM("loadw_im", 4)), On("N", OP("pushw")), OP("addM"),
       OP_IM("push_im", FIX(5)), OP("swapN"), OP("drop1"),
       On("NV", [OP_B("ldNV_im", 0) EXCEPT !.im = 1]), OP_B("frame_jsr_rel8_2", 6),
       On("N", OP("pushw")), On("M", OP("pushw")), OP("add"), OP("halt"),
       OP_REL16("jmp_rel16", 4), OP("nop"), OP_B("unsafe_frame_ret", 3) >>, <<ToScm(12)>>)

\* A counts the branches that are not taken for n.
NotTaken(n) == CASE n = 0 -> 3 [] n \in {1, 3} -> 5 [] OTHER -> 6
Branching(n) == Test(TRUE,
    << OP_IM("push_im", FIX(n)), OP_IM("load_im", FIX(0)),
       OP_REL16("bneg_keep_rel16", 4), OP("incA"), OP_REL16("bneg0_keep_rel16", 4), OP("incA"),
       OP_REL16("bpos_keep_rel16", 4), OP("incA"), OP_REL16("bz_keep_rel16", 4), OP("incA"),
       OP_IM_B("cmpbr_keep_lt_im_rel8", FIX(2), 5), OP("incA"),
       OP("dup"), OP_REL16("bz_rel16", 4), OP("incA"),
       OP("dup"), OP_IM_IM("beq_im_rel16", FIX(3), 6), OP("incA"),
       OP("drop1"), OP("push"), OP("halt") >>, <<ToScm(NotTaken(n))>>)

\* Bignums in the registers and on the stack: 8, 8 and -9, their sums -1, 7 and 15, 11 and 8.
Overflow == Test(TRUE,
    << OP_IM("push_im", FIX(6)), OP_B("inc_", 0), OP("inc"), OP("inc"),
       OP_IM("load_im", FIX(7)), OP("incA"), OP("TAB"), OP_IM("load_im", FIX(-8)), OP("decA"), OP("push"),
       OP_IM("load_im", FIX(7)), OP("incA"), OP("addA"), OP("push"), OP("add"), OP("TBA"), OP("addA"),
       OP_IM_B("cmpbr_A_lt_im_rel8", FIX(7), 5), OP("push"),
       OP_IM("add_im", FIX(-4)), OP_IM("add_im", FIX(-3)), OP("halt") >>, <<ToScm(8)>>)

MC_Scripts == <<
    Whole, InFixnums, <<Tour, Overflow>>,
    <<Branching(0), Branching(1), Branching(2), Branching(3), Branching(7)>>,
    Fibs(0), Fibs(1), Fibs(2), Fibs(3), Fibs(4), Fibs(5), Fibs(6), Fibs(7) >>

\* 8 in A, and fib(5) = 8 by the opcode that is compiled from it: their sum.
RegisterOverFib == Test(TRUE,
    << OP_IM("load_im", FIX(7)), OP("incA"), OP_IM("push_im", FIX(5)), OP_B("jsr_rel8", 5),
       OP("addA"), OP("push"), OP("halt"), OP("fib") >>, <<ToScm(16)>>)
MC_RegisterOverFib == << <<RegisterOverFib>> >>

MC_Code == TestCode
=============================================================================
