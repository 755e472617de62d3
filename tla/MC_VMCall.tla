------------------------------ MODULE MC_VMCall -----------------------------
(***************************************************************************)
(* Constants for the run of VMCall.  A bignum in B and on the stack, then  *)
(* a call for an argument that is a fixnum, that bignum or no integer; the *)
(* result is the argument of the next call, or the program halts.          *)
(***************************************************************************)
EXTENDS VMCall

I(op) == [op |-> op, r |-> "B", b1 |-> 0, b2 |-> 0, im |-> FIX(0), off |-> 0]

Calls == [a \in {0, 3, 4, 5, 6, 7, 9, 11, 13} |->
    CASE a = 0 -> {[I("push_im") EXCEPT !.im = FIX(7)]}
      [] a = 3 -> {I("inc")}
      [] a = 4 -> {I("pop")}
      [] a = 5 -> {I("push")}
      [] a = 6 -> {[I("push_im") EXCEPT !.im = v] : v \in {FAL} \cup {FIX(n) : n \in -1..7}}
                  \cup {I("push")}
      [] a = 7 -> {[I("jmp_rel8") EXCEPT !.off = 2]}
      [] a = 9 -> {[I("jsr_rel8") EXCEPT !.off = 4]}
      [] a = 11 -> {[I("jmp_rel8") EXCEPT !.off = -2], I("halt")}
      [] a = 13 -> {I("fib_with_registers")}]

MC_Calls == [p \in {"calls"} |-> Calls]

\* It is a program that the theorems of VMProofs are about.
ASSUME CallsAreSafe == SafeCode

MC_Fib[n \in -10..7] == IF n < 2 THEN 1 ELSE MC_Fib[n - 1] + MC_Fib[n - 2]
=============================================================================
