-------------------------- MODULE IntegerRegisters --------------------------
(***************************************************************************)
(* What the arithmetic of lilyvm promises: registers that hold mathematical *)
(* integers, without words, digits or a difference between fixnums and     *)
(* bignums.  The sum of two registers is their sum.                        *)
(***************************************************************************)
EXTENDS Integers

CONSTANTS Regs, Results, Ints

VARIABLE num

Init == num = [r \in Regs |-> 0]

Load(r, n) == num' = [num EXCEPT ![r] = n]
Change(r, d) == num' = [num EXCEPT ![r] = num[r] + d]
Add(r, s, t) == num' = [num EXCEPT ![t] = num[r] + num[s]]

Next == \/ \E r \in Regs, n \in Ints : Load(r, n)
        \/ \E r \in Results, d \in {-1, 1} : Change(r, d)
        \/ \E r, s \in Regs, t \in Results : Add(r, s, t)

Spec == Init /\ [][Next]_num
=============================================================================
