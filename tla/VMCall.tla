------------------------------- MODULE VMCall -------------------------------
(***************************************************************************)
(* A call of the compiled opcode fib_with_registers, from the instruction  *)
(* to the return: what it computes, what it leaves alone and how much of   *)
(* the stack it needs.  The two variables are history: they remember where *)
(* the call began and the arguments of the calls within it, and no step of *)
(* the interpreter depends on them.                                        *)
(***************************************************************************)
EXTENDS VMInv

CONSTANT Fib    \* the fibonacci numbers, on some of the integers

\* What the comment above the test's fibonacci programs defines.
ASSUME FibDefinition ==
    /\ DOMAIN Fib \subseteq Int
    /\ \A n \in DOMAIN Fib :
          /\ Fib[n] \in Int
          /\ n < 2 => Fib[n] = 1
          /\ n >= 2 => {n - 1, n - 2} \subseteq DOMAIN Fib /\ Fib[n] = Fib[n - 1] + Fib[n - 2]

VARIABLES
    call,       \* the machine when the opcode was executed last
    args        \* beside each return address, the argument of its call

callVars == <<vars, call, args>>

Entry == "fib_with_registers_entry"
Entered == label = "dispatch" /\ label' = Entry

CallInit ==
    /\ Init
    /\ call = [reg |-> reg, word |-> word, SP |-> SP, vals |-> vals]
    /\ args = [i \in Slots |-> 0]

CallNext ==
    /\ Next
    /\ call' = IF Entered THEN [reg |-> reg, word |-> word, SP |-> SP, vals |-> vals] ELSE call
    \* Wherever a call begins, its return address is on top and its argument in A.
    /\ args' = IF label' = Entry THEN [args EXCEPT ![SP' - 1] = reg'.A.n] ELSE args

CallSpec == CallInit /\ [][CallNext]_callVars

-----------------------------------------------------------------------------
\* The call's argument and the slot of its own return address within the opcode.
Argument == call.vals[call.SP - 2]
Base == call.SP - 1

IsFib(n, v) == n \in DOMAIN Fib => v = Fib[n]

\* Frame k of a call: that of the call for m - 1, with m - 1 below the return
\* address, or that of the call for m - 2, with the result for m - 1 there.
Frame(k) ==
    LET i == Base + 2 * k
        m == args[i - 2]
    IN  /\ 2 <= m /\ m < FixRange
        /\ args[i] <= Argument.n - k
        /\ \/ vals[i] = FIX(1) /\ args[i] = m - 1 /\ vals[i - 1] = FIX(m - 1)
           \/ vals[i] = FIX(2) /\ args[i] = m - 2 /\ IsFib(m - 1, vals[i - 1].n)

\* A is the argument of the innermost call, or its result.
ArgumentOrResult(d) ==
    LET m == args[Base + 2 * d]
    IN  IF label = Entry THEN reg.A = IF d = 0 THEN Argument ELSE FIX(m)
        ELSE IsInteger(Argument) /\ IsFib(m, reg.A.n)

\* B, C, D, M and NV and the stack of the caller, the return address included,
\* which has taken the place of the argument.
CallerKept ==
    /\ \A r \in Regs \ {"A"} : reg[r] = call.reg[r]
    /\ \A w \in WordRegs \ {"N"} : word[w] = call.word[w]
    /\ \A i \in Slots : i < Base - 1 => vals[i] = call.vals[i]
    /\ vals[Base - 1] = call.vals[Base]

\* The invariant of a call.
Calling(d) ==
    /\ call.SP \in 2..stacklen
    /\ InCall(Base, d)
    /\ args[Base] = Argument.n
    /\ d > 0 => IsInteger(Argument)
    /\ \A k \in 1..d : Frame(k)
    /\ ArgumentOrResult(d)
    /\ CallerKept

CallInv ==
    /\ args \in [Slots -> Int] /\ call.reg \in [Regs -> Value]
    /\ label # "dispatch" => \E d \in 0..stacklen : Calling(d)

\* A call that does not return has been given no integer or a bignum of 2 or
\* more, or there are less than 2 (n - 1) free slots for its frames: the checks
\* of PUSH in the recursion fail in no other case.
EnoughStack ==
    status = "error" /\ label # "dispatch" =>
        \/ ~ IsInteger(Argument)
        \/ Argument.n >= 2 /\ (is_fixnum(Argument) => call.SP + 2 * (Argument.n - 1) > stacklen)

\* The result v is on the stack in place of the argument and the return
\* address, and in A; all else is as it was, whatever collections there have
\* been.
Returned(v) ==
    /\ IsInteger(Argument) /\ (Argument.n \in DOMAIN Fib => v = ToScm(Fib[Argument.n]))
    /\ reg = [call.reg EXCEPT !.A = v]
    /\ \A w \in WordRegs \ {"N"} : word[w] = call.word[w]
    /\ Stack = [i \in 1..(call.SP - 1) |-> IF i = call.SP - 1 THEN v ELSE call.vals[i - 1]]
    /\ pc = call.vals[call.SP - 1].n

\* A call that returns has computed the fibonacci number of its argument and
\* goes on behind the instruction that called it (the recursion between the
\* labels of fib_with_registers, its change of calling conventions, and what
\* SCM_ADD stores and restores).
CallReturnsFib ==
    [][label # "dispatch" /\ label' = "dispatch" => Returned(reg.A)']_callVars
=============================================================================
