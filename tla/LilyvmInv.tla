----------------------------- MODULE LilyvmInv -----------------------------
(***************************************************************************)
(* The inductive invariant of Lilyvm: how far the option loop and the loop *)
(* over the files have got, in terms of what the command line means.       *)
(* LilyvmProofs proves that it is inductive and that it implies AsAsked.   *)
(***************************************************************************)
EXTENDS Lilyvm

\* What the first m arguments say: Size and PathsOf of Lilyvm, but only of them
SizeUpTo(args, option, default, m) ==
    LET at == {k \in 1..m : Roles(args)[k] = option}
    IN  IF at = {} THEN default
        ELSE ValueOf(args[1 + CHOOSE k \in at : \A j \in at : j <= k])

PathsUpTo(args, m) == LET role == Roles(args) IN
    [n \in 1..Cardinality({k \in 1..m : role[k] = "path"}) |->
        args[CHOOSE k \in 1..Len(args) : role[k] = "path" /\ Cardinality({j \in 1..k : role[j] = "path"}) = n]]

\* The first m arguments are in order, and no value is missing after them.
InOrder(args, m) ==
    LET role == Roles(args)
    IN  \A k \in 1..m : /\ role[k] # "help"
                        /\ role[k] \in {"stack", "heap"} => k < m /\ args[k + 1] \in Numerals

\* What precedes i has been understood.
ParseOK ==
    pc = "parse" =>
        /\ i \in 1..(Len(argv) + 1)
        /\ InOrder(argv, i - 1)
        /\ stop_parsing <=> \E k \in 1..(i - 1) : Roles(argv)[k] = "stop"
        /\ paths = PathsUpTo(argv, i - 1)
        /\ stacklen = SizeUpTo(argv, "stack", default_stacklen, i - 1)
        /\ heaplen = SizeUpTo(argv, "heap", default_heaplen, i - 1)
        /\ loader.pc = "idle"
        /\ printed.loading = <<>> /\ printed.malloc_process = <<>> /\ printed.stacks = 0

\* Everything has been understood.
Understood ==
    /\ ~ AsksForHelp(argv)
    /\ paths = PathsOf(argv)
    /\ stacklen = Size(argv, "stack", default_stacklen)
    /\ heaplen = Size(argv, "heap", default_heaplen)

\* n files have been named, m of them have a process, and k have halted.
Progress(n, m, k) ==
    /\ Len(printed.loading) = n /\ n <= Len(paths)
    /\ \A j \in 1..n : printed.loading[j] = paths[j]
    /\ Len(printed.malloc_process) = m
    /\ \A j \in 1..m : printed.malloc_process[j] = <<stacklen, heaplen>>
    /\ printed.stacks = k

Unmapped == {"open", "fstat", "mmap", "malloc"}
AfterMalloc == {"malloc_stack", "run", "DIE", "undefined"}

\* i files have been run.
RunOK ==
    /\ pc \in {"run", "call"} => Understood /\ i \in Nat
    /\ pc = "run" => loader.pc \in {"idle", "returned"} /\ Progress(i, i, i)
    /\ pc = "call" =>
          /\ loader.stacklen = stacklen /\ loader.heaplen = heaplen
          /\ \/ loader.pc \in Unmapped /\ Progress(i + 1, i, i)
             \/ loader.pc \in AfterMalloc /\ Progress(i + 1, i + 1, i)
             \/ loader.pc = "free" /\ Progress(i + 1, i + 1, i + 1)
             \/ loader.pc = "returned" /\ loader.result /\ Progress(i + 1, i + 1, i + 1)
             \/ loader.pc = "returned" /\ ~ loader.result /\ Progress(i + 1, i, i)

ExitOK == pc = "exited" => AsAsked /\ loader.pc \in {"idle", "returned"}

\* At every step of main what has been read has its meaning, and what has been
\* run is what it asked for, in the sizes it asked for.
MainInv == ParseOK /\ RunOK /\ ExitOK
=============================================================================
