------------------------------- MODULE Lilyvm -------------------------------
(***************************************************************************)
(* The command line program: main of lilyvm.c, which reads its options and *)
(* then loads and runs the files it was given, by Bytecode.                *)
(*                                                                         *)
(* argv is without the name of the program, so that its indices are those  *)
(* of the code.                                                            *)
(***************************************************************************)
EXTENDS Bytecode, FiniteSets, TLC

CONSTANTS
    Argvs,      \* the command lines
    atoi        \* of the C library, for the arguments

ASSUME LilyvmConstants ==
    /\ \A args \in Argvs : args \in Seq(Paths)
    /\ atoi \in [Paths -> Int]
    \* What printf has written for a number atoi reads as that number.
    /\ \A n \in Uint16 : ToString(n) \in Paths => atoi[ToString(n)] = n

VARIABLES argv, i, stop_parsing, paths, stacklen, heaplen,
          pc,       \* "parse", "run", "call", "exited"
          status    \* of the exit

options == <<stop_parsing, paths, stacklen, heaplen>>
main == <<argv, i, options, pc, status>>

default_stacklen == 256
default_heaplen == 1024
ToUint16(n) == n % 65536

\* Fault: no comparison
ParseUint16Unchecked(str) == atoi[str] >= 0
\* parse_uint16: the number must be what it is printed as.
ParseUint16(str) == atoi[str] >= 0 /\ ToString(ToUint16(atoi[str])) = str

-----------------------------------------------------------------------------
exit(n) ==
    /\ pc' = "exited" /\ status' = n
    /\ UNCHANGED <<argv, i, options, vars>>

\* The message differs.
help == exit(1)

NoArguments == pc = "parse" /\ argv = <<>> /\ help

Argument == pc = "parse" /\ i <= Len(argv)
HelpOption == Argument /\ ~ stop_parsing /\ argv[i] = "--help" /\ help

\* perhaps_parseopt_uint16
OptionWithoutValue(optstrs) ==
    /\ Argument /\ ~ stop_parsing /\ argv[i] \in optstrs
    /\ (i + 1 <= Len(argv) => ~ ParseUint16(argv[i + 1]))
    /\ help
\* Fault: the loop goes on with the value.
OptionValueReadAgain(optstrs) ==
    /\ Argument /\ ~ stop_parsing /\ argv[i] \in optstrs
    /\ i + 1 <= Len(argv) /\ ParseUint16(argv[i + 1])
    /\ i' = i + 1
    /\ UNCHANGED <<vars, argv, stop_parsing, paths, pc, status>>
\* Fault: the loop continues without having moved on.
OptionValueStays(optstrs) ==
    /\ Argument /\ ~ stop_parsing /\ argv[i] \in optstrs
    /\ i + 1 <= Len(argv) /\ ParseUint16(argv[i + 1])
    /\ UNCHANGED <<vars, argv, i, stop_parsing, paths, pc, status>>
OptionValue(optstrs) ==
    /\ Argument /\ ~ stop_parsing /\ argv[i] \in optstrs
    /\ i + 1 <= Len(argv) /\ ParseUint16(argv[i + 1])
    /\ i' = i + 2
    /\ UNCHANGED <<vars, argv, stop_parsing, paths, pc, status>>

StackOpt == {"-s", "--stack"}
HeapOpt == {"-h", "--heap"}
StackOption ==
    /\ OptionValue(StackOpt)
    /\ stacklen' = ToUint16(atoi[argv[i + 1]]) /\ UNCHANGED heaplen
HeapOption ==
    /\ OptionValue(HeapOpt)
    /\ heaplen' = ToUint16(atoi[argv[i + 1]]) /\ UNCHANGED stacklen

StopParsing ==
    /\ Argument /\ ~ stop_parsing /\ argv[i] = "--"
    /\ stop_parsing' = TRUE /\ i' = i + 1
    /\ UNCHANGED <<vars, argv, paths, stacklen, heaplen, pc, status>>

Path ==
    /\ Argument /\ (stop_parsing \/ argv[i] \notin StackOpt \cup HeapOpt \cup {"--help", "--"})
    /\ paths' = Append(paths, argv[i]) /\ i' = i + 1
    /\ UNCHANGED <<vars, argv, stop_parsing, stacklen, heaplen, pc, status>>

\* The second loop, whose i counts the paths from 0
Parsed ==
    /\ pc = "parse" /\ argv # <<>> /\ i > Len(argv)
    /\ pc' = "run" /\ i' = 0
    /\ UNCHANGED <<vars, argv, options, status>>
RunPath ==
    /\ pc = "run" /\ i < Len(paths)
    /\ Load(paths[i + 1], stacklen, heaplen)
    /\ pc' = "call"
    /\ UNCHANGED <<argv, i, options, status>>
PathHasRun ==
    /\ pc = "call" /\ loader.pc = "returned" /\ loader.result
    /\ pc' = "run" /\ i' = i + 1
    /\ UNCHANGED <<vars, argv, options, status>>
PathFailed == pc = "call" /\ loader.pc = "returned" /\ ~ loader.result /\ exit(1)
AllRun == pc = "run" /\ i = Len(paths) /\ exit(0)

LoaderStep == LoadAndRun /\ UNCHANGED main

Main ==
    \/ NoArguments \/ HelpOption \/ OptionWithoutValue(StackOpt \cup HeapOpt)
    \/ StackOption \/ HeapOption \/ StopParsing \/ Path \/ Parsed
    \/ RunPath \/ LoaderStep \/ PathHasRun \/ PathFailed \/ AllRun

LilyvmInit ==
    /\ Init
    /\ argv \in Argvs /\ i = 1 /\ stop_parsing = FALSE /\ paths = <<>>
    /\ stacklen = default_stacklen /\ heaplen = default_heaplen
    /\ pc = "parse" /\ status = 0

LilyvmNext == Main \/ (Save /\ UNCHANGED main)

\* lilyvm waits for nothing but the interpreter, and the programs end.
LilyvmSpec == LilyvmInit /\ [][LilyvmNext]_<<vars, main>> /\ WF_<<vars, main>>(Main)

-----------------------------------------------------------------------------
(***************************************************************************)
(* What a command line means: the role of each argument, independent of    *)
(* the order in which the program finds out.                               *)
(***************************************************************************)
Numerals == {ToString(n) : n \in Uint16}
ValueOf(str) == CHOOSE n \in Uint16 : ToString(n) = str

Roles(args) ==
    LET role[k \in 1..Len(args)] ==
            IF k > 1 /\ role[k - 1] \in {"stack", "heap"} THEN "value"
            ELSE IF \E j \in 1..(k - 1) : role[j] = "stop" THEN "path"
            ELSE CASE args[k] \in StackOpt -> "stack"
                   [] args[k] \in HeapOpt -> "heap"
                   [] args[k] = "--" -> "stop"
                   [] args[k] = "--help" -> "help"
                   [] OTHER -> "path"
    IN  role

AsksForHelp(args) ==
    LET role == Roles(args)
    IN  \/ args = <<>>
        \/ \E k \in 1..Len(args) :
              \/ role[k] = "help"
              \/ role[k] \in {"stack", "heap"} /\ (k = Len(args) \/ args[k + 1] \notin Numerals)

\* The last one counts.
Size(args, option, default) ==
    LET at == {k \in 1..Len(args) : Roles(args)[k] = option}
    IN  IF at = {} THEN default
        ELSE ValueOf(args[1 + CHOOSE k \in at : \A j \in at : j <= k])

PathsOf(args) == LET role == Roles(args) IN
    [n \in 1..Cardinality({k \in 1..Len(args) : role[k] = "path"}) |->
        args[CHOOSE k \in 1..Len(args) : role[k] = "path" /\ Cardinality({j \in 1..k : role[j] = "path"}) = n]]

IsPrefixOf(s, t) == Len(s) <= Len(t) /\ \A k \in 1..Len(s) : s[k] = t[k]

\* A command line that is in order, with its options anywhere, makes each file
\* run in the order given, in a process of the sizes asked for; any other one
\* runs nothing at all; and lilyvm exits with 0 only after the last file has
\* been run (the usage text, lilyvm.c:24-32).
AsAsked ==
    LET run == Len(printed.malloc_process)
    IN  IF AsksForHelp(argv) THEN printed.loading = <<>> /\ (pc = "exited" => status = 1)
        ELSE /\ IsPrefixOf(printed.loading, PathsOf(argv))
             /\ run \in {Len(printed.loading), Len(printed.loading) - 1}
             /\ \A k \in 1..run : printed.malloc_process[k] =
                   <<Size(argv, "stack", default_stacklen), Size(argv, "heap", default_heaplen)>>
             /\ pc = "exited" => (status = 0 <=> printed.stacks = Len(PathsOf(argv)))

\* lilyvm ends, whatever fails and whatever vmtest does at the same time.
Ended == pc = "exited" \/ loader.pc \in {"DIE", "undefined"}
Terminates == <>Ended
=============================================================================
