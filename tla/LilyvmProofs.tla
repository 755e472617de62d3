---------------------------- MODULE LilyvmProofs ----------------------------
(***************************************************************************)
(* Proofs that the command line program uses bytecode files as Bytecode    *)
(* says, so that what is proved of Bytecode holds of it, and that it runs  *)
(* what its command line asks for, whatever its arguments.                 *)
(***************************************************************************)
EXTENDS LilyvmInv, BytecodeProofs, Induction

\* The variables of main have their types.
MainOK ==
    /\ argv \in Seq(Paths) /\ paths \in Seq(Paths)
    /\ i \in Nat /\ (pc = "parse" => i >= 1)
    /\ stacklen \in Uint16 /\ heaplen \in Uint16
    /\ pc \in {"parse", "run", "call", "exited"}

\* 0..65535 is never expanded after this.
LEMMA WidthFacts == \A n : n \in Uint16 <=> n \in Int /\ 0 <= n /\ n <= 65535
<1>1. PICK max \in Nat : max = 65535
  OBVIOUS
<1> DEFINE UpTo(m) == 0..m
<1>2. Uint16 = UpTo(65535) /\ UpTo(max) = 0..max
  <2>1. Uint16 = UpTo(65535)
    BY DEF Uint16
  <2>2. UpTo(max) = 0..max
    OBVIOUS
  <2> HIDE DEF UpTo
  <2> QED BY <2>1, <2>2
<1> HIDE DEF UpTo
<1>3. UpTo(max) = UpTo(65535)
  BY <1>1
<1>4. Uint16 = 0..max
  BY <1>2, <1>3
<1>5. \A n : n \in Uint16 <=> n \in Int /\ 0 <= n /\ n <= max
  BY ONLY <1>4, max \in Nat
<1> QED BY <1>1, <1>5

\* Whatever atoi returns is cut to 16 bits, and what has 16 bits stays as it is.
LEMMA CutToWidth ==
    /\ \A n \in Int : ToUint16(n) \in Uint16
    /\ \A n \in Uint16 : n \in Nat /\ ToUint16(n) = n
    /\ default_stacklen \in Uint16 /\ default_heaplen \in Uint16
  BY WidthFacts DEF ToUint16, default_stacklen, default_heaplen

LEMMA MainInitially == LilyvmInit => Init /\ MainOK
<1> SUFFICES ASSUME LilyvmInit PROVE Init /\ MainOK
  OBVIOUS
<1>1. default_stacklen \in Uint16 /\ default_heaplen \in Uint16
  BY CutToWidth
<1> QED BY <1>1, LilyvmConstants DEF LilyvmInit, MainOK

\* A size that was given is cut to 16 bits.
LEMMA OptionStep ==
    ASSUME MainOK, StackOption \/ HeapOption
    PROVE  MainOK' /\ UNCHANGED vars
<1>1. /\ Argument /\ i + 1 <= Len(argv) /\ i' = i + 2
      /\ UNCHANGED <<vars, argv, paths, pc>>
      /\ \/ stacklen' = ToUint16(atoi[argv[i + 1]]) /\ UNCHANGED heaplen
         \/ heaplen' = ToUint16(atoi[argv[i + 1]]) /\ UNCHANGED stacklen
  BY DEF StackOption, HeapOption, OptionValue
<1>2. i \in Nat /\ i >= 1 /\ pc = "parse" /\ argv \in Seq(Paths)
  BY <1>1 DEF MainOK, Argument
<1>3. argv[i + 1] \in Paths
  BY <1>1, <1>2
<1>4. atoi[argv[i + 1]] \in Int
  BY <1>3, LilyvmConstants
<1>5. ToUint16(atoi[argv[i + 1]]) \in Uint16
  BY <1>4, CutToWidth
<1>6. stacklen' \in Uint16 /\ heaplen' \in Uint16
  BY <1>1, <1>5 DEF MainOK
<1>7. i' \in Nat /\ i' >= 1 /\ UNCHANGED <<argv, paths, pc>>
  BY <1>1, <1>2
<1> QED BY <1>1, <1>6, <1>7 DEF MainOK

\* Every step of main is a step of its loader or none, and keeps the types.
LEMMA MainStep ==
    ASSUME MainOK, LilyvmNext
    PROVE  MainOK' /\ [Next]_vars
<1>1. CASE Save /\ UNCHANGED main
  BY <1>1 DEF main, options, MainOK, Next
<1>2. CASE LoaderStep
  BY <1>2 DEF LoaderStep, main, options, MainOK, Next
<1>3. CASE NoArguments \/ HelpOption \/ OptionWithoutValue(StackOpt \cup HeapOpt)
           \/ PathFailed \/ AllRun
  <2>1. UNCHANGED <<argv, i, options, vars>> /\ pc' = "exited"
    BY <1>3 DEF NoArguments, HelpOption, OptionWithoutValue, PathFailed, AllRun, help, exit
  <2> QED BY <2>1 DEF MainOK, options
<1>4. CASE StackOption \/ HeapOption
  BY <1>4, OptionStep
<1>5. CASE StopParsing
  BY <1>5 DEF StopParsing, MainOK
<1>6. CASE Path
  <2>1. /\ Argument /\ paths' = Append(paths, argv[i]) /\ i' = i + 1
        /\ UNCHANGED <<vars, argv, stop_parsing, stacklen, heaplen, pc, status>>
    BY <1>6 DEF Path
  <2>2. argv[i] \in Paths /\ i \in Nat /\ i >= 1
    BY <2>1 DEF MainOK, Argument
  <2>3. paths' \in Seq(Paths)
    BY <2>1, <2>2 DEF MainOK
  <2> QED BY <2>1, <2>2, <2>3 DEF MainOK
<1>7. CASE Parsed
  BY <1>7 DEF Parsed, options, MainOK
<1>8. CASE RunPath
  <2>1. /\ pc = "run" /\ i < Len(paths) /\ Load(paths[i + 1], stacklen, heaplen)
        /\ pc' = "call" /\ UNCHANGED <<argv, i, options>>
    BY <1>8 DEF RunPath
  <2>2. paths[i + 1] \in Paths
    BY <2>1 DEF MainOK
  <2>3. Next
    BY <2>1, <2>2 DEF Next, MainOK
  <2> QED BY <2>1, <2>3 DEF MainOK, options
<1>9. CASE PathHasRun
  BY <1>9 DEF PathHasRun, options, MainOK
<1> QED BY <1>1, <1>2, <1>3, <1>4, <1>5, <1>6, <1>7, <1>8, <1>9 DEF LilyvmNext, Main

\* lilyvm is a client of bytecode_load_and_run that calls it with a file of
\* the command line and sizes of 16 bits, once a call has returned.
THEOREM LilyvmIsAClient == LilyvmSpec => Spec
<1>1. MainOK /\ UNCHANGED <<vars, main>> => MainOK'
  BY DEF main, options, MainOK
<1>2. MainOK /\ [LilyvmNext]_<<vars, main>> => MainOK' /\ [Next]_vars
  BY <1>1, MainStep
<1> QED BY MainInitially, <1>2, PTL DEF LilyvmSpec, Spec

\* So lilyvm reads no byte beyond a file, loses no descriptor but those of the
\* files it has run, and never meets a program that a save has taken away.
THEOREM LilyvmFilesSafe == LilyvmSpec => [](MappingBacked /\ Released) /\ Durable
  BY LilyvmIsAClient, MappingsStayBacked, AllReleased, SavedStaysSaved, PTL

-----------------------------------------------------------------------------
(***************************************************************************)
(* The roles of the arguments: that there is a function as Roles describes *)
(* it, and how what the first arguments say grows with each of them.       *)
(***************************************************************************)
RoleNames == {"value", "path", "stack", "heap", "stop", "help"}

\* The role of an argument that is neither a value nor after a "--"
RoleOf(arg) ==
    CASE arg \in StackOpt -> "stack"
      [] arg \in HeapOpt -> "heap"
      [] arg = "--" -> "stop"
      [] arg = "--help" -> "help"
      [] OTHER -> "path"

RoleAt(role, args, k) ==
    IF k > 1 /\ role[k - 1] \in {"stack", "heap"} THEN "value"
    ELSE IF \E j \in 1..(k - 1) : role[j] = "stop" THEN "path"
    ELSE RoleOf(args[k])

IsRoles(role, args) == role = [k \in 1..Len(args) |-> RoleAt(role, args, k)]

LEMMA RoleOfNamed == \A arg : RoleOf(arg) \in RoleNames \ {"value"}
  BY DEF RoleOf, RoleNames, StackOpt, HeapOpt

\* Each role follows from the one before and from whether there was a "--".
LEMMA RolesExist ==
    ASSUME NEW args \in Seq(Paths)
    PROVE  \E role : IsRoles(role, args)
<1> DEFINE S == (RoleNames \cup {"none"}) \X {0, 1}
           Next1(arg, x) == IF x[1] \in {"stack", "heap"} THEN "value"
                            ELSE IF x[2] = 1 THEN "path" ELSE RoleOf(arg)
           After(arg, x) == <<Next1(arg, x), IF x[2] = 1 \/ Next1(arg, x) = "stop" THEN 1 ELSE 0>>
           c == <<"none", 0>>
           step == [z \in Nat \X S |-> After(args[z[1] + 1], z[2])]
<1>1. c \in S
  OBVIOUS
<1>2. ASSUME NEW arg, NEW x \in S PROVE Next1(arg, x) \in RoleNames /\ After(arg, x) \in S
  BY RoleOfNamed DEF RoleNames
<1>3. \A n \in Nat, x \in S : step[<<n, x>>] = After(args[n + 1], x) /\ step[<<n, x>>] \in S
  <2> SUFFICES ASSUME NEW n \in Nat, NEW x \in S
               PROVE  step[<<n, x>>] = After(args[n + 1], x) /\ step[<<n, x>>] \in S
    OBVIOUS
  <2> HIDE DEF S, After
  <2>1. step[<<n, x>>] = After(args[n + 1], x)
    OBVIOUS
  <2> QED BY <1>2, <2>1
<1>4. PICK f : IsRecursion(f, S, c, step)
  <2> HIDE DEF S, step, c
  <2> QED BY <1>1, <1>3, NatRecursion
<1>5. /\ f \in [Nat -> S] /\ f[0] = c
      /\ \A n \in Nat : f[n + 1] = After(args[n + 1], f[n])
  <2>1. f \in [Nat -> S] /\ f[0] = c /\ \A n \in Nat : f[n + 1] = step[<<n, f[n]>>]
    BY <1>4 DEF IsRecursion
  <2>2. \A n \in Nat : f[n] \in S
    BY ONLY <2>1
  <2> HIDE DEF S, step, c, After
  <2> QED BY <1>3, <2>1, <2>2
<1> HIDE DEF step
<1> DEFINE role == [k \in 1..Len(args) |-> f[k][1]]
           Stops == {n \in Nat : f[n][2] = 1 <=> \E j \in 1..n : f[j][1] = "stop"}
<1>6. Nat \subseteq Stops
  <2>1. 0 \in Stops
    BY <1>5
  <2>2. ASSUME NEW n \in Nat, n \in Stops PROVE n + 1 \in Stops
    <3>1. f[n + 1] = After(args[n + 1], f[n])
      BY <1>5
    <3>2. f[n + 1][2] = 1 <=> f[n][2] = 1 \/ f[n + 1][1] = "stop"
      <4>1. PICK arg, x : arg = args[n + 1] /\ x = f[n]
        OBVIOUS
      <4> QED BY <3>1, <4>1
    <3>3. 1..(n + 1) = (1..n) \cup {n + 1}
      OBVIOUS
    <3> HIDE DEF After
    <3> QED BY <2>2, <3>2, <3>3
  <2> HIDE DEF Stops
  <2> QED BY <2>1, <2>2, NatSetInduction
<1>7. ASSUME NEW k \in 1..Len(args) PROVE role[k] = RoleAt(role, args, k)
  <2>1. k - 1 \in Nat /\ (k - 1) + 1 = k /\ Len(args) \in Nat
    OBVIOUS
  <2>2. f[k] = After(args[k], f[k - 1])
    BY <1>5, <2>1
  <2>3. f[k][1] = Next1(args[k], f[k - 1])
    <3>1. PICK arg, x : arg = args[k] /\ x = f[k - 1]
      OBVIOUS
    <3> QED BY <2>2, <3>1
  <2>4. f[k - 1][1] \in {"stack", "heap"} <=> k > 1 /\ role[k - 1] \in {"stack", "heap"}
    <3>1. CASE k = 1
      BY <1>5, <3>1
    <3>2. CASE k > 1
      <4>1. k - 1 \in 1..Len(args)
        BY <2>1, <3>2
      <4> QED BY <3>2, <4>1
    <3> QED BY <3>1, <3>2
  <2>5. f[k - 1][2] = 1 <=> \E j \in 1..(k - 1) : role[j] = "stop"
    <3>1. k - 1 \in Stops
      BY <1>6, <2>1
    <3>2. \A j \in 1..(k - 1) : j \in 1..Len(args)
      BY <2>1
    <3> QED BY <3>1, <3>2
  <2>6. role[k] = f[k][1]
    OBVIOUS
  <2> HIDE DEF role
  <2> QED BY <2>3, <2>4, <2>5, <2>6 DEF RoleAt
<1>8. role = [k \in 1..Len(args) |-> RoleAt(role, args, k)]
  <2> HIDE DEF role
  <2>1. DOMAIN role = 1..Len(args) /\ role = [k \in 1..Len(args) |-> role[k]]
    BY DEF role
  <2> QED BY <1>7, <2>1
<1> QED BY <1>8 DEF IsRoles

LEMMA RolesFacts ==
    ASSUME NEW args \in Seq(Paths)
    PROVE  /\ DOMAIN Roles(args) = 1..Len(args)
           /\ \A k \in 1..Len(args) : /\ Roles(args)[k] = RoleAt(Roles(args), args, k)
                                      /\ Roles(args)[k] \in RoleNames
<1>1. Roles(args) = CHOOSE role : IsRoles(role, args)
  BY DEF Roles, IsRoles, RoleAt, RoleOf
<1>2. IsRoles(Roles(args), args)
  BY <1>1, RolesExist
<1>3. PICK role : role = Roles(args)
  OBVIOUS
<1>4. DOMAIN role = 1..Len(args) /\ \A k \in 1..Len(args) : role[k] = RoleAt(role, args, k)
  BY <1>2, <1>3 DEF IsRoles
<1>5. \A k : RoleAt(role, args, k) \in RoleNames
  BY RoleOfNamed DEF RoleAt, RoleNames
<1> QED BY <1>3, <1>4, <1>5

PathCount(args, m) == Cardinality({k \in 1..m : Roles(args)[k] = "path"})

\* How many of the first m arguments are paths
LEMMA CountGrows ==
    ASSUME NEW args, NEW m \in Nat
    PROVE  /\ PathCount(args, m) \in Nat
           /\ m = 0 => PathCount(args, m) = 0
           /\ PathCount(args, m + 1) =
                PathCount(args, m) + (IF Roles(args)[m + 1] = "path" THEN 1 ELSE 0)
<1> DEFINE A == {k \in 1..m : Roles(args)[k] = "path"}
           B == {k \in 1..(m + 1) : Roles(args)[k] = "path"}
<1>1. IsFiniteSet(A) /\ Cardinality(A) \in Nat
  <2>1. IsFiniteSet(1..m)
    BY FS_Interval
  <2> QED BY <2>1, FS_Subset, FS_CardinalityType
<1>2. m = 0 => Cardinality(A) = 0
  <2>1. m = 0 => A = {}
    OBVIOUS
  <2> QED BY <2>1, FS_EmptySet
<1>3. m + 1 \notin A /\ B = IF Roles(args)[m + 1] = "path" THEN A \cup {m + 1} ELSE A
  OBVIOUS
<1>4. PathCount(args, m) = Cardinality(A) /\ PathCount(args, m + 1) = Cardinality(B)
  BY DEF PathCount
<1> HIDE DEF A, B
<1>5. Cardinality(A \cup {m + 1}) = Cardinality(A) + 1
  BY <1>1, <1>3, FS_AddElement
<1> QED BY <1>1, <1>2, <1>3, <1>4, <1>5

\* No two paths have the same number.
LEMMA CountMonotone ==
    ASSUME NEW args, NEW j \in Nat, NEW k \in Nat, j < k
    PROVE  /\ PathCount(args, j) <= PathCount(args, k)
           /\ Roles(args)[k] = "path" => PathCount(args, j) < PathCount(args, k)
<1> DEFINE N == {n \in Nat : j <= n => PathCount(args, j) <= PathCount(args, n)}
<1>1. 0 \in N
  BY CountGrows
<1>2. ASSUME NEW n \in Nat, n \in N PROVE n + 1 \in N
  <2>1. CASE j = n + 1
    BY <2>1, CountGrows
  <2>2. CASE j # n + 1
    <3>1. /\ PathCount(args, j) \in Nat /\ PathCount(args, n) \in Nat
          /\ \/ PathCount(args, n + 1) = PathCount(args, n)
             \/ PathCount(args, n + 1) = PathCount(args, n) + 1
      BY CountGrows
    <3> QED BY <1>2, <2>2, <3>1
  <2> QED BY <2>1, <2>2
<1>3. Nat \subseteq N
  <2> HIDE DEF N
  <2> QED BY <1>1, <1>2, NatSetInduction
<1>4. k - 1 \in N /\ k \in N /\ k - 1 \in Nat /\ (k - 1) + 1 = k
  BY <1>3
<1>5. Roles(args)[k] = "path" => PathCount(args, k) = PathCount(args, k - 1) + 1
  BY <1>4, CountGrows
<1>6. PathCount(args, j) \in Nat /\ PathCount(args, k) \in Nat /\ PathCount(args, k - 1) \in Nat
  BY <1>4, CountGrows
<1> QED BY <1>4, <1>5, <1>6

\* A path is added to the paths, another argument changes nothing.
LEMMA PathsGrow ==
    ASSUME NEW args \in Seq(Paths), NEW m \in Nat, m < Len(args)
    PROVE  /\ Roles(args)[m + 1] = "path" =>
                PathsUpTo(args, m + 1) = Append(PathsUpTo(args, m), args[m + 1])
           /\ Roles(args)[m + 1] # "path" => PathsUpTo(args, m + 1) = PathsUpTo(args, m)
<1> DEFINE At(n) == CHOOSE k \in 1..Len(args) : Roles(args)[k] = "path" /\ PathCount(args, k) = n
<1>1. ASSUME NEW x PROVE PathsUpTo(args, x) = [n \in 1..PathCount(args, x) |-> args[At(n)]]
  BY DEF PathsUpTo, PathCount
<1>3. Len(args) \in Nat /\ m + 1 \in 1..Len(args)
  OBVIOUS
<1>4. Roles(args)[m + 1] = "path" => At(PathCount(args, m + 1)) = m + 1
  <2> SUFFICES ASSUME Roles(args)[m + 1] = "path" PROVE At(PathCount(args, m + 1)) = m + 1
    OBVIOUS
  <2>1. ASSUME NEW k \in 1..Len(args), Roles(args)[k] = "path",
               PathCount(args, k) = PathCount(args, m + 1)
        PROVE  k = m + 1
    <3>1. PathCount(args, k) \in Nat /\ PathCount(args, m + 1) \in Nat
      BY CountGrows
    <3>2. CASE k < m + 1
      BY <2>1, <3>1, <3>2, CountMonotone
    <3>3. CASE k > m + 1
      BY <2>1, <3>1, <3>3, CountMonotone
    <3> QED BY <3>2, <3>3
  <2> QED BY <1>3, <2>1
<1> HIDE DEF At
<1>5. PICK c \in Nat : c = PathCount(args, m)
  BY CountGrows
<1>6. PathCount(args, m + 1) = (IF Roles(args)[m + 1] = "path" THEN c + 1 ELSE c)
  <2>1. PICK g : g = PathCount(args, m + 1)
    OBVIOUS
  <2>2. g = PathCount(args, m) + (IF Roles(args)[m + 1] = "path" THEN 1 ELSE 0)
    BY <2>1, CountGrows
  <2> QED BY <1>5, <2>1, <2>2
<1>7. PathsUpTo(args, m) = [n \in 1..c |-> args[At(n)]]
  BY <1>1, <1>5
<1>8. ASSUME Roles(args)[m + 1] = "path"
      PROVE  PathsUpTo(args, m + 1) = Append(PathsUpTo(args, m), args[m + 1])
  <2>1. PathsUpTo(args, m + 1) = [n \in 1..(c + 1) |-> args[At(n)]]
    BY <1>1, <1>6, <1>8
  <2>2. PICK e, f : e = args[m + 1] /\ f = [n \in 1..(c + 1) |-> args[At(n)]]
    OBVIOUS
  <2>3. f[c + 1] = e
    BY <1>4, <1>6, <1>8, <2>2
  <2>4. PICK s : s = [n \in 1..c |-> args[At(n)]]
    OBVIOUS
  <2>5. Append(s, e) = f
    <3>1. s = [n \in 1..c |-> f[n]] /\ f = [n \in 1..(c + 1) |-> f[n]]
      BY <2>2, <2>4
    <3> QED BY ONLY <3>1, <2>3, c \in Nat
  <2> QED BY <1>7, <2>1, <2>2, <2>4, <2>5
<1>9. ASSUME Roles(args)[m + 1] # "path"
      PROVE  PathsUpTo(args, m + 1) = PathsUpTo(args, m)
  <2>1. PathsUpTo(args, m + 1) = [n \in 1..c |-> args[At(n)]]
    BY <1>1, <1>6, <1>9
  <2> QED BY <1>7, <2>1
<1> QED BY <1>8, <1>9

\* An option that is met after others counts instead of them.
LEMMA SizeGrows ==
    ASSUME NEW args, NEW m \in Nat, NEW option, NEW default
    PROVE  /\ Roles(args)[m + 1] = option =>
                SizeUpTo(args, option, default, m + 1) = ValueOf(args[1 + (m + 1)])
           /\ Roles(args)[m + 1] # option =>
                SizeUpTo(args, option, default, m + 1) = SizeUpTo(args, option, default, m)
<1> DEFINE at(x) == {k \in 1..x : Roles(args)[k] = option}
           last(S) == CHOOSE k \in S : \A j \in S : j <= k
           said(S) == IF S = {} THEN default ELSE ValueOf(args[1 + last(S)])
<1>1. ASSUME NEW x PROVE SizeUpTo(args, option, default, x) = said(at(x))
  BY DEF SizeUpTo
<1>2. ASSUME Roles(args)[m + 1] = option
      PROVE  SizeUpTo(args, option, default, m + 1) = ValueOf(args[1 + (m + 1)])
  <2>1. PICK S : S = at(m + 1)
    OBVIOUS
  <2>2. m + 1 \in S /\ \A j \in S : j \in Int /\ j <= m + 1
    BY <1>2, <2>1
  <2>3. last(S) = m + 1
    BY <2>2
  <2> HIDE DEF last
  <2>4. said(S) = ValueOf(args[1 + (m + 1)])
    BY <2>2, <2>3
  <2> QED BY <1>1, <2>1, <2>4
<1>3. ASSUME Roles(args)[m + 1] # option
      PROVE  SizeUpTo(args, option, default, m + 1) = SizeUpTo(args, option, default, m)
  <2>1. at(m + 1) = at(m)
    BY <1>3
  <2> HIDE DEF said, at
  <2> QED BY <1>1, <2>1
<1> QED BY <1>2, <1>3

\* Before the first argument nothing has been said, after the last one all.
LEMMA NothingSaid ==
    ASSUME NEW args, NEW option, NEW default
    PROVE  PathsUpTo(args, 0) = <<>> /\ SizeUpTo(args, option, default, 0) = default
<1>1. PathsUpTo(args, 0) = <<>>
  <2>1. {k \in 1..0 : Roles(args)[k] = "path"} = {}
    OBVIOUS
  <2> QED BY <2>1, FS_EmptySet DEF PathsUpTo
<1>2. {k \in 1..0 : Roles(args)[k] = option} = {}
  OBVIOUS
<1> QED BY <1>1, <1>2 DEF SizeUpTo

LEMMA AllSaid ==
    ASSUME NEW args, NEW option, NEW default
    PROVE  /\ PathsOf(args) = PathsUpTo(args, Len(args))
           /\ Size(args, option, default) = SizeUpTo(args, option, default, Len(args))
  BY DEF PathsOf, PathsUpTo, Size, SizeUpTo

\* parse_uint16 takes exactly what a number of 16 bits is printed as, and for
\* that number.
LEMMA ParseMeans ==
    ASSUME NEW str \in Paths
    PROVE  /\ ParseUint16(str) <=> str \in Numerals
           /\ str \in Numerals => ToUint16(atoi[str]) = ValueOf(str)
<1>1. atoi[str] \in Int /\ ToUint16(atoi[str]) \in Uint16
  BY LilyvmConstants, CutToWidth
<1>2. ASSUME ParseUint16(str) PROVE str \in Numerals
  BY <1>1, <1>2 DEF ParseUint16, Numerals
<1>3. ASSUME str \in Numerals
      PROVE  ParseUint16(str) /\ ToUint16(atoi[str]) = ValueOf(str)
  <2>1. \E n \in Uint16 : ToString(n) = str
    BY <1>3 DEF Numerals
  <2>2. ValueOf(str) \in Uint16 /\ ToString(ValueOf(str)) = str
    BY <2>1 DEF ValueOf
  <2>3. atoi[str] = ValueOf(str)
    BY <2>2, LilyvmConstants
  <2>4. ToUint16(ValueOf(str)) = ValueOf(str) /\ ValueOf(str) >= 0
    BY <2>2, CutToWidth
  <2> QED BY <2>2, <2>3, <2>4 DEF ParseUint16
<1> QED BY <1>2, <1>3

\* The role of an argument that is not a value, and of one that is.
LEMMA RoleHere ==
    ASSUME NEW args \in Seq(Paths), NEW m \in Nat, m < Len(args), InOrder(args, m)
    PROVE  /\ (\E k \in 1..m : Roles(args)[k] = "stop") => Roles(args)[m + 1] = "path"
           /\ ~ (\E k \in 1..m : Roles(args)[k] = "stop") =>
                Roles(args)[m + 1] = RoleOf(args[m + 1])
           /\ m + 2 <= Len(args) /\ Roles(args)[m + 1] \in {"stack", "heap"} =>
                Roles(args)[m + 2] = "value"
<1>1. PICK role : role = Roles(args)
  OBVIOUS
<1>2. \A k \in 1..Len(args) : role[k] = RoleAt(role, args, k)
  BY <1>1, RolesFacts
<1>3. m + 1 \in 1..Len(args) /\ (m + 1) - 1 = m /\ (m + 2) - 1 = m + 1 /\ m + 2 > 1
  OBVIOUS
<1>4. ~ (m + 1 > 1 /\ role[(m + 1) - 1] \in {"stack", "heap"})
  BY <1>1, <1>3 DEF InOrder
<1>5. role[m + 1] = IF \E k \in 1..m : role[k] = "stop" THEN "path" ELSE RoleOf(args[m + 1])
  <2>1. role[m + 1] = RoleAt(role, args, m + 1)
    BY <1>2, <1>3
  <2> QED BY <1>3, <1>4, <2>1 DEF RoleAt
<1>6. ASSUME m + 2 <= Len(args), role[m + 1] \in {"stack", "heap"}
      PROVE  role[m + 2] = "value"
  <2>1. role[m + 2] = RoleAt(role, args, m + 2)
    BY <1>2, <1>6
  <2> QED BY <1>3, <1>6, <2>1 DEF RoleAt
<1> QED BY <1>1, <1>5, <1>6

LEMMA InOrderGrows ==
    ASSUME NEW args \in Seq(Paths), NEW m \in Nat, m < Len(args), InOrder(args, m)
    PROVE  /\ Roles(args)[m + 1] \notin {"help", "stack", "heap"} => InOrder(args, m + 1)
           /\ /\ m + 2 <= Len(args) /\ args[m + 2] \in Numerals
              /\ Roles(args)[m + 1] \in {"stack", "heap"}
              => InOrder(args, m + 2)
<1>1. PICK role : role = Roles(args)
  OBVIOUS
<1>2. \A k \in 1..m : /\ role[k] # "help"
                      /\ role[k] \in {"stack", "heap"} => k < m /\ args[k + 1] \in Numerals
  BY <1>1 DEF InOrder
<1>3. ASSUME role[m + 1] \notin {"help", "stack", "heap"} PROVE InOrder(args, m + 1)
  <2>1. 1..(m + 1) = (1..m) \cup {m + 1}
    OBVIOUS
  <2> QED BY <1>1, <1>2, <1>3, <2>1 DEF InOrder
<1>4. ASSUME m + 2 <= Len(args), args[m + 2] \in Numerals, role[m + 1] \in {"stack", "heap"}
      PROVE  InOrder(args, m + 2)
  <2>1. 1..(m + 2) = (1..m) \cup {m + 1, m + 2} /\ (m + 1) + 1 = m + 2 /\ m + 1 < m + 2
    OBVIOUS
  <2>2. role[m + 2] = "value"
    BY <1>1, <1>4, RoleHere
  <2>3. role[m + 1] # "help"
    BY <1>4
  <2> QED BY <1>1, <1>2, <1>4, <2>1, <2>2, <2>3 DEF InOrder
<1> QED BY <1>1, <1>3, <1>4

LEMMA OrderedMeans ==
    ASSUME NEW args \in Seq(Paths), args # <<>>, InOrder(args, Len(args))
    PROVE  ~ AsksForHelp(args)
<1> SUFFICES ASSUME NEW k \in 1..Len(args),
                    \/ Roles(args)[k] = "help"
                    \/ /\ Roles(args)[k] \in {"stack", "heap"}
                       /\ k = Len(args) \/ args[k + 1] \notin Numerals
             PROVE  FALSE
  BY DEF AsksForHelp
<1>1. /\ Roles(args)[k] # "help"
      /\ Roles(args)[k] \in {"stack", "heap"} => k < Len(args) /\ args[k + 1] \in Numerals
  BY DEF InOrder
<1> QED BY <1>1

-----------------------------------------------------------------------------
(***************************************************************************)
(* The option loop: each of its steps reads what the arguments mean.       *)
(***************************************************************************)
\* What the variables of the loop hold after m arguments, and before any file
ReadUpTo(m) ==
    /\ InOrder(argv, m)
    /\ stop_parsing <=> \E k \in 1..m : Roles(argv)[k] = "stop"
    /\ paths = PathsUpTo(argv, m)
    /\ stacklen = SizeUpTo(argv, "stack", default_stacklen, m)
    /\ heaplen = SizeUpTo(argv, "heap", default_heaplen, m)
NothingRun ==
    /\ loader.pc = "idle"
    /\ printed.loading = <<>> /\ printed.malloc_process = <<>> /\ printed.stacks = 0

LEMMA ParseUnfolds ==
    ParseOK <=> (pc = "parse" => i \in 1..(Len(argv) + 1) /\ ReadUpTo(i - 1) /\ NothingRun)
  BY DEF ParseOK, ReadUpTo, NothingRun

\* The argument at i, of which the role is known
LEMMA ArgumentRead ==
    ASSUME MainOK, ParseOK, Argument
    PROVE  /\ argv \in Seq(Paths) /\ argv[i] \in Paths /\ i \in Nat /\ i >= 1 /\ i <= Len(argv)
           /\ ReadUpTo(i - 1) /\ NothingRun /\ pc = "parse"
           /\ stop_parsing => Roles(argv)[i] = "path"
           /\ ~ stop_parsing => Roles(argv)[i] = RoleOf(argv[i])
           /\ ~ stop_parsing => ~ (\E k \in 1..(i - 1) : Roles(argv)[k] = "stop")
<1>1. argv \in Seq(Paths) /\ i \in Nat /\ i >= 1 /\ i <= Len(argv) /\ argv[i] \in Paths /\ pc = "parse"
  BY DEF MainOK, Argument
<1>2. ReadUpTo(i - 1) /\ NothingRun
  BY <1>1, ParseUnfolds
<1>3. PICK m \in Nat : m = i - 1
  BY <1>1
<1>4. m < Len(argv) /\ m + 1 = i /\ InOrder(argv, m)
  BY <1>1, <1>2, <1>3 DEF ReadUpTo
<1>5. /\ (\E k \in 1..m : Roles(argv)[k] = "stop") => Roles(argv)[m + 1] = "path"
      /\ ~ (\E k \in 1..m : Roles(argv)[k] = "stop") => Roles(argv)[m + 1] = RoleOf(argv[m + 1])
  BY <1>1, <1>4, RoleHere
<1>6. stop_parsing <=> \E k \in 1..m : Roles(argv)[k] = "stop"
  BY <1>2, <1>3 DEF ReadUpTo
<1> QED BY <1>1, <1>2, <1>3, <1>4, <1>5, <1>6

\* An argument that is a path or the first "--"
LEMMA PlainRead ==
    ASSUME MainOK, ParseOK, Path \/ StopParsing
    PROVE  ParseOK'
<1>1. Argument /\ i' = i + 1 /\ UNCHANGED <<vars, argv, stacklen, heaplen, pc>>
  BY DEF Path, StopParsing
<1>2. /\ argv \in Seq(Paths) /\ i \in Nat /\ i >= 1 /\ i <= Len(argv)
      /\ ReadUpTo(i - 1) /\ NothingRun
  BY <1>1, ArgumentRead
<1>3. PICK m \in Nat : m = i - 1
  BY <1>2
<1>4. m < Len(argv) /\ m + 1 = i /\ ReadUpTo(m) /\ InOrder(argv, m)
  BY <1>2, <1>3 DEF ReadUpTo
<1>5. PICK role : role = Roles(argv)[i]
  OBVIOUS
<1>6. \/ role = "path" /\ paths' = Append(paths, argv[i]) /\ UNCHANGED stop_parsing
      \/ role = "stop" /\ stop_parsing' = TRUE /\ UNCHANGED paths
  <2>1. CASE Path
    <3>1. RoleOf(argv[i]) = "path" \/ stop_parsing
      BY <2>1 DEF Path, RoleOf
    <3>2. role = "path"
      BY <1>1, <1>5, <3>1, ArgumentRead
    <3> QED BY <2>1, <3>2 DEF Path
  <2>2. CASE StopParsing
    <3>1. RoleOf(argv[i]) = "stop" /\ ~ stop_parsing
      BY <2>2 DEF StopParsing, RoleOf, StackOpt, HeapOpt
    <3>2. role = "stop"
      BY <1>1, <1>5, <3>1, ArgumentRead
    <3> QED BY <2>2, <3>2 DEF StopParsing
  <2> QED BY <2>1, <2>2
<1>7. InOrder(argv, i)
  BY <1>2, <1>4, <1>5, <1>6, InOrderGrows
<1>8. stop_parsing' <=> \E k \in 1..i : Roles(argv)[k] = "stop"
  <2>1. 1..i = (1..m) \cup {i}
    BY <1>2, <1>3
  <2>2. stop_parsing <=> \E k \in 1..m : Roles(argv)[k] = "stop"
    BY <1>4 DEF ReadUpTo
  <2> QED BY <1>5, <1>6, <2>1, <2>2
<1>9. paths' = PathsUpTo(argv, i)
  <2>1. paths = PathsUpTo(argv, m)
    BY <1>4 DEF ReadUpTo
  <2> QED BY <1>2, <1>4, <1>5, <1>6, <2>1, PathsGrow
<1>10. stacklen = SizeUpTo(argv, "stack", default_stacklen, i) /\ heaplen = SizeUpTo(argv, "heap", default_heaplen, i)
  <2>1. role # "stack" /\ role # "heap"
    BY <1>6
  <2>2. stacklen = SizeUpTo(argv, "stack", default_stacklen, m)
        /\ heaplen = SizeUpTo(argv, "heap", default_heaplen, m)
    BY <1>4 DEF ReadUpTo
  <2> QED BY <1>4, <1>5, <2>1, <2>2, SizeGrows
<1>11. i' \in 1..(Len(argv') + 1) /\ i' - 1 = i
  BY <1>1, <1>2
<1>12. ReadUpTo(i - 1)'
  BY <1>1, <1>7, <1>8, <1>9, <1>10, <1>11 DEF ReadUpTo
<1>13. NothingRun'
  BY <1>1, <1>2 DEF NothingRun, vars
<1> QED BY <1>11, <1>12, <1>13 DEF ParseOK, ReadUpTo, NothingRun

\* An option with its value
LEMMA OptionRead ==
    ASSUME MainOK, ParseOK, StackOption \/ HeapOption
    PROVE  ParseOK'
<1>1. /\ Argument /\ ~ stop_parsing /\ i + 1 <= Len(argv) /\ ParseUint16(argv[i + 1])
      /\ i' = i + 2 /\ UNCHANGED <<vars, argv, stop_parsing, paths, pc>>
  BY DEF StackOption, HeapOption, OptionValue
<1>2. /\ argv \in Seq(Paths) /\ i \in Nat /\ i >= 1 /\ i <= Len(argv)
      /\ ReadUpTo(i - 1) /\ NothingRun
  BY <1>1, ArgumentRead
<1>3. PICK m \in Nat : m = i - 1
  BY <1>2
<1>4. m < Len(argv) /\ m + 1 = i /\ m + 2 = i + 1 /\ ReadUpTo(m) /\ InOrder(argv, m)
  BY <1>2, <1>3 DEF ReadUpTo
<1>5. PICK role : role = Roles(argv)[i]
  OBVIOUS
<1>6. argv[i + 1] \in Numerals /\ ToUint16(atoi[argv[i + 1]]) = ValueOf(argv[i + 1])
  <2>1. argv[i + 1] \in Paths
    BY <1>1, <1>2
  <2> QED BY <1>1, <2>1, ParseMeans
<1>7. \/ role = "stack" /\ stacklen' = ValueOf(argv[i + 1]) /\ UNCHANGED heaplen
      \/ role = "heap" /\ heaplen' = ValueOf(argv[i + 1]) /\ UNCHANGED stacklen
  <2>1. role = RoleOf(argv[i])
    BY <1>1, <1>5, ArgumentRead
  <2>2. CASE StackOption
    <3>1. argv[i] \in StackOpt
      BY <2>2 DEF StackOption, OptionValue
    <3>2. role = "stack"
      BY <2>1, <3>1 DEF RoleOf, StackOpt, HeapOpt
    <3> QED BY <1>6, <2>2, <3>2 DEF StackOption
  <2>3. CASE HeapOption
    <3>1. argv[i] \in HeapOpt
      BY <2>3 DEF HeapOption, OptionValue
    <3>2. role = "heap"
      BY <2>1, <3>1 DEF RoleOf, StackOpt, HeapOpt
    <3> QED BY <1>6, <2>3, <3>2 DEF HeapOption
  <2> QED BY <2>2, <2>3
<1>8. Roles(argv)[i + 1] = "value"
  BY <1>1, <1>2, <1>4, <1>5, <1>7, RoleHere
<1>9. InOrder(argv, i + 1)
  BY <1>1, <1>2, <1>4, <1>5, <1>6, <1>7, InOrderGrows
<1>10. ~ stop_parsing' /\ ~ \E k \in 1..(i + 1) : Roles(argv)[k] = "stop"
  <2>1. 1..(i + 1) = (1..m) \cup {i, i + 1}
    BY <1>2, <1>3
  <2>2. ~ \E k \in 1..m : Roles(argv)[k] = "stop"
    BY <1>1, <1>3, ArgumentRead
  <2> QED BY <1>1, <1>5, <1>7, <1>8, <2>1, <2>2
<1>11. paths' = PathsUpTo(argv, i + 1)
  <2>1. paths' = PathsUpTo(argv, m)
    BY <1>1, <1>4 DEF ReadUpTo
  <2>2. PathsUpTo(argv, i) = PathsUpTo(argv, m)
    BY <1>2, <1>4, <1>5, <1>7, PathsGrow
  <2>3. PathsUpTo(argv, i + 1) = PathsUpTo(argv, i)
    <3>1. i < Len(argv)
      BY <1>1, <1>2
    <3> QED BY <1>2, <1>8, <3>1, PathsGrow
  <2> QED BY <2>1, <2>2, <2>3
<1>12. /\ stacklen' = SizeUpTo(argv, "stack", default_stacklen, i + 1)
       /\ heaplen' = SizeUpTo(argv, "heap", default_heaplen, i + 1)
  <2>1. /\ stacklen = SizeUpTo(argv, "stack", default_stacklen, m)
        /\ heaplen = SizeUpTo(argv, "heap", default_heaplen, m)
    BY <1>4 DEF ReadUpTo
  <2>2. ASSUME NEW option, NEW default, option # "value"
        PROVE  /\ role = option => SizeUpTo(argv, option, default, i + 1) = ValueOf(argv[i + 1])
               /\ role # option =>
                    SizeUpTo(argv, option, default, i + 1) = SizeUpTo(argv, option, default, m)
    <3>1. SizeUpTo(argv, option, default, i + 1) = SizeUpTo(argv, option, default, i)
      BY <1>2, <1>8, <2>2, SizeGrows
    <3>2. /\ role = option => SizeUpTo(argv, option, default, i) = ValueOf(argv[1 + i])
          /\ role # option =>
               SizeUpTo(argv, option, default, i) = SizeUpTo(argv, option, default, m)
      BY <1>4, <1>5, SizeGrows
    <3>3. 1 + i = i + 1
      BY <1>2
    <3> QED BY <3>1, <3>2, <3>3
  <2>3. ASSUME NEW default
        PROVE  /\ role = "stack" => SizeUpTo(argv, "stack", default, i + 1) = ValueOf(argv[i + 1])
               /\ role # "stack" =>
                    SizeUpTo(argv, "stack", default, i + 1) = SizeUpTo(argv, "stack", default, m)
               /\ role = "heap" => SizeUpTo(argv, "heap", default, i + 1) = ValueOf(argv[i + 1])
               /\ role # "heap" =>
                    SizeUpTo(argv, "heap", default, i + 1) = SizeUpTo(argv, "heap", default, m)
    BY <2>2
  <2> QED BY <1>7, <2>1, <2>3
<1>13. i' \in 1..(Len(argv') + 1) /\ i' - 1 = i + 1
  BY <1>1, <1>2
<1>14. ReadUpTo(i - 1)'
  BY <1>1, <1>9, <1>10, <1>11, <1>12, <1>13 DEF ReadUpTo
<1>15. NothingRun'
  BY <1>1, <1>2 DEF NothingRun, vars
<1> QED BY <1>13, <1>14, <1>15 DEF ParseOK, ReadUpTo, NothingRun

-----------------------------------------------------------------------------
(***************************************************************************)
(* The loop over the files: each step of it, and of the call it makes,     *)
(* runs what has been understood.                                          *)
(***************************************************************************)
\* What AsAsked says but for the exit status
Asked ==
    /\ IsPrefixOf(printed.loading, PathsOf(argv))
    /\ Len(printed.malloc_process) \in {Len(printed.loading), Len(printed.loading) - 1}
    /\ \A k \in 1..Len(printed.malloc_process) : printed.malloc_process[k] =
          <<Size(argv, "stack", default_stacklen), Size(argv, "heap", default_heaplen)>>

LEMMA AskedMeans ==
    ASSUME ~ AsksForHelp(argv)
    PROVE  AsAsked <=> /\ Asked
                       /\ pc = "exited" => (status = 0 <=> printed.stacks = Len(PathsOf(argv)))
  BY DEF AsAsked, Asked

LEMMA ProgressMeans ==
    ASSUME Understood, NEW n \in Nat, NEW m, NEW k, m = n \/ m = n - 1, Progress(n, m, k)
    PROVE  Asked
<1>1. Len(printed.loading) = n /\ Len(printed.malloc_process) = m /\ paths = PathsOf(argv)
  BY DEF Progress, Understood
<1>2. IsPrefixOf(printed.loading, PathsOf(argv))
  BY <1>1 DEF Progress, IsPrefixOf
<1>3. \A j \in 1..m : printed.malloc_process[j] =
          <<Size(argv, "stack", default_stacklen), Size(argv, "heap", default_heaplen)>>
  BY DEF Progress, Understood
<1> QED BY <1>1, <1>2, <1>3 DEF Asked

\* The loop begins with everything understood and nothing run.
LEMMA LoopBegins ==
    ASSUME MainOK, ParseOK, Parsed, RecordsOK
    PROVE  MainInv'
<1>1. /\ pc = "parse" /\ argv # <<>> /\ i > Len(argv) /\ pc' = "run" /\ i' = 0
      /\ UNCHANGED <<vars, argv, stop_parsing, paths, stacklen, heaplen>>
  BY DEF Parsed, options
<1>2. argv \in Seq(Paths) /\ Len(argv) \in Nat /\ i \in Nat /\ paths \in Seq(Paths)
  BY DEF MainOK
<1>3. i - 1 = Len(argv) /\ ReadUpTo(Len(argv)) /\ NothingRun
  <2>1. i \in 1..(Len(argv) + 1) /\ ReadUpTo(i - 1) /\ NothingRun
    BY <1>1, ParseUnfolds
  <2>2. i - 1 = Len(argv)
    BY <1>1, <1>2, <2>1
  <2> QED BY <2>1, <2>2
<1>4. Understood
  <2>1. ~ AsksForHelp(argv)
    BY <1>1, <1>2, <1>3, OrderedMeans DEF ReadUpTo
  <2> QED BY <1>3, <2>1, AllSaid DEF Understood, ReadUpTo
<1>5. Progress(0, 0, 0)
  <2>1. Len(paths) \in Nat /\ 1..0 = {}
    BY <1>2
  <2> QED BY <1>3, <2>1 DEF Progress, NothingRun
<1>6. Understood'
  BY <1>1, <1>4 DEF Understood
<1>7. Progress(i, i, i)'
  BY <1>1, <1>5 DEF Progress, vars
<1>8. loader'.pc = "idle"
  BY <1>1, <1>3 DEF NothingRun, vars
<1> QED BY <1>1, <1>6, <1>7, <1>8 DEF MainInv, ParseOK, RunOK, ExitOK

\* main calls bytecode_load_and_run with the next file.
LEMMA CallBegins ==
    ASSUME MainOK, RunOK, RunPath, RecordsOK
    PROVE  MainInv'
<1>1. /\ pc = "run" /\ i < Len(paths) /\ Load(paths[i + 1], stacklen, heaplen) /\ pc' = "call"
      /\ UNCHANGED <<argv, i, stop_parsing, paths, stacklen, heaplen>>
  BY DEF RunPath, options
<1>2. Understood /\ i \in Nat /\ Progress(i, i, i)
  BY <1>1 DEF RunOK
<1>3. /\ loader'.pc = "open" /\ loader'.stacklen = stacklen /\ loader'.heaplen = heaplen
      /\ printed'.loading = Append(printed.loading, paths[i + 1])
      /\ printed'.malloc_process = printed.malloc_process /\ printed'.stacks = printed.stacks
  BY <1>1 DEF Load, RecordsOK, LoaderType, PrintedType
<1>4. Understood'
  BY <1>1, <1>2 DEF Understood
<1>5. Progress(i + 1, i, i)'
  <2>1. PICK s, e : s = printed.loading /\ e = paths[i + 1]
    OBVIOUS
  <2>2. s \in Seq(Paths) /\ Len(s) = i /\ e \in Paths /\ \A j \in 1..i : s[j] = paths[j]
    BY <1>1, <1>2, <2>1 DEF Progress, MainOK, RecordsOK, PrintedType
  <2>3. Len(Append(s, e)) = i + 1 /\ \A j \in 1..(i + 1) : Append(s, e)[j] = paths[j]
    BY <1>2, <2>1, <2>2
  <2>4. i + 1 <= Len(paths)
    BY <1>1, <1>2 DEF MainOK
  <2> QED BY <1>1, <1>2, <1>3, <2>1, <2>3, <2>4 DEF Progress
<1> QED BY <1>1, <1>2, <1>3, <1>4, <1>5 DEF MainInv, ParseOK, RunOK, ExitOK, Unmapped

\* A process has been allocated, with the sizes the loader was called with.
ProcessMade ==
    /\ printed'.malloc_process = Append(printed.malloc_process, <<loader.stacklen, loader.heaplen>>)
    /\ printed'.loading = printed.loading /\ printed'.stacks = printed.stacks
\* A file has been run to its end.
StackPrinted ==
    /\ printed'.stacks = printed.stacks + 1
    /\ printed'.loading = printed.loading /\ printed'.malloc_process = printed.malloc_process

\* The steps of bytecode_load_and_run, by what they print
LEMMA LoaderMoves ==
    ASSUME RecordsOK, LoadAndRun
    PROVE  /\ loader'.stacklen = loader.stacklen /\ loader'.heaplen = loader.heaplen
           /\ \/ loader.pc \in Unmapped /\ loader'.pc \in Unmapped /\ UNCHANGED printed
              \/ /\ loader.pc \in Unmapped /\ loader'.pc = "returned" /\ ~ loader'.result
                 /\ UNCHANGED printed
              \/ loader.pc = "malloc" /\ loader'.pc \in AfterMalloc /\ ProcessMade
              \/ loader.pc \in AfterMalloc /\ loader'.pc \in AfterMalloc /\ UNCHANGED printed
              \/ loader.pc \in AfterMalloc /\ loader'.pc = "free" /\ StackPrinted
              \/ /\ loader.pc = "free" /\ loader'.pc = "returned" /\ loader'.result
                 /\ UNCHANGED printed
<1> USE DEF RecordsOK, LoaderType, PrintedType, LoadStep, LoadReturns, Unmapped, AfterMalloc
<1>1. CASE LoadOpen
  BY <1>1 DEF LoadOpen
<1>2. CASE LoadOpenFails
  BY <1>2 DEF LoadOpenFails
<1>3. CASE Fstat
  BY <1>3 DEF Fstat
<1>4. CASE FstatFails
  BY <1>4 DEF FstatFails
<1>5. CASE Mmap
  BY <1>5 DEF Mmap
<1>6. CASE MallocAreas
  BY <1>6 DEF MallocAreas, ProcessMade
<1>7. CASE MallocAreasFails
  BY <1>7 DEF MallocAreasFails, ProcessMade
<1>8. CASE MallocStack
  BY <1>8 DEF MallocStack
<1>9. CASE MallocStackFails
  BY <1>9 DEF MallocStackFails
<1>10. CASE Halts
  BY <1>10 DEF Halts, StackPrinted
<1>11. CASE Dies
  BY <1>11 DEF Dies
<1>12. CASE RunsAnything
  BY <1>12 DEF RunsAnything
<1>13. CASE FreeAndReturn
  BY <1>13 DEF FreeAndReturn
<1> QED BY <1>1, <1>2, <1>3, <1>4, <1>5, <1>6, <1>7, <1>8, <1>9, <1>10, <1>11, <1>12, <1>13
        DEF LoadAndRun

\* Which of the files have got how far, at each point of a call
CallOK ==
    \/ loader.pc \in Unmapped /\ Progress(i + 1, i, i)
    \/ loader.pc \in AfterMalloc /\ Progress(i + 1, i + 1, i)
    \/ loader.pc = "free" /\ Progress(i + 1, i + 1, i + 1)
    \/ loader.pc = "returned" /\ loader.result /\ Progress(i + 1, i + 1, i + 1)
    \/ loader.pc = "returned" /\ ~ loader.result /\ Progress(i + 1, i, i)

LEMMA RunUnfolds ==
    ASSUME RunOK
    PROVE  /\ pc \in {"run", "call"} => Understood /\ i \in Nat
           /\ pc = "run" => loader.pc \in {"idle", "returned"} /\ Progress(i, i, i)
           /\ pc = "call" => loader.stacklen = stacklen /\ loader.heaplen = heaplen /\ CallOK
  BY DEF RunOK, CallOK

\* The call goes on.
LEMMA CallMoves ==
    ASSUME MainOK, MainInv, LoaderStep, RecordsOK, RecordsOK'
    PROVE  MainInv'
<1>1. LoadAndRun /\ UNCHANGED <<argv, i, stop_parsing, paths, stacklen, heaplen, pc, status>>
  BY DEF LoaderStep, main, options
<1>2. loader.pc \notin {"idle", "returned"}
  BY <1>1, LoaderMoves DEF Unmapped, AfterMalloc
<1>3. pc = "call"
  BY <1>2 DEF MainInv, ParseOK, RunOK, ExitOK, MainOK
<1>4. Understood /\ i \in Nat /\ loader.stacklen = stacklen /\ loader.heaplen = heaplen /\ CallOK
  BY <1>3, RunUnfolds DEF MainInv
<1>5. /\ loader'.stacklen = loader.stacklen /\ loader'.heaplen = loader.heaplen
      /\ \/ loader.pc \in Unmapped /\ loader'.pc \in Unmapped /\ UNCHANGED printed
         \/ /\ loader.pc \in Unmapped /\ loader'.pc = "returned" /\ ~ loader'.result
            /\ UNCHANGED printed
         \/ loader.pc = "malloc" /\ loader'.pc \in AfterMalloc /\ ProcessMade
         \/ loader.pc \in AfterMalloc /\ loader'.pc \in AfterMalloc /\ UNCHANGED printed
         \/ loader.pc \in AfterMalloc /\ loader'.pc = "free" /\ StackPrinted
         \/ /\ loader.pc = "free" /\ loader'.pc = "returned" /\ loader'.result
            /\ UNCHANGED printed
  BY <1>1, LoaderMoves
<1>6. Understood'
  BY <1>1, <1>4 DEF Understood
<1>7. ASSUME UNCHANGED printed, NEW n \in Nat, NEW m \in Nat, NEW k \in Nat, Progress(n, m, k)
      PROVE  Progress(n, m, k)'
  BY <1>1, <1>7 DEF Progress
<1>8. ASSUME ProcessMade, Progress(i + 1, i, i) PROVE Progress(i + 1, i + 1, i)'
  <2>1. PICK s, e : s = printed.malloc_process /\ e = <<loader.stacklen, loader.heaplen>>
    OBVIOUS
  <2>2. s \in Seq(Uint16 \X Uint16) /\ e \in Uint16 \X Uint16 /\ Len(s) = i
        /\ \A j \in 1..i : s[j] = e
    BY <1>4, <1>8, <2>1 DEF Progress, RecordsOK, PrintedType, MainOK
  <2>3. Len(Append(s, e)) = i + 1 /\ \A j \in 1..(i + 1) : Append(s, e)[j] = e
    BY <1>4, <2>2
  <2> QED BY <1>1, <1>4, <1>8, <2>1, <2>3 DEF Progress, ProcessMade
<1>9. ASSUME StackPrinted, Progress(i + 1, i + 1, i) PROVE Progress(i + 1, i + 1, i + 1)'
  BY <1>1, <1>4, <1>9 DEF Progress, StackPrinted
<1>10. i + 1 \in Nat /\ i \in Nat /\ i' = i
  BY <1>1, <1>4
<1>11. CASE loader.pc \in Unmapped
  <2>1. Progress(i + 1, i, i)
    BY <1>4, <1>11 DEF CallOK, Unmapped, AfterMalloc
  <2>2. UNCHANGED printed => Progress(i + 1, i, i)'
    BY <1>7, <1>10, <2>1
  <2>3. \/ loader'.pc \in Unmapped /\ Progress(i + 1, i, i)'
        \/ loader'.pc = "returned" /\ ~ loader'.result /\ Progress(i + 1, i, i)'
        \/ loader'.pc \in AfterMalloc /\ Progress(i + 1, i + 1, i)'
    BY <1>5, <1>8, <1>11, <2>1, <2>2 DEF Unmapped, AfterMalloc
  <2>4. CallOK'
    BY <2>3 DEF CallOK
  <2> QED BY <1>1, <1>3, <1>4, <1>5, <1>6, <1>10, <2>4 DEF MainInv, ParseOK, RunOK, ExitOK, CallOK
<1>12. CASE loader.pc \in AfterMalloc
  <2>1. Progress(i + 1, i + 1, i)
    BY <1>4, <1>12 DEF CallOK, Unmapped, AfterMalloc
  <2>2. UNCHANGED printed => Progress(i + 1, i + 1, i)'
    BY <1>7, <1>10, <2>1
  <2>3. \/ loader'.pc \in AfterMalloc /\ Progress(i + 1, i + 1, i)'
        \/ loader'.pc = "free" /\ Progress(i + 1, i + 1, i + 1)'
    BY <1>5, <1>9, <1>12, <2>1, <2>2 DEF Unmapped, AfterMalloc
  <2>4. CallOK'
    BY <2>3 DEF CallOK
  <2> QED BY <1>1, <1>3, <1>4, <1>5, <1>6, <1>10, <2>4 DEF MainInv, ParseOK, RunOK, ExitOK, CallOK
<1>13. CASE loader.pc = "free"
  <2>1. Progress(i + 1, i + 1, i + 1)
    BY <1>4, <1>13 DEF CallOK, Unmapped, AfterMalloc
  <2>2. UNCHANGED printed => Progress(i + 1, i + 1, i + 1)'
    BY <1>7, <1>10, <2>1
  <2>3. loader'.pc = "returned" /\ loader'.result /\ Progress(i + 1, i + 1, i + 1)'
    BY <1>5, <1>13, <2>2 DEF Unmapped, AfterMalloc
  <2>4. CallOK'
    BY <2>3 DEF CallOK
  <2> QED BY <1>1, <1>3, <1>4, <1>5, <1>6, <1>10, <2>4 DEF MainInv, ParseOK, RunOK, ExitOK, CallOK
<1> QED BY <1>2, <1>4, <1>11, <1>12, <1>13 DEF CallOK

\* The call has returned with success.
LEMMA CallEnds ==
    ASSUME MainOK, MainInv, PathHasRun
    PROVE  MainInv'
<1>1. /\ pc = "call" /\ loader.pc = "returned" /\ loader.result /\ pc' = "run" /\ i' = i + 1
      /\ UNCHANGED <<file, saver, loader, owned, printed>>
      /\ UNCHANGED <<argv, stop_parsing, paths, stacklen, heaplen>>
  BY DEF PathHasRun, options, vars
<1>2. Understood /\ i \in Nat /\ CallOK
  BY <1>1, RunUnfolds DEF MainInv
<1>3. Progress(i + 1, i + 1, i + 1)
  BY <1>1, <1>2 DEF CallOK, Unmapped, AfterMalloc
<1>4. Understood'
  BY <1>1, <1>2 DEF Understood
<1>5. Progress(i, i, i)'
  BY <1>1, <1>3 DEF Progress
<1> QED BY <1>1, <1>2, <1>4, <1>5 DEF MainInv, ParseOK, RunOK, ExitOK

\* main ends because of the arguments: one of them, or their number, asks for help.
LEMMA HelpEnds ==
    ASSUME MainOK, MainInv, NoArguments \/ HelpOption \/ OptionWithoutValue(StackOpt \cup HeapOpt)
    PROVE  MainInv'
<1>1. pc = "parse" /\ exit(1)
  BY DEF NoArguments, HelpOption, OptionWithoutValue, help, Argument
<1>2. /\ pc' = "exited" /\ status' = 1
      /\ UNCHANGED <<file, saver, loader, owned, printed, argv>>
  BY <1>1 DEF exit, vars
<1>3. NothingRun /\ ParseOK
  BY <1>1, ParseUnfolds DEF MainInv
<1>4. AsksForHelp(argv)
  <2>1. CASE NoArguments
    BY <2>1 DEF NoArguments, AsksForHelp
  <2>2. CASE HelpOption
    <3>1. Argument /\ ~ stop_parsing /\ RoleOf(argv[i]) = "help"
      BY <2>2 DEF HelpOption, RoleOf, StackOpt, HeapOpt
    <3>2. Roles(argv)[i] = "help" /\ i \in 1..Len(argv)
      BY <1>3, <3>1, ArgumentRead
    <3> QED BY <3>2 DEF AsksForHelp
  <2>3. CASE OptionWithoutValue(StackOpt \cup HeapOpt)
    <3>1. /\ Argument /\ ~ stop_parsing /\ argv[i] \in StackOpt \cup HeapOpt
          /\ i + 1 <= Len(argv) => ~ ParseUint16(argv[i + 1])
      BY <2>3 DEF OptionWithoutValue
    <3>2. RoleOf(argv[i]) \in {"stack", "heap"}
      BY <3>1 DEF RoleOf, StackOpt, HeapOpt
    <3>3. Roles(argv)[i] \in {"stack", "heap"} /\ i \in 1..Len(argv) /\ argv \in Seq(Paths)
      BY <1>3, <3>1, <3>2, ArgumentRead
    <3>4. i = Len(argv) \/ argv[i + 1] \notin Numerals
      <4>1. SUFFICES ASSUME i # Len(argv) PROVE argv[i + 1] \notin Numerals
        OBVIOUS
      <4>2. i + 1 <= Len(argv) /\ argv[i + 1] \in Paths
        BY <3>3, <4>1
      <4> QED BY <3>1, <4>2, ParseMeans
    <3> QED BY <3>3, <3>4 DEF AsksForHelp
  <2> QED BY <2>1, <2>2, <2>3
<1>5. AsAsked'
  BY <1>2, <1>3, <1>4 DEF AsAsked, NothingRun
<1> QED BY <1>2, <1>3, <1>5 DEF MainInv, ParseOK, RunOK, ExitOK, NothingRun

\* main ends with the first file that could not be loaded, or after the last one.
LEMMA LoopEnds ==
    ASSUME MainOK, MainInv, PathFailed \/ AllRun
    PROVE  MainInv'
<1>1. /\ pc \in {"run", "call"} /\ loader.pc \in {"idle", "returned"} /\ pc' = "exited"
      /\ UNCHANGED <<file, saver, loader, owned, printed, argv>>
  <2>1. CASE PathFailed
    BY <2>1 DEF PathFailed, exit, vars
  <2>2. CASE AllRun
    BY <2>2, RunUnfolds DEF AllRun, exit, vars, MainInv
  <2> QED BY <2>1, <2>2
<1>2. Understood /\ i \in Nat /\ paths \in Seq(Paths) /\ Len(paths) \in Nat
  BY <1>1, RunUnfolds DEF MainInv, MainOK
<1>3. Asked /\ (status' = 0 <=> printed.stacks = Len(PathsOf(argv)))
  <2>1. CASE PathFailed
    <3>1. pc = "call" /\ loader.pc = "returned" /\ ~ loader.result /\ status' = 1
      BY <2>1 DEF PathFailed, exit
    <3>2. Progress(i + 1, i, i)
      BY <3>1, RunUnfolds DEF MainInv, CallOK, Unmapped, AfterMalloc
    <3>3. printed.stacks = i /\ i + 1 <= Len(paths)
      BY <3>2 DEF Progress
    <3>4. Asked
      BY <1>2, <3>2, ProgressMeans
    <3> QED BY <1>2, <3>1, <3>3, <3>4 DEF Understood
  <2>2. CASE AllRun
    <3>1. pc = "run" /\ i = Len(paths) /\ status' = 0
      BY <2>2 DEF AllRun, exit
    <3>2. Progress(i, i, i)
      BY <3>1, RunUnfolds DEF MainInv
    <3>3. printed.stacks = i
      BY <3>2 DEF Progress
    <3>4. Asked
      BY <1>2, <3>2, ProgressMeans
    <3> QED BY <1>2, <3>1, <3>3, <3>4 DEF Understood
  <2> QED BY <2>1, <2>2
<1>4. ~ AsksForHelp(argv)
  BY <1>2 DEF Understood
<1>5. AsAsked'
  BY <1>1, <1>3, <1>4 DEF AsAsked, Asked
<1> QED BY <1>1, <1>5 DEF MainInv, ParseOK, RunOK, ExitOK

\* The invariant does not speak of files, of the saver or of what is owned.
LEMMA NotSeen ==
    ASSUME MainInv, UNCHANGED <<loader, printed, main>>
    PROVE  MainInv'
<1>1. UNCHANGED <<loader, printed, argv, i, stop_parsing, paths, stacklen, heaplen, pc, status>>
  BY DEF main, options
<1>2. ParseOK'
  BY <1>1 DEF MainInv, ParseOK
<1>3. RunOK'
  BY <1>1 DEF MainInv, RunOK, Understood, Progress
<1>4. ExitOK'
  BY <1>1 DEF MainInv, ExitOK, AsAsked
<1> QED BY <1>2, <1>3, <1>4 DEF MainInv

LEMMA MainInvInitially == LilyvmInit => MainInv
<1> SUFFICES ASSUME LilyvmInit PROVE MainInv
  OBVIOUS
<1>1. /\ pc = "parse" /\ i = 1 /\ stop_parsing = FALSE /\ paths = <<>>
      /\ stacklen = default_stacklen /\ heaplen = default_heaplen
      /\ argv \in Seq(Paths)
  BY LilyvmConstants DEF LilyvmInit
<1>2. NothingRun
  BY DEF LilyvmInit, Init, NothingRun
<1>3. i \in 1..(Len(argv) + 1) /\ i - 1 = 0
  BY <1>1
<1>4. ReadUpTo(0)
  <2>1. 1..0 = {}
    OBVIOUS
  <2> QED BY <1>1, <2>1, NothingSaid DEF ReadUpTo, InOrder
<1> QED BY <1>1, <1>2, <1>3, <1>4, ParseUnfolds DEF MainInv, RunOK, ExitOK

LEMMA MainInvStep ==
    ASSUME MainOK, MainInv, IInv, IInv', [LilyvmNext]_<<vars, main>>
    PROVE  MainInv'
<1>0. RecordsOK /\ RecordsOK'
  BY DEF IInv
<1>1. CASE UNCHANGED <<vars, main>>
  BY <1>1, NotSeen DEF vars
<1>2. CASE Save /\ UNCHANGED main
  BY <1>2, SaveStep, NotSeen
<1>3. CASE NoArguments \/ HelpOption \/ OptionWithoutValue(StackOpt \cup HeapOpt)
  BY <1>3, HelpEnds
<1>4. CASE StackOption \/ HeapOption \/ StopParsing \/ Path
  <2>1. pc = "parse" /\ pc' = "parse"
    BY <1>4 DEF StackOption, HeapOption, OptionValue, StopParsing, Path, Argument
  <2>2. ParseOK'
    BY <1>4, OptionRead, PlainRead DEF MainInv
  <2> QED BY <2>1, <2>2 DEF MainInv, RunOK, ExitOK
<1>5. CASE Parsed
  BY <1>0, <1>5, LoopBegins DEF MainInv
<1>6. CASE RunPath
  BY <1>0, <1>6, CallBegins DEF MainInv
<1>7. CASE LoaderStep
  BY <1>0, <1>7, CallMoves
<1>8. CASE PathHasRun
  BY <1>8, CallEnds
<1>9. CASE PathFailed \/ AllRun
  BY <1>9, LoopEnds
<1> QED BY <1>1, <1>2, <1>3, <1>4, <1>5, <1>6, <1>7, <1>8, <1>9 DEF LilyvmNext, Main

\* At every step main has understood of its arguments what they mean, and has
\* run what that asks for.
THEOREM MainInvariant == LilyvmSpec => []MainInv
<1>1. MainOK /\ UNCHANGED <<vars, main>> => MainOK'
  BY DEF main, options, MainOK
<1>2. MainOK /\ [LilyvmNext]_<<vars, main>> => MainOK'
  BY <1>1, MainStep
<1>3. LilyvmSpec => []IInv
  BY LilyvmIsAClient, BytecodeInvariant, PTL
<1>4. MainOK /\ MainInv /\ IInv /\ IInv' /\ [LilyvmNext]_<<vars, main>> => MainInv'
  BY MainInvStep
<1> QED BY MainInitially, MainInvInitially, <1>2, <1>3, <1>4, PTL DEF LilyvmSpec

\* The files of a command line that is in order are run one after the other
\* with the sizes it gives, whatever precedes or follows the options, and
\* nothing is run for any other command line.
THEOREM RunsAsAsked == LilyvmSpec => []AsAsked
<1>1. MainOK /\ MainInv => AsAsked
  <2> SUFFICES ASSUME MainOK, MainInv PROVE AsAsked
    OBVIOUS
  <2>1. CASE pc = "parse"
    <3>1. NothingRun
      BY <2>1, ParseUnfolds DEF MainInv
    <3>2. ~ AsksForHelp(argv) => Asked
      <4>1. PICK n \in Nat : n = PathCount(argv, Len(argv))
        <5>1. Len(argv) \in Nat
          BY DEF MainOK
        <5> QED BY <5>1, CountGrows
      <4>2. PICK f : PathsOf(argv) = [k \in 1..n |-> f[k]]
        <5>1. PathsOf(argv) = [k \in 1..n |-> PathsOf(argv)[k]]
          BY <4>1 DEF PathsOf, PathCount
        <5> QED BY <5>1
      <4>3. Len(PathsOf(argv)) = n
        BY <4>2
      <4> QED BY <3>1, <4>3 DEF NothingRun, Asked, IsPrefixOf
    <3> QED BY <2>1, <3>1, <3>2 DEF AsAsked, Asked, NothingRun
  <2>2. CASE pc \in {"run", "call"}
    <3>1. Understood /\ i \in Nat
      BY <2>2, RunUnfolds DEF MainInv
    <3>2. \E n \in Nat : \E m \in {n, n - 1} : \E k \in Nat : Progress(n, m, k)
      <4>1. pc = "run" => Progress(i, i, i)
        BY RunUnfolds DEF MainInv
      <4>2. pc = "call" => CallOK
        BY RunUnfolds DEF MainInv
      <4>3. i + 1 \in Nat /\ i \in {i + 1, (i + 1) - 1} /\ i \in Nat
        BY <3>1
      <4>4. Progress(i, i, i) \/ Progress(i + 1, i, i) \/ Progress(i + 1, i + 1, i)
            \/ Progress(i + 1, i + 1, i + 1)
        BY <2>2, <4>1, <4>2 DEF CallOK
      <4> QED BY <4>3, <4>4
    <3>3. Asked
      BY <3>1, <3>2, ProgressMeans
    <3> QED BY <2>2, <3>1, <3>3, AskedMeans DEF Understood
  <2>3. CASE pc = "exited"
    BY <2>3 DEF MainInv, ExitOK
  <2> QED BY <2>1, <2>2, <2>3 DEF MainOK
<1>2. MainOK /\ UNCHANGED <<vars, main>> => MainOK'
  BY DEF main, options, MainOK
<1>3. MainOK /\ [LilyvmNext]_<<vars, main>> => MainOK'
  BY <1>2, MainStep
<1> QED BY MainInitially, MainInvariant, <1>1, <1>3, PTL DEF LilyvmSpec
=============================================================================
