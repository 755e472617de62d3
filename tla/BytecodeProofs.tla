--------------------------- MODULE BytecodeProofs ---------------------------
(***************************************************************************)
(* Proofs about bytecode files: for all files, programs and numbers of     *)
(* descriptors, what is saved stays saved, no mapping outlives the bytes   *)
(* it shows, and every call releases what it has taken.                    *)
(***************************************************************************)
EXTENDS Bytecode, TLAPS

Contents == Seq(Bytes)

LoaderPcs == {"idle", "open", "fstat", "mmap", "malloc", "malloc_stack", "run", "free",
              "returned", "DIE", "undefined"}

SaverType == [pc : {"idle", "write", "close"}, path : Paths, at : Nat, result : BOOLEAN]
LoaderType == [pc : LoaderPcs, path : Paths, stacklen : Uint16, heaplen : Uint16,
               st_size : Nat, mapping : {"mapped", "MAP_FAILED"}, result : BOOLEAN]
OwnedType == [fds : 0..MaxFds, blocks : 0..2, maps : 0..1]
PrintedType == [loading : Seq(Paths), malloc_process : Seq(Uint16 \X Uint16), stacks : Nat]

RecordsOK ==
    /\ file \in [Paths -> Contents \cup {Absent}]
    /\ saver \in SaverType
    /\ loader \in LoaderType
    /\ owned \in OwnedType
    /\ printed \in PrintedType

\* What is being written is a program, of which the first bytes are in the file.
SaverOK ==
    Saving => /\ saver.path \in DOMAIN Program
              /\ saver.at <= Len(Program[saver.path])
              /\ file[saver.path] \in Contents
              /\ saver.at <= Len(file[saver.path])

\* An open file exists, and is as long as it was when fstat looked.
LoaderOK ==
    /\ loader.pc \in {"fstat", "mmap", "malloc", "malloc_stack", "run"} =>
          file[loader.path] \in Contents
    /\ loader.pc \in {"mmap", "malloc", "malloc_stack", "run"} =>
          loader.st_size <= Len(file[loader.path])
    /\ loader.pc \in {"malloc", "malloc_stack", "run"} /\ loader.mapping = "mapped" => loader.st_size > 0
    /\ loader.pc = "free" => loader.mapping = "mapped"

\* What is owned at each point of a call
OpenHere == {"fstat", "mmap", "malloc", "malloc_stack", "run"}
MappedHere == {"malloc", "malloc_stack", "run", "free"}
OwnedOK ==
    loader.pc \in LoaderPcs \ {"DIE", "undefined"} =>
        /\ owned.fds = printed.stacks + (IF loader.pc \in OpenHere THEN 1 ELSE 0)
        /\ owned.maps = (IF loader.pc \in MappedHere /\ loader.mapping = "mapped" THEN 1 ELSE 0)
        /\ owned.blocks = (IF loader.pc = "malloc_stack" THEN 1
                           ELSE IF loader.pc \in {"run", "free"} THEN 2 ELSE 0)

IInv == RecordsOK /\ SaverOK /\ LoaderOK /\ OwnedOK

-----------------------------------------------------------------------------
\* Writing a byte next to or over the others: still a file, no shorter.
LEMMA WrittenFacts ==
    ASSUME NEW c \in Contents, NEW k \in Nat, 1 <= k, k <= Len(c) + 1, NEW b \in Bytes
    PROVE  /\ Written(c, k, b) \in Contents
           /\ Len(Written(c, k, b)) >= Len(c)
           /\ Len(Written(c, k, b)) >= k
           /\ \A j \in DOMAIN c : j \in DOMAIN Written(c, k, b)
           /\ \A j \in DOMAIN Written(c, k, b) : Written(c, k, b)[j] = IF j = k THEN b ELSE c[j]
<1> DEFINE n == IF k = Len(c) + 1 THEN k ELSE Len(c)
           w == Written(c, k, b)
<1>1. Len(c) \in Nat /\ DOMAIN c = 1..Len(c) /\ \A j \in DOMAIN c : c[j] \in Bytes
  BY DEF Contents
<1>2. n \in Nat /\ DOMAIN c \cup {k} = 1..n
  BY <1>1
<1>3. w = [j \in 1..n |-> IF j = k THEN b ELSE c[j]]
  BY <1>2 DEF Written
<1>4. \A j \in 1..n : (IF j = k THEN b ELSE c[j]) \in Bytes
  BY <1>1
<1>5. w \in Contents /\ Len(w) = n /\ DOMAIN w = 1..n
  BY <1>2, <1>3, <1>4 DEF Contents
<1> HIDE DEF w
<1>6. \A j \in DOMAIN w : w[j] = IF j = k THEN b ELSE c[j]
  BY <1>3, <1>5
<1>7. n >= Len(c) /\ n >= k
  BY <1>1
<1>8. \A j \in DOMAIN c : j \in DOMAIN w
  BY <1>1, <1>5, <1>7
<1> QED BY <1>5, <1>6, <1>7, <1>8 DEF w

-----------------------------------------------------------------------------
LEMMA ConstantFacts ==
    /\ Paths # {} /\ MaxFds \in Nat /\ DOMAIN Program \subseteq Paths
    /\ \A p \in DOMAIN Program : Program[p] \in Contents
    /\ Absent \notin Contents
    /\ Earlier \subseteq [Paths -> Contents \cup {Absent}]
<1>1. ASSUME NEW f \in Earlier
      PROVE  f \in [Paths -> Contents \cup {Absent}]
  BY <1>1, BytecodeConstants DEF Contents
<1> QED BY <1>1, BytecodeConstants DEF Contents

LEMMA Initially == Init => IInv
<1> SUFFICES ASSUME Init PROVE IInv
  OBVIOUS
<1>1. NoPath \in Paths
  BY ConstantFacts DEF NoPath
<1>2. RecordsOK
  BY <1>1, ConstantFacts DEF Init, RecordsOK, LoaderPcs, SaverType, LoaderType, OwnedType, PrintedType, Uint16
<1>3. SaverOK
  BY DEF Init, SaverOK, Saving
<1>4. LoaderOK
  BY DEF Init, LoaderOK
<1>5. OwnedOK
  BY DEF Init, OwnedOK, OpenHere, MappedHere
<1> QED BY <1>2, <1>3, <1>4, <1>5 DEF IInv

\* A step of the saver creates a file or makes it longer: no file disappears
\* or becomes shorter.
LEMMA SaveStep ==
    ASSUME IInv, Save
    PROVE  /\ RecordsOK' /\ SaverOK'
           /\ UNCHANGED <<loader, owned, printed>>
           /\ \A p \in Paths : file[p] \in Contents =>
                 file'[p] \in Contents /\ Len(file'[p]) >= Len(file[p])
           /\ \A p \in DOMAIN Program : Whole(p) => Whole(p)'
<1> USE DEF IInv
<1>u. UNCHANGED <<loader, owned, printed>>
  BY DEF Save, SaveOpen, SaveOpenFails, WriteByte, WriteReturns, WriteFails, SaveClose,
         SaverCrashes
<1>1. ASSUME UNCHANGED file, ~ Saving', saver' \in SaverType
      PROVE  RecordsOK' /\ SaverOK'
  BY <1>u, <1>1 DEF RecordsOK, SaverOK
<1>2. ASSUME UNCHANGED file
      PROVE  /\ \A p \in Paths : file[p] \in Contents =>
                   file'[p] \in Contents /\ Len(file'[p]) >= Len(file[p])
             /\ \A p \in DOMAIN Program : Whole(p) => Whole(p)'
  <2>1. ASSUME NEW p \in Paths, file[p] \in Contents
        PROVE  Len(file[p]) \in Nat
    BY <2>1 DEF Contents
  <2> QED BY <1>2, <2>1 DEF Whole
<1>3. ASSUME NEW ok \in BOOLEAN, SaveReturns(ok), UNCHANGED file
      PROVE  RecordsOK' /\ SaverOK'
  <2>1. saver' \in SaverType
    BY <1>3 DEF SaveReturns, RecordsOK, SaverType
  <2>2. ~ Saving'
    BY <1>3 DEF SaveReturns, Saving, RecordsOK, SaverType
  <2> QED BY <1>1, <1>3, <2>1, <2>2
<1>4. ASSUME NEW p \in DOMAIN Program, SaveOpen(p)
      PROVE  /\ RecordsOK' /\ SaverOK'
             /\ \A q \in Paths : file[q] \in Contents => file'[q] = file[q]
  <2>1. p \in Paths /\ Program[p] \in Contents
    BY ConstantFacts
  <2>2. <<>> \in Contents /\ Opened(p) \in Contents
    BY <2>1 DEF Opened, RecordsOK, Contents
  <2>3. file' \in [Paths -> Contents \cup {Absent}] /\ file'[p] = Opened(p)
    BY <1>4, <2>1, <2>2 DEF SaveOpen, RecordsOK
  <2>4. \A q \in Paths : q # p => file'[q] = file[q]
    BY <1>4, <2>1 DEF SaveOpen, RecordsOK
  <2>5. file[p] \in Contents => file'[p] = file[p]
    BY <2>3, ConstantFacts DEF Opened
  <2>6. /\ saver' \in SaverType
        /\ saver'.pc = "write" /\ saver'.path = p /\ saver'.at = 0
    BY <1>4, <2>1 DEF SaveOpen, RecordsOK, SaverType
  <2>7. RecordsOK'
    BY <1>u, <2>3, <2>6 DEF RecordsOK
  <2>8. Len(Program[p]) >= 0 /\ Len(file'[p]) >= 0
    BY <2>1, <2>2, <2>3 DEF Contents
  <2>9. SaverOK'
    BY <2>2, <2>3, <2>6, <2>8 DEF SaverOK
  <2> QED BY <2>4, <2>5, <2>7, <2>9
<1>5. ASSUME NEW p \in DOMAIN Program, SaveOpen(p)
      PROVE  /\ \A q \in Paths : file[q] \in Contents =>
                   file'[q] \in Contents /\ Len(file'[q]) >= Len(file[q])
             /\ \A q \in DOMAIN Program : Whole(q) => Whole(q)'
  <2>1. ASSUME NEW q \in Paths, file[q] \in Contents
        PROVE  file'[q] = file[q] /\ Len(file[q]) >= 0
    <3>1. file'[q] = file[q]
      BY <1>4, <1>5, <2>1
    <3>2. Len(file[q]) \in Nat
      BY <2>1 DEF Contents
    <3> QED BY <3>1, <3>2
  <2>2. ASSUME NEW q \in DOMAIN Program, Whole(q)
        PROVE  Whole(q)'
    <3>1. file[q] \in Contents /\ q \in Paths
      BY <2>2, ConstantFacts DEF Whole, RecordsOK
    <3>2. file'[q] = file[q] /\ file[q] # Absent
      BY <2>1, <2>2, <3>1 DEF Whole
    <3> QED BY <2>2, <3>2 DEF Whole
  <2>3. ASSUME NEW q \in Paths, file[q] \in Contents
        PROVE  file'[q] \in Contents /\ Len(file'[q]) >= Len(file[q])
    <3>1. Len(file[q]) \in Nat
      BY <2>3 DEF Contents
    <3> QED BY <2>1, <2>3, <3>1
  <2> QED BY <2>2, <2>3
<1>6. ASSUME WriteByte
      PROVE  /\ RecordsOK' /\ SaverOK'
             /\ \A q \in Paths : file[q] \in Contents =>
                   file'[q] \in Contents /\ Len(file'[q]) >= Len(file[q])
             /\ \A q \in DOMAIN Program : Whole(q) => Whole(q)'
  <2> DEFINE p == saver.path
             k == saver.at + 1
             b == Program[p][k]
             w == Written(file[p], k, b)
  <2>1. /\ p \in DOMAIN Program /\ p \in Paths /\ Program[p] \in Contents
        /\ file[p] \in Contents /\ saver.at \in Nat
    BY <1>6, ConstantFacts DEF WriteByte, SaverOK, Saving, RecordsOK, SaverType
  <2>2. /\ k \in Nat /\ 1 <= k /\ k <= Len(file[p]) + 1 /\ k <= Len(Program[p])
        /\ b \in Bytes
    <3>1. Len(Program[p]) \in Nat /\ Len(file[p]) \in Nat
      BY <2>1 DEF Contents
    <3>2. saver.at < Len(Program[p]) /\ saver.at <= Len(file[p])
      BY <1>6 DEF WriteByte, SaverOK, Saving
    <3>3. k \in 1..Len(Program[p]) /\ k <= Len(file[p]) + 1
      BY <2>1, <3>1, <3>2
    <3> QED BY <2>1, <3>1, <3>3 DEF Contents
  <2>3. /\ w \in Contents
        /\ Len(w) >= Len(file[p])
        /\ Len(w) >= k
        /\ \A j \in DOMAIN file[p] : j \in DOMAIN w
        /\ \A j \in DOMAIN w : w[j] = IF j = k THEN b ELSE file[p][j]
    BY SMTT(30), <2>1, <2>2, WrittenFacts
  <2>4. file' = [file EXCEPT ![p] = w] /\ saver' = [saver EXCEPT !.at = k]
    BY <1>6 DEF WriteByte
  <2> HIDE DEF w, b, k
  <2>5. /\ file' \in [Paths -> Contents \cup {Absent}] /\ file'[p] = w
        /\ \A q \in Paths : q # p => file'[q] = file[q]
    BY <2>1, <2>3, <2>4 DEF RecordsOK
  <2>6. /\ saver' \in SaverType
        /\ saver'.path = p /\ saver'.at = k
    BY <2>2, <2>4 DEF RecordsOK, SaverType
  <2>7. RecordsOK'
    BY <1>u, <2>5, <2>6 DEF RecordsOK
  <2>8. SaverOK'
    BY <2>1, <2>2, <2>3, <2>5, <2>6 DEF SaverOK
  <2>9. ASSUME NEW q \in Paths, file[q] \in Contents
        PROVE  file'[q] \in Contents /\ Len(file'[q]) >= Len(file[q])
    <3>1. Len(file[q]) \in Nat
      BY <2>9 DEF Contents
    <3>2. CASE q = p
      BY <2>3, <2>5, <3>2
    <3>3. CASE q # p
      BY <2>5, <2>9, <3>1, <3>3
    <3> QED BY <3>2, <3>3
  <2>10. ASSUME NEW q \in DOMAIN Program, Whole(q)
         PROVE  Whole(q)'
    <3>1. q \in Paths /\ file[q] # Absent
      BY <2>10, ConstantFacts DEF Whole
    <3>2. CASE q # p
      BY <2>5, <2>10, <3>1, <3>2 DEF Whole
    <3>3. CASE q = p
      <4>1. w # Absent
        BY <2>3, ConstantFacts
      <4>2. ASSUME NEW j \in DOMAIN Program[q]
            PROVE  j \in DOMAIN w /\ w[j] = Program[q][j]
        <5>1. j \in DOMAIN file[p] /\ file[p][j] = Program[q][j]
          BY <2>10, <3>3, <4>2 DEF Whole
        <5>2. j \in DOMAIN w /\ w[j] = IF j = k THEN b ELSE file[p][j]
          BY <2>3, <5>1
        <5> QED BY <3>3, <5>1, <5>2 DEF b
      <4> QED BY <2>5, <2>10, <3>3, <4>1, <4>2 DEF Whole
    <3> QED BY <3>2, <3>3
  <2> QED BY <2>7, <2>8, <2>9, <2>10
<1>7. ASSUME WriteReturns
      PROVE  RecordsOK' /\ SaverOK' /\ UNCHANGED file
  <2>1. /\ saver' \in SaverType
        /\ saver'.path = saver.path /\ saver'.at = saver.at /\ UNCHANGED file
    BY <1>7 DEF WriteReturns, RecordsOK, SaverType
  <2>2. Saving
    BY <1>7 DEF WriteReturns, Saving
  <2> QED BY <1>u, <2>1, <2>2 DEF RecordsOK, SaverOK
<1>8. CASE \E p \in DOMAIN Program : SaveOpen(p)
  BY <1>u, <1>4, <1>5, <1>8
<1>9. CASE WriteByte
  BY <1>u, <1>6, <1>9
<1>10. CASE WriteReturns
  BY <1>u, <1>2, <1>7, <1>10
<1>11. CASE SaveOpenFails \/ WriteFails \/ SaveClose \/ SaverCrashes
  <2>1. UNCHANGED file /\ \E ok \in BOOLEAN : SaveReturns(ok)
    BY <1>11 DEF SaveOpenFails, WriteFails, SaveClose, SaverCrashes
  <2> QED BY <1>u, <1>2, <1>3, <2>1
<1> QED BY <1>8, <1>9, <1>10, <1>11 DEF Save

\* A step of the loader keeps the books.
LEMMA LoadAndRunStep ==
    ASSUME IInv, LoadAndRun
    PROVE  RecordsOK' /\ SaverOK' /\ LoaderOK' /\ OwnedOK' /\ UNCHANGED <<file, saver>>
<1> USE DEF IInv
<1>u. UNCHANGED <<file, saver>>
  BY DEF LoadAndRun, LoadOpen, LoadOpenFails, Fstat, FstatFails, Mmap, MallocAreas,
         MallocAreasFails, MallocStack, MallocStackFails, Halts, Dies, RunsAnything,
         FreeAndReturn, LoadStep, LoadReturns
<1>s. SaverOK'
  BY <1>u DEF SaverOK, Saving
<1>f. /\ loader.path \in Paths /\ MaxFds \in Nat
      /\ file[loader.path] \in Contents \cup {Absent}
      /\ file[loader.path] \in Contents => Len(file[loader.path]) \in Nat
  BY ConstantFacts DEF RecordsOK, LoaderType, Contents
<1>1. CASE LoadOpen
  <2>1. loader' \in LoaderType
    BY <1>f, <1>1 DEF LoadOpen, LoadStep, Get, RecordsOK, LoaderOK, LoaderType, LoaderPcs
  <2>2. owned' \in OwnedType
    BY <1>f, <1>1 DEF LoadOpen, LoadStep, Get, RecordsOK, OwnedType, PrintedType,
       LoaderOK, OwnedOK, LoaderPcs, OpenHere, MappedHere
  <2>3. printed' \in PrintedType
    BY <1>1 DEF LoadOpen, LoadStep, Get, RecordsOK, PrintedType
  <2>4. LoaderOK'
    BY <1>u, <1>f, <1>1 DEF LoadOpen, LoadStep, Get, LoaderOK, RecordsOK, LoaderType
  <2>5. OwnedOK'
    BY <1>f, <1>1 DEF LoadOpen, LoadStep, Get, LoaderOK, RecordsOK, LoaderType, LoaderPcs,
       OwnedType, PrintedType, OwnedOK, OpenHere, MappedHere
  <2> QED BY <1>u, <1>s, <2>1, <2>2, <2>3, <2>4, <2>5 DEF RecordsOK
<1>2. CASE LoadOpenFails
  <2>1. loader' \in LoaderType
    BY <1>f, <1>2 DEF LoadOpenFails, LoadReturns, RecordsOK, LoaderOK, LoaderType, LoaderPcs
  <2>2. owned' \in OwnedType
    BY <1>f, <1>2 DEF LoadOpenFails, LoadReturns, RecordsOK, OwnedType, PrintedType,
       LoaderOK, OwnedOK, LoaderPcs, OpenHere, MappedHere
  <2>3. printed' \in PrintedType
    BY <1>2 DEF LoadOpenFails, LoadReturns, RecordsOK, PrintedType
  <2>4. LoaderOK'
    BY <1>u, <1>f, <1>2 DEF LoadOpenFails, LoadReturns, LoaderOK, RecordsOK, LoaderType
  <2>5. OwnedOK'
    BY <1>f, <1>2 DEF LoadOpenFails, LoadReturns, LoaderOK, RecordsOK, LoaderType, LoaderPcs,
       OwnedType, PrintedType, OwnedOK, OpenHere, MappedHere
  <2> QED BY <1>u, <1>s, <2>1, <2>2, <2>3, <2>4, <2>5 DEF RecordsOK
<1>3. CASE Fstat
  <2>1. loader' \in LoaderType
    BY <1>f, <1>3 DEF Fstat, RecordsOK, LoaderOK, LoaderType, LoaderPcs
  <2>2. owned' \in OwnedType
    BY <1>f, <1>3 DEF Fstat, RecordsOK, OwnedType, PrintedType,
       LoaderOK, OwnedOK, LoaderPcs, OpenHere, MappedHere
  <2>3. printed' \in PrintedType
    BY <1>3 DEF Fstat, RecordsOK, PrintedType
  <2>4. LoaderOK'
    BY <1>u, <1>f, <1>3 DEF Fstat, LoaderOK, RecordsOK, LoaderType
  <2>5. OwnedOK'
    BY <1>f, <1>3 DEF Fstat, LoaderOK, RecordsOK, LoaderType, LoaderPcs,
       OwnedType, PrintedType, OwnedOK, OpenHere, MappedHere
  <2> QED BY <1>u, <1>s, <2>1, <2>2, <2>3, <2>4, <2>5 DEF RecordsOK
<1>4. CASE FstatFails
  <2>1. loader' \in LoaderType
    BY <1>f, <1>4 DEF FstatFails, LoadReturns, Release, RecordsOK, LoaderOK, LoaderType, LoaderPcs
  <2>2. owned' \in OwnedType
    BY <1>f, <1>4 DEF FstatFails, LoadReturns, Release, RecordsOK, OwnedType, PrintedType,
       LoaderOK, OwnedOK, LoaderPcs, OpenHere, MappedHere
  <2>3. printed' \in PrintedType
    BY <1>4 DEF FstatFails, LoadReturns, Release, RecordsOK, PrintedType
  <2>4. LoaderOK'
    BY <1>u, <1>f, <1>4 DEF FstatFails, LoadReturns, Release, LoaderOK, RecordsOK, LoaderType
  <2>5. OwnedOK'
    BY <1>f, <1>4 DEF FstatFails, LoadReturns, Release, LoaderOK, RecordsOK, LoaderType, LoaderPcs,
       OwnedType, PrintedType, OwnedOK, OpenHere, MappedHere
  <2> QED BY <1>u, <1>s, <2>1, <2>2, <2>3, <2>4, <2>5 DEF RecordsOK
<1>5. CASE Mmap
  <2>1. loader' \in LoaderType
    BY <1>f, <1>5 DEF Mmap, Get, RecordsOK, LoaderOK, LoaderType, LoaderPcs
  <2>2. owned' \in OwnedType
    BY <1>f, <1>5 DEF Mmap, Get, RecordsOK, OwnedType, PrintedType,
       LoaderOK, OwnedOK, LoaderPcs, OpenHere, MappedHere
  <2>3. printed' \in PrintedType
    BY <1>5 DEF Mmap, Get, RecordsOK, PrintedType
  <2>4. LoaderOK'
    BY <1>u, <1>f, <1>5 DEF Mmap, Get, LoaderOK, RecordsOK, LoaderType
  <2>5. OwnedOK'
    <3>1. /\ loader.pc = "mmap" /\ loader'.pc = "malloc" /\ UNCHANGED printed
          /\ \/ loader'.mapping = "mapped" /\ Get("maps")
             \/ loader'.mapping = "MAP_FAILED" /\ UNCHANGED owned
      BY <1>5 DEF Mmap, RecordsOK, LoaderType
    <3>2. /\ owned.fds = printed.stacks + 1 /\ owned.maps = 0 /\ owned.blocks = 0
          /\ owned'.fds = owned.fds /\ owned'.blocks = owned.blocks
          /\ owned'.maps = IF loader'.mapping = "mapped" THEN 1 ELSE 0
      BY <3>1 DEF Get, RecordsOK, OwnedType, OwnedOK, LoaderPcs, OpenHere, MappedHere
    <3> QED BY <3>1, <3>2 DEF OwnedOK, OpenHere, MappedHere
  <2> QED BY <1>u, <1>s, <2>1, <2>2, <2>3, <2>4, <2>5 DEF RecordsOK
<1>6. CASE MallocAreas
  <2>1. loader' \in LoaderType
    BY <1>f, <1>6 DEF MallocAreas, LoadStep, Get, RecordsOK, LoaderOK, LoaderType, LoaderPcs
  <2>2. owned' \in OwnedType
    BY <1>f, <1>6 DEF MallocAreas, LoadStep, Get, RecordsOK, OwnedType, PrintedType,
       LoaderOK, OwnedOK, LoaderPcs, OpenHere, MappedHere
  <2>3. printed' \in PrintedType
    <3>1. <<loader.stacklen, loader.heaplen>> \in Uint16 \X Uint16
      BY DEF RecordsOK, LoaderType
    <3> DEFINE pair == <<loader.stacklen, loader.heaplen>>
    <3>2. printed' = [printed EXCEPT !.malloc_process = Append(printed.malloc_process, pair)]
      BY <1>6 DEF MallocAreas, LoadStep, Get
    <3> HIDE DEF pair
    <3>3. Append(printed.malloc_process, pair) \in Seq(Uint16 \X Uint16)
      BY <3>1 DEF RecordsOK, PrintedType, pair
    <3> QED BY <3>2, <3>3 DEF RecordsOK, PrintedType
  <2>4. LoaderOK'
    BY <1>u, <1>f, <1>6 DEF MallocAreas, LoadStep, Get, LoaderOK, RecordsOK, LoaderType
  <2>5. OwnedOK'
    BY <1>f, <1>6 DEF MallocAreas, LoadStep, Get, LoaderOK, RecordsOK, LoaderType, LoaderPcs,
       OwnedType, PrintedType, OwnedOK, OpenHere, MappedHere
  <2> QED BY <1>u, <1>s, <2>1, <2>2, <2>3, <2>4, <2>5 DEF RecordsOK
<1>7. CASE MallocAreasFails
  <2>1. loader' \in LoaderType
    BY <1>f, <1>7 DEF MallocAreasFails, LoadStep, RecordsOK, LoaderOK, LoaderType, LoaderPcs
  <2>2. owned' \in OwnedType
    BY <1>f, <1>7 DEF MallocAreasFails, LoadStep, RecordsOK, OwnedType, PrintedType,
       LoaderOK, OwnedOK, LoaderPcs, OpenHere, MappedHere
  <2>3. printed' \in PrintedType
    <3>1. <<loader.stacklen, loader.heaplen>> \in Uint16 \X Uint16
      BY DEF RecordsOK, LoaderType
    <3> DEFINE pair == <<loader.stacklen, loader.heaplen>>
    <3>2. printed' = [printed EXCEPT !.malloc_process = Append(printed.malloc_process, pair)]
      BY <1>7 DEF MallocAreasFails, LoadStep
    <3> HIDE DEF pair
    <3>3. Append(printed.malloc_process, pair) \in Seq(Uint16 \X Uint16)
      BY <3>1 DEF RecordsOK, PrintedType, pair
    <3> QED BY <3>2, <3>3 DEF RecordsOK, PrintedType
  <2>4. LoaderOK'
    BY <1>u, <1>f, <1>7 DEF MallocAreasFails, LoadStep, LoaderOK, RecordsOK, LoaderType
  <2>5. OwnedOK'
    BY <1>f, <1>7 DEF MallocAreasFails, LoadStep, LoaderOK, RecordsOK, LoaderType, LoaderPcs,
       OwnedType, PrintedType, OwnedOK, OpenHere, MappedHere
  <2> QED BY <1>u, <1>s, <2>1, <2>2, <2>3, <2>4, <2>5 DEF RecordsOK
<1>8. CASE MallocStack
  <2>1. loader' \in LoaderType
    BY <1>f, <1>8 DEF MallocStack, LoadStep, Get, RecordsOK, LoaderOK, LoaderType, LoaderPcs
  <2>2. owned' \in OwnedType
    <3>1. loader.pc = "malloc_stack"
      BY <1>8 DEF MallocStack, LoadStep, Get
    <3>2. owned.blocks = 1
      BY <3>1 DEF LoaderOK, OwnedOK, LoaderPcs, OpenHere, MappedHere
    <3> QED BY <1>8, <3>2 DEF MallocStack, LoadStep, Get, RecordsOK, OwnedType
  <2>3. printed' \in PrintedType
    BY <1>8 DEF MallocStack, LoadStep, Get, RecordsOK, PrintedType
  <2>4. LoaderOK'
    BY <1>u, <1>f, <1>8 DEF MallocStack, LoadStep, Get, LoaderOK, RecordsOK, LoaderType
  <2>5. OwnedOK'
    BY <1>f, <1>8 DEF MallocStack, LoadStep, Get, LoaderOK, RecordsOK, LoaderType, LoaderPcs,
       OwnedType, PrintedType, OwnedOK, OpenHere, MappedHere
  <2> QED BY <1>u, <1>s, <2>1, <2>2, <2>3, <2>4, <2>5 DEF RecordsOK
<1>9. CASE MallocStackFails
  <2>1. loader' \in LoaderType
    BY <1>f, <1>9 DEF MallocStackFails, LoadStep, Release, RecordsOK, LoaderOK, LoaderType, LoaderPcs
  <2>2. owned' \in OwnedType
    <3>1. loader.pc = "malloc_stack"
      BY <1>9 DEF MallocStackFails, LoadStep, Release
    <3>2. owned.blocks = 1
      BY <3>1 DEF LoaderOK, OwnedOK, LoaderPcs, OpenHere, MappedHere
    <3> QED BY <1>9, <3>2 DEF MallocStackFails, LoadStep, Release, RecordsOK, OwnedType
  <2>3. printed' \in PrintedType
    BY <1>9 DEF MallocStackFails, LoadStep, Release, RecordsOK, PrintedType
  <2>4. LoaderOK'
    BY <1>u, <1>f, <1>9 DEF MallocStackFails, LoadStep, Release, LoaderOK, RecordsOK, LoaderType
  <2>5. OwnedOK'
    BY <1>f, <1>9 DEF MallocStackFails, LoadStep, Release, LoaderOK, RecordsOK, LoaderType, LoaderPcs,
       OwnedType, PrintedType, OwnedOK, OpenHere, MappedHere
  <2> QED BY <1>u, <1>s, <2>1, <2>2, <2>3, <2>4, <2>5 DEF RecordsOK
<1>10. CASE Halts
  <2>1. loader' \in LoaderType
    BY <1>f, <1>10 DEF Halts, LoadStep, RecordsOK, LoaderOK, LoaderType, LoaderPcs
  <2>2. owned' \in OwnedType
    BY <1>f, <1>10 DEF Halts, LoadStep, RecordsOK, OwnedType, PrintedType,
       LoaderOK, OwnedOK, LoaderPcs, OpenHere, MappedHere
  <2>3. printed' \in PrintedType
    BY SMTT(30), <1>10 DEF Halts, LoadStep, RecordsOK, PrintedType
  <2>4. LoaderOK'
    BY <1>u, <1>f, <1>10 DEF Halts, LoadStep, LoaderOK, RecordsOK, LoaderType
  <2>5. OwnedOK'
    BY <1>f, <1>10 DEF Halts, LoadStep, LoaderOK, RecordsOK, LoaderType, LoaderPcs,
       OwnedType, PrintedType, OwnedOK, OpenHere, MappedHere
  <2> QED BY <1>u, <1>s, <2>1, <2>2, <2>3, <2>4, <2>5 DEF RecordsOK
<1>11. CASE Dies
  <2>1. loader' \in LoaderType
    BY <1>f, <1>11 DEF Dies, LoadStep, RecordsOK, LoaderOK, LoaderType, LoaderPcs
  <2>2. owned' \in OwnedType
    BY <1>f, <1>11 DEF Dies, LoadStep, RecordsOK, OwnedType, PrintedType,
       LoaderOK, OwnedOK, LoaderPcs, OpenHere, MappedHere
  <2>3. printed' \in PrintedType
    BY <1>11 DEF Dies, LoadStep, RecordsOK, PrintedType
  <2>4. LoaderOK'
    BY <1>u, <1>f, <1>11 DEF Dies, LoadStep, LoaderOK, RecordsOK, LoaderType
  <2>5. OwnedOK'
    BY <1>f, <1>11 DEF Dies, LoadStep, LoaderOK, RecordsOK, LoaderType, LoaderPcs,
       OwnedType, PrintedType, OwnedOK, OpenHere, MappedHere
  <2> QED BY <1>u, <1>s, <2>1, <2>2, <2>3, <2>4, <2>5 DEF RecordsOK
<1>12. CASE RunsAnything
  <2>1. loader' \in LoaderType
    BY <1>f, <1>12 DEF RunsAnything, LoadStep, RecordsOK, LoaderOK, LoaderType, LoaderPcs
  <2>2. owned' \in OwnedType
    BY <1>f, <1>12 DEF RunsAnything, LoadStep, RecordsOK, OwnedType, PrintedType,
       LoaderOK, OwnedOK, LoaderPcs, OpenHere, MappedHere
  <2>3. printed' \in PrintedType
    BY <1>12 DEF RunsAnything, LoadStep, RecordsOK, PrintedType
  <2>4. LoaderOK'
    BY <1>u, <1>f, <1>12 DEF RunsAnything, LoadStep, LoaderOK, RecordsOK, LoaderType
  <2>5. OwnedOK'
    BY <1>f, <1>12 DEF RunsAnything, LoadStep, LoaderOK, RecordsOK, LoaderType, LoaderPcs,
       OwnedType, PrintedType, OwnedOK, OpenHere, MappedHere
  <2> QED BY <1>u, <1>s, <2>1, <2>2, <2>3, <2>4, <2>5 DEF RecordsOK
<1>13. CASE FreeAndReturn
  <2>1. loader' \in LoaderType
    BY <1>f, <1>13 DEF FreeAndReturn, LoadReturns, RecordsOK, LoaderOK, LoaderType, LoaderPcs
  <2>2. owned' \in OwnedType
    <3>1. loader.pc = "free"
      BY <1>13 DEF FreeAndReturn, LoadReturns
    <3>m. loader.mapping = "mapped"
      BY <3>1 DEF LoaderOK
    <3>b. owned.blocks = 2
      BY <3>1 DEF OwnedOK, LoaderPcs
    <3>2. owned.blocks = 2 /\ owned.maps = 1
      BY <3>1, <3>m, <3>b DEF OwnedOK, LoaderPcs, MappedHere
    <3>3. owned' = [owned EXCEPT !.blocks = 0, !.maps = 0]
      BY <1>13, <3>2 DEF FreeAndReturn
    <3>4. owned' = [fds |-> owned.fds, blocks |-> 0, maps |-> 0] /\ owned.fds \in 0..MaxFds
      BY <3>3 DEF RecordsOK, OwnedType
    <3> QED BY <3>4 DEF OwnedType
  <2>3. printed' \in PrintedType
    BY <1>13 DEF FreeAndReturn, LoadReturns, RecordsOK, PrintedType
  <2>4. LoaderOK'
    BY <1>u, <1>f, <1>13 DEF FreeAndReturn, LoadReturns, LoaderOK, RecordsOK, LoaderType
  <2>5. OwnedOK'
    BY <1>f, <1>13 DEF FreeAndReturn, LoadReturns, LoaderOK, RecordsOK, LoaderType, LoaderPcs,
       OwnedType, PrintedType, OwnedOK, OpenHere, MappedHere
  <2> QED BY <1>u, <1>s, <2>1, <2>2, <2>3, <2>4, <2>5 DEF RecordsOK
<1> QED BY <1>1, <1>2, <1>3, <1>4, <1>5, <1>6, <1>7, <1>8, <1>9, <1>10, <1>11, <1>12, <1>13 DEF LoadAndRun

\* The call of another file begins with nothing owned but the descriptors
\* that stayed open.
LEMMA CallStep ==
    ASSUME IInv, NEW p \in Paths, NEW stacklen \in Uint16, NEW heaplen \in Uint16,
           Load(p, stacklen, heaplen)
    PROVE  RecordsOK' /\ SaverOK' /\ LoaderOK' /\ OwnedOK' /\ UNCHANGED <<file, saver>>
<1> USE DEF IInv
<1>1. UNCHANGED <<file, saver, owned>> /\ SaverOK'
  BY DEF Load, SaverOK, Saving
<1>2. /\ loader' \in LoaderType /\ loader'.pc = "open"
      /\ loader.pc \in {"idle", "returned"}
  BY DEF Load, RecordsOK, LoaderType, LoaderPcs
<1>3. /\ printed' \in PrintedType /\ printed'.stacks = printed.stacks
  <2>1. Append(printed.loading, p) \in Seq(Paths)
    BY DEF RecordsOK, PrintedType
  <2> QED BY <2>1 DEF Load, RecordsOK, PrintedType
<1>4. LoaderOK'
  BY <1>2 DEF LoaderOK
<1>5. OwnedOK'
  BY <1>1, <1>2, <1>3 DEF OwnedOK, LoaderPcs, OpenHere, MappedHere
<1> QED BY <1>1, <1>2, <1>3, <1>4, <1>5 DEF RecordsOK

\* A step of the saver leaves the file that is open in place and no shorter.
LEMMA OpenFileStays ==
    ASSUME IInv, Save
    PROVE  LoaderOK' /\ OwnedOK'
<1> USE DEF IInv
<1>1. /\ UNCHANGED <<loader, owned, printed>>
      /\ \A p \in Paths : file[p] \in Contents =>
            file'[p] \in Contents /\ Len(file'[p]) >= Len(file[p])
  BY SaveStep
<1>2. loader.path \in Paths /\ loader.st_size \in Nat
  BY DEF RecordsOK, LoaderType
<1>3. file[loader.path] \in Contents =>
         /\ Len(file[loader.path]) \in Nat
         /\ file'[loader.path] \in Contents /\ Len(file'[loader.path]) \in Nat
         /\ Len(file'[loader.path]) >= Len(file[loader.path])
  BY <1>1, <1>2 DEF Contents
<1>4. LoaderOK'
  BY <1>1, <1>2, <1>3 DEF LoaderOK
<1>5. OwnedOK'
  BY <1>1 DEF OwnedOK
<1> QED BY <1>4, <1>5

LEMMA Inductive == IInv /\ [Next]_vars => IInv'
<1> SUFFICES ASSUME IInv, [Next]_vars PROVE IInv'
  OBVIOUS
<1>1. CASE Save
  BY <1>1, SaveStep, OpenFileStays DEF IInv
<1>2. CASE LoadAndRun
  BY <1>2, LoadAndRunStep DEF IInv
<1>3. CASE \E p \in Paths, stacklen \in Uint16, heaplen \in Uint16 : Load(p, stacklen, heaplen)
  BY <1>3, CallStep DEF IInv
<1>4. CASE UNCHANGED vars
  BY <1>4 DEF vars, IInv, RecordsOK, SaverOK, Saving, LoaderOK, OwnedOK
<1> QED BY <1>1, <1>2, <1>3, <1>4 DEF Next

THEOREM BytecodeInvariant == Spec => []IInv
  BY Initially, Inductive, PTL DEF Spec

-----------------------------------------------------------------------------
\* The state has its type; in particular no more descriptors are open than
\* there may be, and a process is two blocks.
THEOREM BytecodeTypeCorrect == Spec => []TypeOK
<1>1. IInv => TypeOK
  <2> SUFFICES ASSUME IInv PROVE TypeOK
    OBVIOUS
  <2>1. Saving => saver.path \in DOMAIN Program /\ saver.at \in 0..Len(Program[saver.path])
    <3> SUFFICES ASSUME Saving
                 PROVE  saver.path \in DOMAIN Program /\ saver.at \in 0..Len(Program[saver.path])
      OBVIOUS
    <3>1. /\ saver.path \in DOMAIN Program /\ saver.at \in Nat
          /\ saver.at <= Len(Program[saver.path])
      BY DEF IInv, SaverOK, RecordsOK, SaverType
    <3>2. Len(Program[saver.path]) \in Nat
      BY <3>1, ConstantFacts DEF Contents
    <3> QED BY <3>1, <3>2
  <2> QED BY <2>1 DEF IInv, TypeOK, RecordsOK, SaverType, LoaderType, LoaderPcs, OwnedType
<1> QED BY <1>1, BytecodeInvariant, PTL

\* bytecode_write_file never makes a mapped file shorter than the mapping:
\* the run of a program cannot end in SIGBUS.
THEOREM MappingsStayBacked == Spec => []MappingBacked
<1>1. IInv => MappingBacked
  <2> SUFFICES ASSUME IInv, loader.pc \in {"malloc", "malloc_stack", "run"}, loader.mapping = "mapped"
               PROVE  /\ file[loader.path] # Absent
                      /\ Len(file[loader.path]) >= loader.st_size /\ loader.st_size > 0
    BY DEF MappingBacked
  <2>1. file[loader.path] \in Contents /\ loader.st_size <= Len(file[loader.path]) /\ loader.st_size > 0
    BY DEF IInv, LoaderOK
  <2>2. Len(file[loader.path]) \in Nat /\ loader.st_size \in Nat
    BY <2>1 DEF IInv, RecordsOK, LoaderType, Contents
  <2> QED BY <2>1, <2>2, ConstantFacts
<1> QED BY <1>1, BytecodeInvariant, PTL

\* Every way out of bytecode_load_and_run gives back what was taken, but for
\* the descriptor of each file that ran to its halt.
THEOREM AllReleased == Spec => []Released
<1>1. IInv => Released
  <2> SUFFICES ASSUME IInv, loader.pc \in {"idle", "returned"}
               PROVE  owned = [fds |-> printed.stacks, blocks |-> 0, maps |-> 0]
    BY DEF Released
  <2>1. owned.fds = printed.stacks /\ owned.maps = 0 /\ owned.blocks = 0
    BY ConstantFacts DEF IInv, OwnedOK, LoaderPcs, OpenHere, MappedHere, RecordsOK, PrintedType, OwnedType
  <2>2. owned = [fds |-> owned.fds, blocks |-> owned.blocks, maps |-> owned.maps]
    BY DEF IInv, RecordsOK, OwnedType
  <2> QED BY <2>1, <2>2
<1> QED BY <1>1, BytecodeInvariant, PTL

\* A program that a file holds is never lost to another save of it, at
\* whatever byte that save stops.
THEOREM SavedStaysSaved == Spec => Durable
<1>1. IInv /\ [Next]_vars => [\A p \in DOMAIN Program : Whole(p) => Whole(p)']_vars
  <2> SUFFICES ASSUME IInv, Next, NEW p \in DOMAIN Program, Whole(p)
               PROVE  Whole(p)'
    OBVIOUS
  <2>1. CASE Save
    BY <2>1, SaveStep
  <2>2. CASE ~ Save
    <3>1. UNCHANGED file
      BY <2>2, LoadAndRunStep, CallStep DEF Next
    <3> QED BY <3>1 DEF Whole
  <2> QED BY <2>1, <2>2
<1> QED BY <1>1, BytecodeInvariant, PTL DEF Spec, Durable
=============================================================================
