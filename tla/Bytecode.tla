------------------------------ MODULE Bytecode ------------------------------
(***************************************************************************)
(* Bytecode files: bytecode_write_file, called by vmtest, and              *)
(* bytecode_load_and_run, called by lilyvm, in two operating system        *)
(* processes that share the files and know nothing of each other.  Either  *)
(* has one call at a time.  The system calls may fail; vmtest may be       *)
(* killed and run again.                                                   *)
(*                                                                         *)
(* A file is the sequence of its bytes.  What the interpreter makes of the *)
(* bytes is in VM; here a run ends by halt or by DIE, or is undefined.     *)
(***************************************************************************)
EXTENDS Integers, Sequences

CONSTANTS
    Paths,      \* the names files may have
    Absent,     \* in place of a file that does not exist
    Program,    \* for the paths that vmtest writes: the bytecode
    Earlier,    \* what the files may be at first
    MaxFds      \* descriptors lilyvm may have open

Bytes == 0..255
Uint16 == 0..65535

ASSUME BytecodeConstants ==
    /\ Paths # {} /\ MaxFds \in Nat
    /\ DOMAIN Program \subseteq Paths
    /\ \A p \in DOMAIN Program : Program[p] \in Seq(Bytes)
    /\ Absent \notin Seq(Bytes)
    /\ \A f \in Earlier : /\ f \in [Paths -> {f[p] : p \in Paths}]
                          /\ \A p \in Paths : f[p] = Absent \/ f[p] \in Seq(Bytes)

VARIABLES
    file,       \* the files
    saver,      \* bytecode_write_file
    loader,     \* bytecode_load_and_run
    owned,      \* what lilyvm has of the operating system and of malloc
    printed     \* what lilyvm has printed

vars == <<file, saver, loader, owned, printed>>

-----------------------------------------------------------------------------
(***************************************************************************)
(* bytecode_write_file                                                     *)
(***************************************************************************)
Saving == saver.pc # "idle"
SaveReturns(ok) == saver' = [saver EXCEPT !.pc = "idle", !.result = ok]

\* Fault: O_TRUNC
Truncated(p) == <<>>
\* O_CREAT, and no O_TRUNC
Opened(p) == IF file[p] = Absent THEN <<>> ELSE file[p]

SaveOpen(p) ==
    /\ ~ Saving
    /\ file' = [file EXCEPT ![p] = Opened(p)]
    /\ saver' = [saver EXCEPT !.pc = "write", !.path = p, !.at = 0]
    /\ UNCHANGED <<loader, owned, printed>>
SaveOpenFails ==
    /\ ~ Saving
    /\ SaveReturns(FALSE)
    /\ UNCHANGED <<file, loader, owned, printed>>

\* Content c with byte b at position k, which is in it or next to it
Written(c, k, b) == [j \in DOMAIN c \cup {k} |-> IF j = k THEN b ELSE c[j]]

\* Within write: another byte is in the file.
WriteByte ==
    /\ saver.pc = "write" /\ saver.at < Len(Program[saver.path])
    /\ file' = [file EXCEPT ![saver.path] =
                   Written(file[saver.path], saver.at + 1, Program[saver.path][saver.at + 1])]
    /\ saver' = [saver EXCEPT !.at = saver.at + 1]
    /\ UNCHANGED <<loader, owned, printed>>

\* write returns a number of bytes, which nobody looks at.
WriteReturns ==
    /\ saver.pc = "write" /\ (saver.at = 0 => Program[saver.path] = <<>>)
    /\ saver' = [saver EXCEPT !.pc = "close"]
    /\ UNCHANGED <<file, loader, owned, printed>>
WriteFails ==
    /\ saver.pc = "write" /\ saver.at = 0
    /\ SaveReturns(FALSE)
    /\ UNCHANGED <<file, loader, owned, printed>>
SaveClose ==
    /\ saver.pc = "close"
    /\ \E ok \in BOOLEAN : SaveReturns(ok)
    /\ UNCHANGED <<file, loader, owned, printed>>

\* vmtest is killed; the next one has called nothing yet.
SaverCrashes ==
    /\ Saving
    /\ SaveReturns(FALSE)
    /\ UNCHANGED <<file, loader, owned, printed>>

Save == \/ \E p \in DOMAIN Program : SaveOpen(p)
        \/ SaveOpenFails \/ WriteByte \/ WriteReturns \/ WriteFails \/ SaveClose \/ SaverCrashes

-----------------------------------------------------------------------------
(***************************************************************************)
(* bytecode_load_and_run                                                   *)
(***************************************************************************)
LoadStep(from, to) ==
    /\ loader.pc = from
    /\ loader' = [loader EXCEPT !.pc = to]
    /\ UNCHANGED <<file, saver>>
LoadReturns(from, ok) ==
    /\ loader.pc = from
    /\ loader' = [loader EXCEPT !.pc = "returned", !.result = ok]
    /\ UNCHANGED <<file, saver>>
Get(thing) == owned' = [owned EXCEPT ![thing] = owned[thing] + 1]
Release(thing) == owned' = [owned EXCEPT ![thing] = owned[thing] - 1]

\* The call, from where the caller has the result of the one before
Load(path, stacklen, heaplen) ==
    /\ loader.pc \in {"idle", "returned"}
    /\ loader' = [loader EXCEPT !.pc = "open", !.path = path, !.stacklen = stacklen, !.heaplen = heaplen]
    /\ printed' = [printed EXCEPT !.loading = Append(printed.loading, path)]
    /\ UNCHANGED <<file, saver, owned>>

LoadOpen ==
    /\ file[loader.path] # Absent /\ owned.fds < MaxFds
    /\ LoadStep("open", "fstat")
    /\ Get("fds")
    /\ UNCHANGED printed
LoadOpenFails ==
    /\ LoadReturns("open", FALSE)
    /\ UNCHANGED <<owned, printed>>

Fstat ==
    /\ loader.pc = "fstat"
    /\ loader' = [loader EXCEPT !.pc = "mmap", !.st_size = Len(file[loader.path])]
    /\ UNCHANGED <<file, saver, owned, printed>>
\* Fault: the descriptor stays open.
FstatFailsOpen ==
    /\ LoadReturns("fstat", FALSE)
    /\ UNCHANGED <<owned, printed>>
FstatFails ==
    /\ LoadReturns("fstat", FALSE)
    /\ Release("fds")
    /\ UNCHANGED printed

\* The test for failure is one for NULL, which mmap does not return.
Mmap ==
    /\ loader.pc = "mmap"
    /\ \/ /\ loader.st_size > 0
          /\ loader' = [loader EXCEPT !.pc = "malloc", !.mapping = "mapped"]
          /\ Get("maps")
       \/ /\ loader' = [loader EXCEPT !.pc = "malloc", !.mapping = "MAP_FAILED"]
          /\ UNCHANGED owned
    /\ UNCHANGED <<file, saver, printed>>

\* malloc_process: the areas, then the process with its stack
MallocAreas ==
    /\ LoadStep("malloc", "malloc_stack")
    /\ Get("blocks")
    /\ printed' = [printed EXCEPT !.malloc_process =
                      Append(printed.malloc_process, <<loader.stacklen, loader.heaplen>>)]
MallocAreasFails ==
    /\ LoadStep("malloc", "DIE")
    /\ printed' = [printed EXCEPT !.malloc_process =
                      Append(printed.malloc_process, <<loader.stacklen, loader.heaplen>>)]
    /\ UNCHANGED owned
MallocStack ==
    /\ LoadStep("malloc_stack", "run")
    /\ Get("blocks")
    /\ UNCHANGED printed
\* Fault: no check of the second malloc
MallocStackUnchecked ==
    /\ LoadStep("malloc_stack", "run")
    /\ Release("blocks")
    /\ UNCHANGED printed
MallocStackFails ==
    /\ LoadStep("malloc_stack", "DIE")
    /\ Release("blocks")
    /\ UNCHANGED printed

\* The file has the program that vmtest writes, whatever follows it.
Whole(p) ==
    /\ p \in DOMAIN Program /\ file[p] # Absent
    /\ \A k \in DOMAIN Program[p] : k \in DOMAIN file[p] /\ file[p][k] = Program[p][k]

\* vm_process_run: anything can come of other bytes, and of none.
Halts ==
    /\ loader.mapping = "mapped"
    /\ LoadStep("run", "free")
    /\ printed' = [printed EXCEPT !.stacks = printed.stacks + 1]
    /\ UNCHANGED owned
Dies ==
    /\ loader.mapping = "mapped"
    /\ LoadStep("run", "DIE")
    /\ UNCHANGED <<owned, printed>>
RunsAnything ==
    /\ loader.mapping = "MAP_FAILED" \/ ~ Whole(loader.path)
    /\ LoadStep("run", "undefined")
    /\ UNCHANGED <<owned, printed>>

\* FREE_VM_PROCESS and munmap; the descriptor stays open.
FreeAndReturn ==
    /\ LoadReturns("free", TRUE)
    /\ owned' = [owned EXCEPT !.blocks = owned.blocks - 2, !.maps = owned.maps - 1]
    /\ UNCHANGED printed

LoadAndRun ==
    \/ LoadOpen \/ LoadOpenFails \/ Fstat \/ FstatFails \/ Mmap
    \/ MallocAreas \/ MallocAreasFails \/ MallocStack \/ MallocStackFails
    \/ Halts \/ Dies \/ RunsAnything \/ FreeAndReturn

-----------------------------------------------------------------------------
NoPath == CHOOSE p \in Paths : TRUE

Init ==
    /\ file \in Earlier
    /\ saver = [pc |-> "idle", path |-> NoPath, at |-> 0, result |-> FALSE]
    /\ loader = [pc |-> "idle", path |-> NoPath, stacklen |-> 0, heaplen |-> 0,
                 st_size |-> 0, mapping |-> "MAP_FAILED", result |-> FALSE]
    /\ owned = [fds |-> 0, blocks |-> 0, maps |-> 0]
    /\ printed = [loading |-> <<>>, malloc_process |-> <<>>, stacks |-> 0]

Next ==
    \/ Save
    \/ LoadAndRun
    \/ \E p \in Paths, stacklen \in Uint16, heaplen \in Uint16 : Load(p, stacklen, heaplen)

Spec == Init /\ [][Next]_vars

-----------------------------------------------------------------------------
TypeOK ==
    /\ saver.pc \in {"idle", "write", "close"} /\ saver.path \in Paths
    /\ Saving => saver.path \in DOMAIN Program /\ saver.at \in 0..Len(Program[saver.path])
    /\ loader.pc \in {"idle", "open", "fstat", "mmap", "malloc", "malloc_stack", "run", "free",
                      "returned", "DIE", "undefined"}
    /\ loader.path \in Paths /\ loader.mapping \in {"mapped", "MAP_FAILED"}
    /\ owned.fds \in 0..MaxFds /\ owned.maps \in 0..1 /\ owned.blocks \in 0..2

\* A program that is in its file stays there while it is saved again, however
\* the calls interleave, fail or are cut off (the flags of open, and that a
\* program is the same in every save).
Durable == [][\A p \in DOMAIN Program : Whole(p) => Whole(p)']_vars

\* A mapping never extends beyond the file, where reading would raise SIGBUS:
\* no save makes a file shorter that lilyvm has mapped (open without O_TRUNC,
\* mmap with the size of an earlier fstat).
MappingBacked ==
    loader.pc \in {"malloc", "malloc_stack", "run"} /\ loader.mapping = "mapped" =>
        file[loader.path] # Absent /\ Len(file[loader.path]) >= loader.st_size /\ loader.st_size > 0

\* Whichever way a call takes, it releases what it has taken but for one
\* descriptor for every file that has been run (the error exits of
\* bytecode_load_and_run and malloc_process).
Released ==
    loader.pc \in {"idle", "returned"} => owned = [fds |-> printed.stacks, blocks |-> 0, maps |-> 0]
=============================================================================
