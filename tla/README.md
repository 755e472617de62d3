# A verification of lilyvm in TLA+

lilyvm is a virtual machine for a Scheme-like language on small machines: a
16-bit value representation, a two-space copying collector, bignums, and a
bytecode interpreter with four value registers and an execution stack. Each of
its programs is sequential. What is hard about it is not concurrency but
**identity under motion**: nearly every operation may allocate, an allocation may
move every object, and C code that holds an object's offset or address across such
a call must have registered it. Only at its edge, where `vmtest` writes bytecode
files and `lilyvm` maps and runs them, two processes of the operating system meet.

## The system

| Part | Source | State | Operations |
|---|---|---|---|
| allocator, collector | `vm_mem.c`, `vm_mem.h` | the two areas, `alloc_ptr`, the objects | `vm_process_alloc` / `LILYVM_ALLOC`, `_vm_process_alloc_slow`, `vm_mem_gc` |
| process | `vm_process.c`, `vm_process.h` | registers A-D, `val_roots`, `ptr_roots`, execution stack | `malloc_process`, `vm_process_free`, (un)registration of roots |
| primitives | `vm_mem.c`, `vm_mem.h` | none of their own | `scm_cons`, `fixaddint_to_scm`, `fixmulint_to_scm`, `bignum_add`, comparison |
| interpreter | `vm.c`, `_opcode_dispatch.h` (from `normal-opcodes.scm`) | copies of the registers and of SP, M, N, NV, the program counter | about 75 opcodes |
| compiled opcodes | `_opcode_dispatch.h` (from `optim-opcodes.scm`) | as the interpreter | `fib`, `fib_with_registers` |
| table generator | `opcodes.scm` | - | generates `_opcode_dispatch.h`, `opcode_constants.h` |
| assembler, test | `bytecode.h`, `vmtest.c` | `program`, one process | the `OP` macros, run, compare, save |
| bytecode files | `bytecode.c` | files, descriptors, mappings | `bytecode_write_file`, `bytecode_load_and_run` |
| command line | `lilyvm.c` | options, paths | option loop, one process per file |
| printing | `vm_mem.c` | - | `scm_write` and the dumps |

How they interact: a C host or the interpreter calls a primitive; the primitive
calls the allocator; the allocator, when the area is full, calls the collector;
the collector reads and rewrites every root the process knows of: the four
registers of the process structure, the variables registered with `VAL_REGISTER`
and `PTR_REGISTER`, the execution stack up to the stored stack pointer. The
interpreter keeps its registers and SP in C locals, and copies them to the
process before such a call and back after it. `vmtest` assembles programs, runs
them one after the other in one process and saves some of them to files; `lilyvm`
maps a file into memory and runs the interpreter on the mapping.

What makes each part correct:

- *collector*: afterwards the roots denote the same structure as before; every
  object is copied once; nothing but objects' addresses is followed; the copies
  fit in the new area; it ends.
- *allocator*: handed-out words belong to no object and never include the first
  word of the area (offset 0 is the error value); it fails only if the live
  objects leave no room.
- *primitives*: what they hold across an allocation is registered, and no longer
  than needed; a sum is the sum, in canonical form.
- *interpreter*: the process' roots cover every live value when a primitive is
  called; the stack stays within its bounds; an opcode's argument bytes are the
  ones the assembler wrote.
- *bytecode files*: a program that was saved stays there; a mapping is backed by
  its file; every way out of a call gives back what was taken.
- *command line*: the files are run in the order and with the sizes asked for, or
  nothing is.

## Modules

| Module | What it is |
|---|---|
| `VMMem` | memory of one process: client, primitives, allocator, collector, one action per step |
| `ObjectStore` | abstract specification: variables and immutable objects, no addresses, no areas |
| `VMMemRefinement` | `VMMem` implements `ObjectStore` under a mapping that reads each word in the area it refers to at that moment |
| `VMMemInv` | the inductive invariant of `VMMem` |
| `VMMemProofs` | proofs of its inductiveness and of the theorems below |
| `VMMemRefinementProofs` | proof that `VMMem` implements `ObjectStore` |
| `Bignum` | integer arithmetic: fixnums, bignums, the digit loops of `bignum_add`, comparison |
| `BignumInv` | the inductive invariant of `Bignum`, and what its words denote |
| `BignumProofs` | proofs: integers stay canonical; `bignum_add` computes the sum |
| `IntegerRegisters` | abstract specification: registers that hold mathematical integers |
| `BignumRefinement` | `Bignum` implements `IntegerRegisters` when every register is read as the integer its words denote |
| `BignumRefinementProofs` | proof of that, and that comparison orders integers |
| `VM` | the interpreter: every opcode, the compiled opcodes, and the copies of registers and SP that the collector sees |
| `VMInv` | the inductive invariant of `VM`, and the programs it holds for |
| `VMCall` | a call of `fib_with_registers`: `VM` with two history variables, and what the call computes, keeps and needs |
| `VMProofs` | proofs about `VM` and `VMCall` for those programs |
| `VMTest` | the test of `vmtest.c` on top of `VM`: macros, programs, the sequence of runs |
| `Bytecode` | saving, and loading and running, a bytecode file: two processes of the operating system |
| `BytecodeProofs` | proofs about `Bytecode` |
| `Lilyvm` | the command line program on top of `Bytecode` |
| `LilyvmInv` | the inductive invariant of `Lilyvm` |
| `LilyvmProofs` | proofs: `Lilyvm` is a client of `Bytecode`, and does what its command line asks for |
| `Induction` | what the proofs need of induction: sets of naturals, recursive functions, what can be reached, sums |
| `MC_VMMem`, `MC_VMMemRefinement`, `MC_Bignum`, `MC_VM`, `MC_VMCall`, `MC_VMTest`, `MC_Lilyvm` | constants of the TLC runs |

`VMMem`, `Bignum` and `VM` are three views of one system, each with what the
others leave out: where objects are, what integers are made of, and which
references the process has at any moment. In `Bytecode` a run of the interpreter
is one step, of which only the outcomes matter.

### `VMMem` and the code

Addresses are byte distances from `alloc_area_base`. The words the collector
treats as roots are numbered in the order its loops visit them: A-D, the
registered variables, the two pointer variables of `bignum_add` (or the two
parameters of `scm_cons`, which are *not* roots), the stack. `mem` maps the
address of an object's head to the object; a bignum's digits and a pair's fields
are words. Each object carries the number of its creation, which only the
refinement mapping and `Forwarding` look at.

| Code | Actions |
|---|---|
| `malloc_process` | `Init` |
| register loads and moves, `UNSAFE_CAR`, `UNSAFE_CDR` | `Assign`, `ReadField` |
| `PUSH`, `LET_POP` and their failures | `Push`, `PushFull`, `Pop`, `PopEmpty` |
| `vm_process_register_val_root`, `..unregister..` and their `die_` exits | `Register`, `OutOfValRoots`, `Unregister`, `NoValRootsLeft` |
| call of `scm_cons`, of the integer conversions, of `bignum_add` through `_NUMBER_DISPATCH` | `Cons`, `NewBignum`, `Add`, `AddNotInteger` |
| `vm_process_alloc`, `LILYVM_ALLOC` | `AllocFast`, `StartGC` |
| `_vm_process_alloc_slow` after the collection | `AllocSlow`, `OutOfMemory` |
| the primitive's stores and its return | `FillCons`, `FillBignum`, `FillAdd`, `FillAddFixnum` |
| `vm_mem_gc`: one root | `GcRoot`, then `GcRootsDone` |
| `vm_mem_gc`: one field, the next object, the next round | `GcScanField`, `GcNextObject`, `GcNextRound` |
| `vm_mem_gc`: the flip | `GcFlip` |

`GC_HANDLE_SLOT` is the group of operators `Moves`, `NewHead`, `NewPtr`,
`NewWord`, `MoveObject`, `SlotOK`. A failed `ASSERT`, or a word followed that is
no object's address, leads to `pc = "assert"`.

The scan loop of the collector is modelled as it is written, with its bound: the
last word of a body is not visited. Two constants let the client do, or keep it
from doing, what the code cannot cope with: `CdrPointers` (an object in the last
field of a pair) and `ConsWhenFull` (an object given to `CONS` when `CONS` is
about to collect). `HostContract` is the conjunction of what a client must
respect: neither of these, no bignum as long as the collector's length limit,
and an area whose byte offsets fit in 16 bits.

Abstracted: the digits of a sum (any number of words up to one more than the
longer operand; or a fixnum), the debug fill patterns, the statistics, printing.
A popped stack slot and an unregistered variable are dead to the code, and the
model forgets their contents.

### `Bignum` and the code

`VMMem` and `Bignum` are two views of the same primitives. `VMMem` has what they
do to the memory and leaves the digits open; `Bignum` has the digits and no
memory. An integer is its kind, its length and its words in two's complement,
least significant first; a fixnum has one word, `INT(x)`, because that is what
`_NUMBER_DISPATCH` hands to `bignum_add` for it. `Base` is the number of values
of a word (2^16 in the code); a fixnum has three bits less.

| Code | Definitions |
|---|---|
| `fixmulint_to_scm`, `fixaddint_to_scm`, `FIX`, `INT` | `Load` and the operators of these names |
| `scm_inc`, `scm_dec` | `IncDec`; `IncDecBignum` for `UNFINISHED` |
| `scm_add` of fixnums | `AddFixnums` |
| `bignum_add`: call and allocation | `AddStart` |
| the two digit loops | `AddBoth`, `AddLonger`, with the common `AddWords` |
| the switch on `last_signs` | `NeedOverflow`; `AddOverflow`, `AddNoOverflow` |
| the loop that drops redundant words | `Reduce`, `Reduced` |
| the result | `Sum`, `Store` |
| `scm_number_cmp`, `scm_number_equal` | the operators of these names, `bignum_cmp`, `bignum_equal`, `fixnum_cmp` |

Words that the code has not written yet are 0 in the model and never read.

### `VM` and the code

The state is what `vm_process_run` has in C locals (`reg` for A-D, `word` for M,
N and NV, `SP`, `pc`) and what the process structure has of it (`proc`), the
memory of the stack, and `label`, which says where in a compiled opcode control
is. The source is the generated `_opcode_dispatch.h`, which is what is compiled.
An instruction is a record of its opcode, a register, argument bytes, an
immediate and a branch distance; opcodes that differ in a register only (`pushA` to
`pushD`, for example) are one operator. `Size` has the
opcode's argument bytes as they are declared.

A program is a function from addresses to *sets* of instructions: a set of one
for a program of the tests, a larger one for "any of these".

| Code | Definitions |
|---|---|
| checks of `PUSH`, `LET_POP`, `LET_STACK_REF`, `STACK_ENSURE_HAS`, `STACK_ENSURE_FREE`; `on_error` | `Has`, `Free`, `Fits`; `Stop("error")` |
| `STACK_ALLOC`, which adds to a 16-bit SP and then compares | `Alloc` |
| a write before or behind the stack | `Stop("undefined")` |
| `ERROR_INTEGER`, `UNFINISHED` | `Operands`, `Refused`, `Refuse` |
| an opcode | the operator of its name, dispatched by `Execute` |
| `STORE_ALL` .. `RESTORE_EXCEPT_A`, and when they are executed | `Always`, `Lazily`, `Stored`, `Primitive` |
| `fib`, `fib_with_registers` | one action for each label |
| `DISPATCH` | `Step` |
| `vm_process_run` | `Interpret`; called again in the same process: `Run`, `Rerun` |

`Primitive` is what matters. The `SCM_` forms are surrounded by a `STORE_` and a
`RESTORE_`, with the result assigned between them; the `DO_` forms take the two
as arguments and use them only when they call the collector's slow path or
`bignum_add`, with the result assigned after. A collection may happen whenever
the result or an operand is a bignum. It has one effect in this module: a
reference to a bignum becomes `Dangling` if it is in a register (not in its
copy), or in a slot above the process' SP. A reference in a root stays. The
object's new place is invisible here; `VMMem` has it.

The interpreter trusts its input: README.md:65-67 of the repository leaves it to
a bytecode verifier that does not exist yet. `Verified` is what it would have to
guarantee: operands of the `unsafe_` opcodes within the stack and of the right
type, return addresses where a return expects one. Code that is not verified is
not run. A jump out of the code is not a step.

`MaxSP` is the largest SP the type `stacksize_t` can count, 65535 in the code. It
is a parameter so that the border can be met on a small stack. A stack may have
any length up to it, 0 included, as `lilyvm -s` may ask for.

Left out: `VM_TRACE`, the `FIXNUM_UNSAFE` build, and running out of memory,
which `VMMem` has. The opcode `break` calls `BREAK()`, a debugging aid whose
definition is not in the repository, and is taken for a nop. A stack overflow is an error, as in the code.

`VMCall` adds to `VM` two variables that no step depends on: `call`, the machine
as it was when `fib_with_registers` was executed last, and `args`, the argument of
each call within it, kept beside its return address. Between the labels the stack
holds frames of two slots: first the argument less one, with the address of the
label `ret_1`, then in the same slots the first result, with that of `ret_2`.
`CallInv` is the meaning of these frames and of A at each label.

### `VMTest` and the code

`VMTest` has the macros `OP` .. `OP_IM_B` of `bytecode.h`, which make an
instruction and raise the address by its length, and `TEST(basics)`: each program
is a sequence of macros as in the source, with the distances that its author
counted by hand, and the stack the `ASSERT_EQ`s expect. `NextTest` runs the next
program in the process as the one before left it, after `vm_process_stack_clear`
where the test calls that. The numbers of the test are parameters, since the
model's fixnums are small: 3, 123 and -3333 become 3, 7 (or 2) and -8, and
fib(16) becomes fib(7).

### `Bytecode`, `Lilyvm` and the code

A file is the sequence of its bytes, or absent. `saver` and `loader` are the
locals of the two functions with the call each is in; `owned` counts descriptors,
blocks and mappings, `printed` has the messages that tell what was run.

| Code | Actions |
|---|---|
| `bytecode_write_file`: `open`, `write`, `close` | `SaveOpen`, `WriteByte` .. `WriteReturns`, `SaveClose`; `SaveOpenFails`, `WriteFails` |
| `vmtest` is killed within a call | `SaverCrashes` |
| `bytecode_load_and_run`: `open`, `fstat`, `mmap` | `LoadOpen`, `Fstat`, `Mmap`; `LoadOpenFails`, `FstatFails` |
| `malloc_process` and `DIE` | `MallocAreas`, `MallocStack`; `MallocAreasFails`, `MallocStackFails` |
| `vm_process_run` and what is printed then | `Halts`, `Dies`, `RunsAnything` |
| `FREE_VM_PROCESS`, `munmap` | `FreeAndReturn` |
| `main`: an argument | `HelpOption`, `StackOption`, `HeapOption`, `OptionWithoutValue`, `StopParsing`, `Path` |
| `main`: the second loop | `RunPath`, `PathHasRun`, `PathFailed`, `AllRun` |

`write` puts its bytes into the file one at a time, may stop after any number of
them (a short write, which the code does not notice), and other processes see
each byte at once. The failed `mmap` is what it is in the code: `MAP_FAILED`,
which passes the test for NULL, so that the interpreter is run on no mapping
(`RunsAnything`), as it is on a file that has not (yet) the whole program. What
happens then is undefined and ends the behaviour. `atoi` is a constant of
`Lilyvm`, an integer for every argument; all that is assumed of it is that it
reads what `printf` has written for a 16-bit number as that number.

## Properties

| Property | Says |
|---|---|
| `TypeOK` | the types |
| `NoAssertFails` | no assertion of the collector or of the pointer conversions fails |
| `HeapLayout` | objects lie in one area above its first word and never overlap; fresh words belong to no object |
| `PointersOK` | every root, every argument of a running primitive and every field of a pair refers to an object, in the area the collector has got to for that word |
| `Forwarding` | an object is copied once and its old place leads to that copy |
| `IInv` | the inductive invariant |
| `CallsReturn` | a call returns or the process dies |
| `ImplementsObjectStore` | `VMMem` implements `ObjectStore` |
| `AllCanonical` (`Bignum`) | an integer in fixnum range is a fixnum, and no top word only repeats the sign below it |
| `IInv` (`Bignum`) | types, canonical integers, and how the carry and the signs of the words added last determine each other |
| `SumKept` | words added and carry weigh what the operands contributed, to the end of the reduction |
| `ComparisonOK` | equality and order of the words are those of the integers they denote |
| `ImplementsIntegers` | `Bignum` implements `IntegerRegisters` |
| `LiveValues` (`VM`) | no register, no used slot and no copy in the process refers to an object a collection has taken away |
| `NothingUndefined` (`VM`) | verified code never makes the interpreter write before or behind the stack or use an object that is gone. A missing check of `PUSH` is noticed by `TypeOK` |
| `MInv` (`VM`) | the inductive invariant: registers, their copies and used slots are live, and control is in the program |
| `ArithmeticExact` (`VM`) | an arithmetic opcode does what it does on a machine without a collector, given by `Meaning`: the result is where it belongs and nothing else has changed |
| `CallInv` (`VMCall`) | at each label of `fib_with_registers`: every frame holds the argument for the second call or the first call's result, A the innermost argument or result, and what the caller keeps is as it was |
| `EnoughStack` (`VMCall`) | a call fails only for an argument that is no integer or a bignum, or with less than 2 (n - 1) free slots for the argument n |
| `CallReturnsFib` (`VMCall`) | a call that returns leaves the fibonacci number of its argument in A and on the stack, all else as it was, and goes on behind its instruction |
| `TestsSucceed` (`VMTest`) | when a program halts, the whole stack is what the test expects, with what earlier programs left in registers and stack |
| `TestsComplete` (`VMTest`) | every script of tests is run to its end |
| `Durable` (`Bytecode`) | a program that a file holds is never lost to another save of it, wherever that stops |
| `MappingBacked` (`Bytecode`) | a mapping is never longer than its file |
| `Released` (`Bytecode`) | every way out of a call gives back all but one descriptor for each file that was run |
| `AsAsked` (`Lilyvm`) | what is run, in which order and with which sizes, is what the roles of the arguments say, which are defined without the option loop; exit status 0 exactly if all files were run |
| `MainInv` (`Lilyvm`) | the inductive invariant: what the option loop holds is what the arguments before `i` mean, and the files run are those before `i` |
| `Terminates` (`Lilyvm`) | lilyvm ends, whatever fails |

`ObjectStore` states what a client may rely on: values of variables and fields
of objects change only by the client's own steps, `Collect` removes exactly what
cannot be reached, and `Fail` (out of memory) is possible only when the words of
the reachable objects and of the request exceed the capacity, one area less its
first word. So the refinement also says that the collector reclaims everything
it should.

## Runs

| Run | Bounds | Shows |
|---|---|---|
| `memory` | area of 8 words, 4 objects of up to 3 words with their heads, 1 stack slot, 1 usable root variable, 1 register in use | all safety properties and the inductive invariant |
| `object_store` | area of 9 words, 3 objects | the refinement, and `CallsReturn` |
| `bignum` | words of 4 bits, integers of up to 3 words, 2 registers | the arithmetic |
| `vm_any` | stack of 2 slots, one less than SP can count (`MaxSP` = 3); fixnums -1 and 0, the bignum -2 | any sequence of verified instructions on two registers, over any number of runs |
| `vm_call` | stack of 13 slots, fixnums -8 to 7, integers below 64, one program | every call of `fib_with_registers` for -1 to 7, a bignum and no integer, alone and for an earlier result |
| `vmtest` | stack of 24 slots, fixnums -8 to 7, integers below 64, fibonacci of 0 to 7 | `vmtest.c` as a whole, all seven fibonacci programs one after the other, and programs for the opcodes these do not use |
| `lilyvm` | 1221 starts: all command lines of up to 3 of 7 arguments and seven longer ones, with 3 contents of the file that is saved; 2 files, 2 descriptors, a program of 2 bytes | files and command line, with failing calls and a killed writer |
| `fib_registers` | as `vmtest`, one program | a bignum in A is lost within `fib` (finding) |
| `frame_free` | stack of 3 slots | `frame_jsr_rel8_2` writes behind the stack (finding) |
| `cdr_object` | area of 7 words, 3 objects, `CdrPointers` | the collector loses the cdr of a pair (finding) |
| `cons_arguments` | as above, `ConsWhenFull` | `CONS` stores an offset from before the collection (finding) |
| `long_bignum` | length limit 3 for 30, area of 16 words | a bignum of that length aborts the next collection (finding) |

Why the bounds are enough to be interesting: with 8 words and objects of 2 or 3
words the area is full after two or three allocations, so that most behaviours
collect, several times, with garbage and with survivors, sharing (the same
object in a register, in a variable, on the stack and in a pair), chains of
pairs that need more than one scan round, digits that look like offsets, and
both outcomes after the collection. Every action and every disjunct of `Next` is
taken. The processes may stop (`DIE`), and the object bound ends a behaviour, so
deadlock is not checked.

In `bignum` the registers are loaded with thirteen integers around the borders of
fixnums, of one word and of two, and sums of up to three words are stored and
added again, so that every pair of lengths and signs meets, carries run through
all words, overflow words of both signs are needed, and reductions take off no
word, one and two. Four bits are the smallest word of which a fixnum (three bits
less) is left with a sign bit: it holds -1 and 0. An operand of three words may
be compared but not added (`MaxWords`). A process that has met `UNFINISHED`
stops, so deadlock is not checked.

In `vm_any` the smallest fixnum range there is makes a decrement or a sum a
bignum after one step, on a stack that is full after two pushes and on which SP does
not wrap only just; every collection
finds bignums in A, in B, on the stack and in the dead slot above it. One word
beyond the fixnums is enough, because the length of a bignum makes no difference
here. The instructions of `vm_any` are those whose effect depends on the others'
history; immediates, words and branches have no such effect and are left to
`vmtest`, where recursion is up to eight calls deep and results from
fib(5) = 8 on are bignums. `vmtest` is deterministic but for the collections. Its
programs share one process, so that each starts with the registers, and with dead
slots above its stack, of all that were run before it; the compiled opcodes come
first in a script, since they lose a bignum in a register (finding 6).
In `vm_call` a bignum is below the argument and the return address, so that the 13
slots are all used by the call for 6 and one for 7 fails: both outcomes of
the check in the recursion occur, and the bound of `EnoughStack` is met. From
fib(5) = 8 on the sums are bignums and may collect, with a bignum in B that only
its copy in the process keeps.
The other runs of the interpreter have the 65535 of the code for `MaxSP`.
Four opcodes are used only as far as the tests do: `dec__dup` on small fixnums,
`frame_jsr_rel8_2` where there is room, and `fib` and `fib_with_registers` with no
bignum in a register. `inc_` and `ldNV_im` are modelled with what looks like a
mistake in each of them: `inc_` gives up the value it pushes (`RESTORE_ALL` puts
back the old SP), `ldNV_im` has a two-byte argument and is declared with one.

In `lilyvm` the arguments of the enumerated command lines are a file, an option
of each size, `--`, `--help`, a number and one that is not how its value is
printed; so each argument occurs in each role, after each other. The longer lines
have two files and one of them twice, so that with two descriptors the third run
fails on the descriptor that `bytecode_load_and_run` keeps. The saved file starts absent, with a longer
program of an earlier time, or with the program itself. Saves go on without
bound, and every one may stop after 0, 1 or 2 bytes.

*Fairness.* `TestSpec` of `VMTest` has weak fairness of the interpreter's steps,
which wait for nothing until it halts, and of the step to the next program.
`FairSpec` of `VMMem` has weak fairness of the steps of a running primitive and
of the collector, for the same reason; the client's own steps have none.
`LilyvmSpec` has weak fairness of `Main`, lilyvm's own next step, system calls
included; it assumes that the programs in the files end, as a run is one step.
`vmtest`'s saves have none, and may go on for ever or stop anywhere.

## Proofs

### The memory

`VMMemProofs` proves, for every value of the constants:

- `InvariantHolds`: `HostContract` implies `Spec => []IInv`
- `NoAssertion`, `NoDanglingPointer`, `HeapSafe`, `TypeCorrect`: the safety
  properties of the run, from `IInv`
- `CopiesFit`: during a collection the copies stay above the first word of the
  new area.

The assumptions are `ConstantsOK` (what the types of the C code give) and
`HostContract`, and no conjunct of the latter can be spared: three of the finding
runs drop one each and show that the property then fails, and finding 4 is what
follows without the fourth.

The argument. `PointersOK` is not inductive: whether the next word the collector
follows refers to an object depends on what has been copied so far, where the
scan stands, and on the forwarding words of the old area. `IInv` adds: whole and
forwarded objects (`ForwardOK`); the copies tile the new area from `newptr` to
its end (`Tiles`); the scan pointers are boundaries of that tiling and separate
visited from unvisited copies (`ScanOK`); and the reason why the copies fit,
`SpaceOK`: the bytes of the old area whose objects have been moved are as many
as the bytes copied, which is kept as a cardinality of a set rather than as a sum
over the moved objects. As the moved objects lie above the old area's first word,
fewer bytes than an area holds have been copied, and one more object that has not
been moved still fits.

Each action has a lemma that it preserves `IInv`; the collector's two lemmas on
a visited word rest on a common lemma about the move of one object.

`VMMemRefinementProofs` proves, under the same assumptions:

- `StoreImplemented`: `Spec => ImplementsObjectStore`, the refinement, and on the
  way to it
- `CopiesHold`: `Spec => []CopiesOK`, and from it `CopiedOnce` (`Forwarding`)
- `OnlyReachableKept`: `Spec => []ReachOK`.

What `IInv` says of words is not enough for the refinement, which says of *each*
object that it is the same one before and after. `CopiesOK` (in `VMMemInv`) adds
to it that every object has its own number (`IdsOK`), that a body is as long as
its head says (`LengthsOK`), that objects fill their area without gaps outside of
a collection (`CompactOK`, which is why the words of the live objects and the
free ones add up to the capacity), and that a forwarded object and its copy have
the same number, and the same fields when each word is read in the area it
refers to. So each step of the collector maps to a stutter until the flip, which
is `Collect`. That the flip removes everything that cannot be reached is
`ReachOK`: every copy is reachable from the roots as they were, since a copy is
made when a root or a field of a copy refers to it. The reverse, that nothing
reachable is removed, follows at the flip, when the copies are a set that
contains the roots and is closed under fields, and `Reachable` is the least such
set (`ClosureLeast` of `Induction`). `Fail` needs both, as the code fails only
after a collection.

### Integers

`BignumProofs` proves, for every word size, every number of words and every set
of C integers of two words (`BignumConstants`):

- `BignumInvariant`: `Spec => []IInv`, and from it `BignumTypeOK` and
  `CanonicalHolds`
- `SumInvariant`: `Spec => []SumInv`, the invariant of the digit loops and of
  the reduction
- `AdditionStoresSum`: what is stored denotes the sum of the operands.

`SumInv` and `StoredIsSum` speak of *any* functions that satisfy the recurrences
of the powers of the base (`Powers`) and of the partial sums of some words
(`PartialSums`). The argument: `IInv` has the carry determined by the signs of
the words added last (`CarryOK`), which is why the code may decide about the
overflow word from the signs alone; a word that extends a sign weighs the
difference of two powers (`ExtensionWeight`), so that both the extension of the
shorter operand and the removal of a redundant word keep the denoted integer.

`BignumRefinementProofs` goes on to the functions that `BignumRefinement`
defines, which satisfy those recurrences:

- `SumKeptHolds`: `Spec => []SumKept`
- `ComparisonHolds`: `Spec => []ComparisonOK`
- `ImplementsIntegersHolds`: `Spec => ImplementsIntegers`, the refinement.

Comparison looks at lengths and signs before it looks at words: of two integers
in canonical form the longer one is further from zero, because its top word is
not the sign of what is below; and of two of the same length and sign the first
word from the top in which they differ decides, because all words below it weigh
less than one of its units. An operation that the refinement maps to a step of
`IntegerRegisters` happens when its result is stored, with operands that may have
been registers: `ClientOK` (in `BignumInv`) says that they still are what they
were.

### The interpreter

`VMProofs` proves, for every fixnum range, every stack length that a 16-bit number
can be and every program that is `SafeCode` on a stack of that length
(`VMConstants`):

- `MachineInvariant`: `Spec => []MInv`, and from it
- `TypesHold` (`TypeOK`), `ValuesStayLive` (`LiveValues`), `NeverUndefined`
  (`NothingUndefined`)
- `ArithmeticHolds`: `Spec => ArithmeticExact`

and for the same programs with the history of `VMCall`, and any function that
satisfies the recurrence of the fibonacci numbers where it is defined
(`FibDefinition`):

- `CallInvariant`: `CallSpec => []CallInv`
- `CallsNeedNoMore`: `CallSpec => []EnoughStack`
- `CallsReturnFib`: `CallSpec => CallReturnsFib`.

`LiveValues` is not inductive, because dead slots come to life again: the stack
grows over what an earlier, higher stack has left, and a call of a primitive
stores a lower or a higher SP. `MInv` says what is live *whenever* either stack
pointer says it is used, the interpreter's or the one of the process; that the
process' registers, which a later run starts with, are live even when they are
long out of date; and that a used slot may refer to a bignum, but no slot at all
holds an integer in the wrong form. The core is one lemma, `PrimitiveEffect`: a
primitive that stores, or finds stored, everything but the registers its result
goes to changes nothing but what its result is put into, whether it collects or
not. Every opcode that allocates is an instance of it; the others have a lemma
for what they do to the stack, the registers or the words.

`SafeCode` says three things of a program. Its instructions are such as the
assembler makes (`WellFormed`): registers where registers are expected, no object
as an immediate. With `jsr_rel8__swap` the stack is shorter than `MaxSP`
(`AllocIsSafe`), as on a full stack of 65535 slots SP wraps and the opcode writes
before the stack (finding 7). And it has none of the three opcodes of `Excluded`, for each of
which the theorems would be false or say something about code that is built of
such a step: `dec__dup` does not check that there is an operand, wraps SP like
`jsr_rel8__swap`, and has its own copy stored above a slot it has not written,
`frame_jsr_rel8_2` writes behind the stack (finding 5), and `fib` loses the
registers (finding 6). A program with `fib_with_registers` needs fixnums that can
number the three labels (`LabelsFit`), which the 13 bits of the code have.

For `fib_with_registers` control is not in the program but at a label, and
the next one is read from the stack. `InCall` in `MInv` says what is on it then:
the address the program returns to, the address of the label behind the recursion,
and any number of frames of an integer and one of two labels, up to SP. There is
one lemma for each label that says what its step does (`CompiledSteps`), and one
that the frames are as they must be afterwards. With these the two checks that the
code has dropped ("optim: leave off", `optim-opcodes.scm:180` and `185`) are shown to
be unnecessary, and `SCM_ADD` is called with all that is live in the process.

`CallInv` goes on from there to what the opcode computes. `InCall` has no
connection between one frame and the next; `Frame` has it through `args`: the
call of a frame is for one or two less than the call of the frame below it, and
so, for two less, the slot between them holds the fibonacci number of one less. At
`ret_2` both results are those the recurrence adds. That each frame's argument
is at least one less than that of the frame below bounds the frames, and gives
`EnoughStack`.
What a bytecode verifier would have to guarantee is in `Verified` and part of the
model. The programs of `vm_any` are in `SafeCode` (`AnyCodeIsSafe`, which TLC
evaluates). `MInv` is checked in `vm_call`, where control is within the compiled
opcode most of the time; in `vm_any` it never is, and the rest of `MInv` is `TypeOK`
and `LiveValues`, which that run checks.

### Files and command line

`BytecodeProofs` proves, for all files, programs and numbers of descriptors
(`BytecodeConstants`):

- `BytecodeInvariant`: `Spec => []IInv`, and from it `BytecodeTypeCorrect`,
  `MappingsStayBacked`, `AllReleased` and `SavedStaysSaved` (`Durable`).

The argument: `IInv` says at each point of a call what is owned (`OwnedOK`), that
an open file is at least as long as it was at `fstat` (`LoaderOK`), and that the
first bytes of a program that is being saved are in place (`SaverOK`). A step of
the saver never makes a file shorter, and overwrites a byte of a program that is
in place with the same byte (`SaveStep`); a step of the loader changes no file.

`LilyvmProofs` proves, for every command line and every such `atoi`
(`LilyvmConstants`):

- `LilyvmIsAClient`: `LilyvmSpec => Spec`, from the types of the variables of
  `main`; so what is proved of `Bytecode` holds of lilyvm (`LilyvmFilesSafe`)
- `MainInvariant`: `LilyvmSpec => []MainInv`, and from it `RunsAsAsked`
  (`AsAsked`).

What a command line means is given by `Roles`, where the role of an argument
depends on that of the one before and on whether there was a `--`; the code finds
the same roles with an index that moves by one or two and a flag. `MainInv` has the
state of the option loop as a function of the first `i - 1` arguments, which never
end with an option that still waits for its value (`ParseOK`), and the state of the
second loop as a number of files that have been named, have got a process and
have halted, at each point of the current call (`RunOK`). That the option loop
keeps it rests on how paths and sizes grow with one more argument (`PathsGrow`,
`SizeGrows`) and on `ParseMeans`: `parse_uint16` accepts exactly what a number of
16 bits is printed as.

### What is not proved

Only model-checked: `CallsReturn`, `TestsComplete` and `Terminates`, which are
liveness properties; `TestsSucceed`, which is about runs of given programs and is
decided by executing them; and the interpreter on the three opcodes
that `SafeCode` excludes.

*Induction.* The provers cannot instantiate the library's induction theorems,
which take an operator as a parameter. `Induction` states what is needed for sets
instead, with proofs from the theorems on finite sets: a set of naturals that has
0 and every successor has all naturals (`NatSetInduction`), a step function has a
recursive function (`NatRecursion`), so many steps as there are elements reach
everything that can be reached (`ClosureReached`, `ClosureLeast`), and a sum over
a set is the measure of a disjoint union (`SumIsMeasure`). With these the
recursive *functions* of the models are reasoned about; there is no recursive
operator in a module with a theorem, or in one that it uses.

## Findings

1. The cdr of a pair is not visited by the collector (`vm_mem.c:219`); run
   `cdr_object`.
2. The arguments of `CONS` are not roots while it collects (`vm_mem.c:270`); run
   `cons_arguments`.
3. A bignum of 30 words aborts the next collection (`vm_mem.c:140`); run
   `long_bignum`.
4. Nothing limits the area to the 64 KiB that a 16-bit offset can address
   (`vm_mem.h:108`, `vm_mem_config.h:12`). No run is kept for it: an area of 40000
   words in the bounds of `cdr_object` (without `CdrPointers`) violates
   `PointersOK` at the first pair that is allocated.
5. `STACK_ENSURE_FREE` ignores its argument, and `frame_jsr_rel8_2` needs one
   slot more than it checks for (`vm.c:323`); run `frame_free`.
6. The opcode `fib` allocates without storing the registers
   (`_opcode_dispatch.h:867`), so that a bignum in a register of the program that
   runs it is lost; run `fib_registers`.
7. `STACK_ALLOC` adds to the 16-bit SP before it compares (`vm.c:327`, "XX risk for
   overflow"). With `lilyvm -s 65535` and a full stack, SP wraps to 0 and the check
   passes: `jsr_rel8__swap` and `dec__dup` write before the stack. No run is kept:
   with `MaxSP` = 2 in `VM_any.cfg` the assumption `AnyCodeIsSafe` fails, and without
   it `NothingUndefined` is violated by two pushes and a `jsr_rel8__swap`.
8. The failure of `mmap` is tested as NULL (`bytecode.c:60`), but is `MAP_FAILED`:
   a file of 0 bytes, which a save leaves that is killed at its beginning, makes
   the interpreter run on the address -1. `RunsAnything` has it; no run is kept,
   since nothing in the repository says what such a file should do.
9. `bytecode_load_and_run` never closes the descriptor of a file it has run
   (`bytecode.c:82`), so that a command line with more files than descriptors ends
   with exit status 1. `Released` has the leak as the code has it, one
   descriptor for each file, and `AsAsked` lets any `open` fail; neither
   says that the leak is right.

## Not modelled

Left out, because they do not change the state the properties are about: printing
(`scm_write`, the dumps, the texts of messages), `VM_TRACE`, the debug fill
patterns, the statistics counters, the build scripts. Left out for other reasons:
the `TEST` functions of `vm_mem.c`, which call the primitives with given numbers
that `VMMem` and `Bignum` cover with all numbers of their bounds; `scm_length`,
which needs a list of 4096 pairs before its call of `SCM_INC` can allocate; the
areas of 0 words, which `lilyvm -h 0` asks for and in which the first allocation
dies; the programs within `#if 0` and the `FIXNUM_UNSAFE` variant; the numbers of the
opcodes; and `attic/`, which is no longer built.
