------------------------------- MODULE VMMem -------------------------------
(***************************************************************************)
(* The memory of one lilyvm process: the allocator, the root registration  *)
(* and the two-space copying (Cheney) collector of vm_mem.c, vm_mem.h and  *)
(* vm_process.h, driven by the primitives that allocate (scm_cons,         *)
(* fixaddint_to_scm / fixmulint_to_scm, bignum_add) and by the register,   *)
(* variable and stack accesses a C host or the interpreter makes between   *)
(* them.                                                                   *)
(*                                                                         *)
(* The program is sequential.  The steps are as fine as they are because   *)
(* the collector's correctness is a statement about its intermediate       *)
(* states: which words still refer to the old area, which to the new one.  *)
(*                                                                         *)
(* Addresses are byte distances from alloc_area_base.  A word (`val') is   *)
(* an immediate when odd and the byte offset of an object's head in        *)
(* alloc_area when even.  `mem' holds the objects by the address of their  *)
(* head; the unused words between them are not represented.                *)
(***************************************************************************)
EXTENDS Integers, Sequences

CONSTANTS
    numheapwords,       \* words in one of the two areas (malloc_process)
    stacklen,           \* slots of the execution stack (malloc_process)
    VM_NUM_VAL_ROOTS,   \* size of the val_roots array
    GcLenLimit,         \* the 30 of ASSERT(len < 30) in the collector
    Immediates,         \* the immediate words the client uses
    UNINITIALIZED,      \* the immediate that fresh registers hold
    BodyWords,          \* words that occur as bignum digits
    ClientRegs,         \* the registers the client works with
    MaxObjects,         \* bound: objects created in a behaviour
    MaxWords,           \* bound: words in the body of a bignum
    CdrPointers,        \* may the second argument of CONS be an object?
    ConsWhenFull        \* may CONS get object arguments when it must collect?

WordSize == 2
WordValues == 65536
Word == 0..(WordValues - 1)
alloc_size == WordSize * numheapwords

is_allocated(v) == v % 2 = 0
is_fixnum(v) == v % 8 = 7

ASSUME ConstantsOK ==
    /\ numheapwords \in Nat /\ 0 < numheapwords /\ numheapwords < WordValues
    /\ stacklen \in Nat /\ stacklen < WordValues
    /\ VM_NUM_VAL_ROOTS \in Nat /\ 0 < VM_NUM_VAL_ROOTS
    /\ GcLenLimit \in Nat /\ 2 < GcLenLimit /\ GcLenLimit < 255
    /\ Immediates \subseteq {w \in Word : ~ is_allocated(w)}
    /\ UNINITIALIZED \in Immediates
    /\ BodyWords \subseteq Word
    /\ ClientRegs \subseteq 1..4
    /\ MaxObjects \in Nat
    /\ MaxWords \in Nat /\ 0 < MaxWords /\ MaxWords < 255
    /\ CdrPointers \in BOOLEAN
    /\ ConsWhenFull \in BOOLEAN

\* What a caller must respect for the collector to be safe: no object in the
\* last field of a pair (vm_mem.c:219 does not visit it), no object argument
\* of CONS, whose parameters are not roots, while CONS collects, no bignum of
\* 30 words (vm_mem.c:140), and an area whose offsets fit in a word.
HostContract ==
    /\ ~ CdrPointers
    /\ ~ ConsWhenFull
    /\ MaxWords < GcLenLimit
    /\ alloc_size <= WordValues

(***************************************************************************)
(* The words the collector treats as roots live in numbered slots, in the  *)
(* order in which vm_mem_gc visits them: A..D, the registered variables,   *)
(* the C locals a and b of the running primitive, the stack.               *)
(***************************************************************************)
RegSlot == 1..4
ValSlot == 5..(4 + VM_NUM_VAL_ROOTS)
ArgA == 5 + VM_NUM_VAL_ROOTS
ArgB == 6 + VM_NUM_VAL_ROOTS
ArgSlot == {ArgA, ArgB}
StackSlot == (ArgB + 1)..(ArgB + stacklen)
LastSlot == ArgB + stacklen
Slot == 1..LastSlot

TYPE_PAIR == 1
TYPE_BIGNUM == 128
TYPE_IS_BINARY(t) == t >= 128

\* numwords is the length byte of the head, which a move clears; size is the
\* number of body words the object was created with; id names the object
\* for the abstract specification.
Object == [type : {TYPE_PAIR, TYPE_BIGNUM}, numwords : 0..255,
           size : 1..255, body : Seq(Word), id : Nat]

VARIABLES
    slot,               \* contents of the slots
    num_val_roots,      \* process->num_val_roots
    ptr_roots,          \* the C locals registered with PTR_REGISTER
    sp,                 \* process->stack.sp
    alloc_area,         \* area being allocated from
    alloc_area_fresh,   \* area to copy to
    alloc_ptr,          \* the last allocation
    mem,                \* objects by address of their head
    nextid,             \* number of objects created so far
    pc,                 \* what the program is doing
    call,               \* the primitive that is running
    newptr,             \* vm_mem_gc: last copy made
    root,               \* vm_mem_gc: root slot to be visited next
    ptr,                \* vm_mem_gc: object being scanned
    fld,                \* vm_mem_gc: its field to be visited next
    old_start,          \* vm_mem_gc: where this scan round began
    end                 \* vm_mem_gc: where this scan round ends

roots == <<num_val_roots, ptr_roots, sp>>
areas == <<alloc_area, alloc_area_fresh>>
gcvars == <<newptr, root, ptr, fld, old_start, end>>
vars == <<slot, roots, areas, alloc_ptr, mem, nextid, pc, call, gcvars>>

\* pc: "run" (the client decides), "alloc" (vm_process_alloc), "roots" and
\* "scan" (vm_mem_gc), "slow" (back in _vm_process_alloc_slow), "fill" (the
\* primitive stores its result), "die" (DIE or ERROR), "assert" (a failed
\* ASSERT, or a word followed that points to no object).
PC == {"run", "alloc", "roots", "scan", "slow", "fill", "die", "assert"}
InGC == pc \in {"roots", "scan"}

Op == {"none", "cons", "bignum", "add"}
NoCall == [op |-> "none", n |-> 0, len |-> 0, dst |-> 1]

(***************************************************************************)
(* Reading the state.                                                      *)
(***************************************************************************)
\* The slots vm_mem_gc's loops reach.
IsRoot(s) == \/ s \in RegSlot
             \/ s \in ValSlot /\ s <= 4 + num_val_roots
             \/ s \in ptr_roots
             \/ s \in StackSlot /\ s <= ArgB + sp

\* Slots the client can read: the same, less the C locals of primitives.
Client(s) == IsRoot(s) /\ s \notin ArgSlot

HasObject(v) == is_allocated(v) /\ (alloc_area + v) \in DOMAIN mem
ObjectOf(v) == mem[alloc_area + v]
IsPair(v) == HasObject(v) /\ ObjectOf(v).type = TYPE_PAIR
IsBignum(v) == HasObject(v) /\ ObjectOf(v).type = TYPE_BIGNUM
IsInteger(v) == is_fixnum(v) \/ IsBignum(v)

ClientWords == Immediates \cup {slot[s] : s \in {t \in Slot : Client(t)}}
Writable == {s \in Slot : Client(s) /\ (s \in RegSlot => s \in ClientRegs)}

\* ALLOCATED_FROM_POINTER: a byte offset, returned as a 16-bit word.
OffsetFrom(area, p) == (p - area) % WordValues
ALLOCATED_FROM_POINTER(p) == OffsetFrom(alloc_area, p)
ALLOCATED_FROM_POINTER_TOSPACE(p) == OffsetFrom(alloc_area_fresh, p)

-----------------------------------------------------------------------------
(***************************************************************************)
(* The client: register loads and moves, stack accesses, variables that    *)
(* are registered and dropped, car and cdr of pairs.                       *)
(***************************************************************************)
Init ==
    /\ slot = [s \in Slot |-> UNINITIALIZED]
    /\ num_val_roots = 0
    /\ ptr_roots = {}
    /\ sp = 0
    /\ alloc_area = 0
    /\ alloc_area_fresh = alloc_size
    /\ alloc_ptr = alloc_size
    /\ mem = [h \in {} |-> 0]
    /\ nextid = 0
    /\ pc = "run"
    /\ call = NoCall
    /\ newptr = 0
    /\ root = 0
    /\ ptr = 0
    /\ fld = 0
    /\ old_start = 0
    /\ end = 0

heapvars == <<areas, alloc_ptr, mem, nextid, gcvars>>

\* DIE and ERROR end the process.
Die == /\ pc' = "die"
       /\ UNCHANGED <<slot, roots, heapvars, call>>

\* A register or variable gets a word the client holds.
Assign(s, v) ==
    /\ pc = "run"
    /\ slot' = [slot EXCEPT ![s] = v]
    /\ UNCHANGED <<roots, heapvars, pc, call>>

\* UNSAFE_CAR (k = 1) and UNSAFE_CDR (k = 2) of a pair.
ReadField(s, t, k) ==
    /\ pc = "run"
    /\ IsPair(slot[t])
    /\ slot' = [slot EXCEPT ![s] = ObjectOf(slot[t]).body[k]]
    /\ UNCHANGED <<roots, heapvars, pc, call>>

Push(v) ==
    /\ pc = "run"
    /\ sp < stacklen
    /\ slot' = [slot EXCEPT ![ArgB + sp + 1] = v]
    /\ sp' = sp + 1
    /\ UNCHANGED <<num_val_roots, ptr_roots, heapvars, pc, call>>

PushFull == /\ pc = "run"
            /\ sp = stacklen
            /\ Die

\* The popped slot is dead; the model forgets its word.
Pop(r) ==
    /\ pc = "run"
    /\ sp > 0
    /\ slot' = [slot EXCEPT ![r] = slot[ArgB + sp], ![ArgB + sp] = UNINITIALIZED]
    /\ sp' = sp - 1
    /\ UNCHANGED <<num_val_roots, ptr_roots, heapvars, pc, call>>

PopEmpty == /\ pc = "run"
            /\ sp = 0
            /\ Die

\* VAL_REGISTER of a variable that holds v.
Register(v) ==
    /\ pc = "run"
    /\ num_val_roots < VM_NUM_VAL_ROOTS - 1
    /\ slot' = [slot EXCEPT ![5 + num_val_roots] = v]
    /\ num_val_roots' = num_val_roots + 1
    /\ UNCHANGED <<ptr_roots, sp, heapvars, pc, call>>

OutOfValRoots == /\ pc = "run"
                 /\ num_val_roots >= VM_NUM_VAL_ROOTS - 1
                 /\ Die

\* VAL_UNREGISTER(n): the last n variables are no longer roots.
Unregister(n) ==
    /\ pc = "run"
    /\ n <= num_val_roots
    /\ num_val_roots' = num_val_roots - n
    /\ slot' = [s \in Slot |-> IF s \in ValSlot /\ s > 4 + num_val_roots'
                               THEN UNINITIALIZED ELSE slot[s]]
    /\ UNCHANGED <<ptr_roots, sp, heapvars, pc, call>>

NoValRootsLeft(n) == /\ pc = "run"
                     /\ n > num_val_roots
                     /\ Die

-----------------------------------------------------------------------------
(***************************************************************************)
(* Primitives that allocate: the call, the allocation, the stores.         *)
(***************************************************************************)
\* Fault: the first word of the area is handed out too.
FitsInclusive(n) == alloc_ptr - WordSize * n >= alloc_area
\* Fault: an allocation is refused only if it ends at the area's first word.
FitsUnlessEqual(n) == alloc_ptr - WordSize * n # alloc_area
\* vm_process_alloc: the first word of the area is never handed out.
Fits(n) == alloc_ptr - WordSize * n > alloc_area

\* scm_cons(a, b): a and b are C parameters, not roots.
Cons(v, w, r) ==
    /\ pc = "run"
    /\ nextid < MaxObjects
    /\ is_allocated(w) => CdrPointers
    /\ is_allocated(v) \/ is_allocated(w) => Fits(3) \/ ConsWhenFull
    /\ pc' = "alloc"
    /\ call' = [op |-> "cons", n |-> 3, len |-> 2, dst |-> r]
    /\ slot' = [slot EXCEPT ![ArgA] = v, ![ArgB] = w]
    /\ UNCHANGED <<roots, heapvars>>

\* fixaddint_to_scm (m = 1) and fixmulint_to_scm (m = 2) of an integer out of
\* fixnum range; the former is also the sum of two fixnums.
NewBignum(m, r) ==
    /\ pc = "run"
    /\ nextid < MaxObjects
    /\ m <= MaxWords
    /\ pc' = "alloc"
    /\ call' = [op |-> "bignum", n |-> m + 1, len |-> m, dst |-> r]
    /\ UNCHANGED <<slot, roots, heapvars>>

NumWords(v) == IF is_fixnum(v) THEN 1 ELSE ObjectOf(v).numwords
Longer(v, w) == IF NumWords(v) < NumWords(w) THEN NumWords(w) ELSE NumWords(v)

\* A bignum operand is passed as a pointer to its body, a fixnum in place.
Operand(v) == IF is_fixnum(v) THEN v ELSE alloc_area + v + WordSize
\* Fault: bignum_add does not register its operands.
NoMovingArgs(v, w) == {}
\* The C locals PTR_REGISTERed by bignum_add: those whose object moves.
MovingArgs(v, w) == {s \in ArgSlot : ~ is_fixnum(IF s = ArgA THEN v ELSE w)}

\* _NUMBER_DISPATCH to bignum_add(a, b), up to its allocation of
\* 1 + len2 + 1 words, an 8-bit count.
Add(v, w, r) ==
    /\ pc = "run"
    /\ nextid < MaxObjects
    /\ IsInteger(v) /\ IsInteger(w)
    /\ ~ (is_fixnum(v) /\ is_fixnum(w))
    /\ pc' = "alloc"
    /\ call' = [op |-> "add", n |-> (Longer(v, w) + 2) % 256,
                len |-> Longer(v, w), dst |-> r]
    /\ slot' = [slot EXCEPT ![ArgA] = Operand(v), ![ArgB] = Operand(w)]
    /\ ptr_roots' = MovingArgs(v, w)
    /\ UNCHANGED <<num_val_roots, sp, heapvars>>

\* error_integer
AddNotInteger(v, w) ==
    /\ pc = "run"
    /\ ~ (IsInteger(v) /\ IsInteger(w))
    /\ Die

\* The fast path of vm_process_alloc.
AllocFast ==
    /\ pc = "alloc"
    /\ Fits(call.n)
    /\ alloc_ptr' = alloc_ptr - WordSize * call.n
    /\ pc' = "fill"
    /\ UNCHANGED <<slot, roots, areas, mem, nextid, call, gcvars>>

\* _vm_process_alloc_slow after the collection.
AllocSlow ==
    /\ pc = "slow"
    /\ Fits(call.n)
    /\ alloc_ptr' = alloc_ptr - WordSize * call.n
    /\ pc' = "fill"
    /\ UNCHANGED <<slot, roots, areas, mem, nextid, call, gcvars>>

OutOfMemory == /\ pc = "slow"
               /\ ~ Fits(call.n)
               /\ Die

\* The primitive returns the word w to the client, its C locals go away.
Return(w) ==
    /\ slot' = [slot EXCEPT ![ArgA] = UNINITIALIZED, ![ArgB] = UNINITIALIZED,
                            ![call.dst] = w]
    /\ pc' = "run"
    /\ call' = NoCall
    /\ UNCHANGED <<num_val_roots, sp, areas, alloc_ptr, gcvars>>

\* It returns a new object of m body words in the words it allocated.
ReturnObject(t, m, b) ==
    /\ mem' = [h \in DOMAIN mem \cup {alloc_ptr} |->
                 IF h = alloc_ptr
                 THEN [type |-> t, numwords |-> m, size |-> m, body |-> b,
                       id |-> nextid]
                 ELSE mem[h]]
    /\ nextid' = nextid + 1
    /\ Return(ALLOCATED_FROM_POINTER(alloc_ptr))

FillCons ==
    /\ pc = "fill"
    /\ call.op = "cons"
    /\ ReturnObject(TYPE_PAIR, 2,
                    [k \in 1..2 |-> IF k = 1 THEN slot[ArgA] ELSE slot[ArgB]])
    /\ UNCHANGED ptr_roots

FillBignum(b) ==
    /\ pc = "fill"
    /\ call.op = "bignum"
    /\ ReturnObject(TYPE_BIGNUM, call.len, [k \in 1..call.len |-> b])
    /\ UNCHANGED ptr_roots

\* Fault: bignum_add returns without PTR_UNREGISTER.
PtrRootsKept == ptr_roots
\* PTR_UNREGISTER(amoves+bmoves)
PtrRootsAfterAdd == {}

\* bignum_add: the sum has one word more than the longer operand, or fewer.
FillAdd(m, b) ==
    /\ pc = "fill"
    /\ call.op = "add"
    /\ m <= call.len + 1
    /\ m <= MaxWords
    /\ ReturnObject(TYPE_BIGNUM, m, [k \in 1..m |-> b])
    /\ ptr_roots' = PtrRootsAfterAdd

\* The sum is a fixnum; the words allocated for it stay unused.
FillAddFixnum(v) ==
    /\ pc = "fill"
    /\ call.op = "add"
    /\ is_fixnum(v)
    /\ Return(v)
    /\ ptr_roots' = PtrRootsAfterAdd
    /\ UNCHANGED <<mem, nextid>>

-----------------------------------------------------------------------------
(***************************************************************************)
(* vm_mem_gc.  GC_HANDLE_SLOT on a word w: what the word becomes, what     *)
(* happens to the memory, and whether every ASSERT on the way holds.       *)
(***************************************************************************)
Old(w) == alloc_area + w
\* Fault: the cleared length byte is not looked at.
MovesAlways(w) == is_allocated(w)
\* The object has not been copied yet: its length has not been cleared.
Moves(w) == is_allocated(w) /\ mem[Old(w)].numwords # 0

\* Fault: no room is made for the head.
NewHeadShort(w) == newptr - WordSize * mem[Old(w)].numwords
NewHead(w) == newptr - WordSize * (mem[Old(w)].numwords + 1)
NewPtr(w) == IF Moves(w) THEN NewHead(w) ELSE newptr

NewWord(w) == IF ~ is_allocated(w) THEN w
              ELSE IF Moves(w) THEN ALLOCATED_FROM_POINTER_TOSPACE(NewHead(w))
              ELSE mem[Old(w)].body[1]

\* Fault: the old object is not marked as moved.
MoveObjectUnmarked(w) ==
    [h \in DOMAIN mem \cup {NewHead(w)} |->
       IF h = NewHead(w) THEN mem[Old(w)] ELSE mem[h]]
\* The move: copy the object, leave a forwarding word in the old one.
MoveObject(w) ==
    [h \in DOMAIN mem \cup {NewHead(w)} |->
       IF h = NewHead(w) THEN mem[Old(w)]
       ELSE IF h = Old(w)
       THEN [mem[h] EXCEPT !.numwords = 0,
                           !.body = [@ EXCEPT ![1] = NewWord(w)]]
       ELSE mem[h]]
NewMem(w) == IF Moves(w) THEN MoveObject(w) ELSE mem

SlotOK(w) == is_allocated(w) =>
    /\ w # 0 /\ w < alloc_size
    /\ Old(w) \in DOMAIN mem
    /\ Moves(w) => /\ mem[Old(w)].numwords < GcLenLimit
                   /\ NewHead(w) > alloc_area_fresh

FailAssert == /\ pc' = "assert"
              /\ UNCHANGED <<slot, mem, gcvars>>

\* _vm_process_alloc_slow calls vm_mem_gc.
StartGC ==
    /\ pc = "alloc"
    /\ ~ Fits(call.n)
    /\ pc' = "roots"
    /\ root' = 1
    /\ newptr' = alloc_area_fresh + alloc_size
    /\ ptr' = newptr' /\ old_start' = newptr' /\ end' = newptr'
    /\ fld' = 1
    /\ UNCHANGED <<slot, roots, areas, alloc_ptr, mem, nextid, call>>

\* A ptr root holds the address of an object's body.
RootWord(s) == IF s \in ArgSlot THEN ALLOCATED_FROM_POINTER(slot[s] - WordSize)
                                ELSE slot[s]
NewRoot(s) == IF s \in ArgSlot
              THEN alloc_area_fresh + NewWord(RootWord(s)) + WordSize
              ELSE NewWord(RootWord(s))

\* The root loops: handle the slot, go on to the next one that is a root.
GcRoot ==
    /\ pc = "roots"
    /\ root <= LastSlot
    /\ IF SlotOK(RootWord(root))
       THEN /\ slot' = [slot EXCEPT ![root] = NewRoot(root)]
            /\ mem' = NewMem(RootWord(root))
            /\ newptr' = NewPtr(RootWord(root))
            /\ root' \in (root + 1)..(LastSlot + 1)
            /\ root' <= LastSlot => IsRoot(root')
            /\ \A s \in (root + 1)..(root' - 1) : ~ IsRoot(s)
            /\ UNCHANGED <<pc, ptr, fld, old_start, end>>
       ELSE FailAssert
    /\ UNCHANGED <<roots, areas, alloc_ptr, nextid, call>>

GcRootsDone ==
    /\ pc = "roots"
    /\ root > LastSlot
    /\ pc' = "scan"
    /\ old_start' = newptr
    /\ ptr' = newptr
    /\ UNCHANGED <<slot, roots, areas, alloc_ptr, mem, nextid, call,
                   newptr, root, fld, end>>

\* Fault: the loop stops one field earlier still.
FieldsVisitedLess(len) == 1..(len - 2)
\* for (i = 1; i < len; i++): the last field is not visited.
FieldsVisited(len) == 1..(len - 1)

ToScan == IF ptr \in DOMAIN mem /\ ~ TYPE_IS_BINARY(mem[ptr].type)
          THEN FieldsVisited(mem[ptr].numwords) ELSE {}

\* ASSERT(len): a copy is never a forwarded object.
GcScanField ==
    /\ pc = "scan"
    /\ ptr < end
    /\ fld \in ToScan
    /\ LET w == mem[ptr].body[fld] IN
       IF SlotOK(w)
       THEN /\ mem' = [NewMem(w) EXCEPT
                         ![ptr].body = [@ EXCEPT ![fld] = NewWord(w)]]
            /\ newptr' = NewPtr(w)
            /\ fld' = fld + 1
            /\ UNCHANGED <<slot, pc, root, ptr, old_start, end>>
       ELSE FailAssert
    /\ UNCHANGED <<roots, areas, alloc_ptr, nextid, call>>

GcNextObject ==
    /\ pc = "scan"
    /\ ptr < end
    /\ fld \notin ToScan
    /\ IF ptr \in DOMAIN mem /\ mem[ptr].numwords # 0
       THEN /\ ptr' = ptr + WordSize * (mem[ptr].numwords + 1)
            /\ fld' = 1
            /\ UNCHANGED <<slot, mem, pc, newptr, root, old_start, end>>
       ELSE FailAssert
    /\ UNCHANGED <<roots, areas, alloc_ptr, nextid, call>>

\* Fault: a round that copied nothing is followed by another.
AnotherRoundAlways == newptr <= old_start
\* Objects were copied below old_start during the round: scan them too.
AnotherRound == newptr < old_start

GcNextRound ==
    /\ pc = "scan"
    /\ ptr >= end
    /\ AnotherRound
    /\ end' = old_start
    /\ old_start' = newptr
    /\ ptr' = newptr
    /\ UNCHANGED <<slot, roots, areas, alloc_ptr, mem, nextid, pc, call,
                   newptr, root, fld>>

\* Flip the areas; what is left in the old one is gone.
GcFlip ==
    /\ pc = "scan"
    /\ ptr >= end
    /\ ~ AnotherRound
    /\ pc' = "slow"
    /\ alloc_area' = alloc_area_fresh
    /\ alloc_area_fresh' = alloc_area
    /\ alloc_ptr' = newptr
    /\ mem' = [h \in {g \in DOMAIN mem : /\ alloc_area_fresh <= g
                                         /\ g < alloc_area_fresh + alloc_size}
                 |-> mem[h]]
    /\ newptr' = 0 /\ root' = 0 /\ ptr' = 0 /\ fld' = 0
    /\ old_start' = 0 /\ end' = 0
    /\ UNCHANGED <<slot, roots, nextid, call>>

-----------------------------------------------------------------------------
ClientStep ==
    \/ \E s \in Writable, v \in ClientWords : Assign(s, v)
    \/ \E s \in Writable, t \in Slot, k \in 1..2 : Client(t) /\ ReadField(s, t, k)
    \/ \E v \in ClientWords : Push(v)
    \/ PushFull
    \/ \E r \in ClientRegs : Pop(r)
    \/ PopEmpty
    \/ \E v \in ClientWords : Register(v)
    \/ OutOfValRoots
    \/ \E n \in 1..VM_NUM_VAL_ROOTS : Unregister(n)
    \/ \E n \in 1..VM_NUM_VAL_ROOTS : NoValRootsLeft(n)
    \/ \E v, w \in ClientWords, r \in ClientRegs : Cons(v, w, r)
    \/ \E m \in 1..2, r \in ClientRegs : NewBignum(m, r)
    \/ \E v, w \in ClientWords, r \in ClientRegs : Add(v, w, r)
    \/ \E v, w \in ClientWords : AddNotInteger(v, w)

GcStep ==
    \/ StartGC
    \/ GcRoot
    \/ GcRootsDone
    \/ GcScanField
    \/ GcNextObject
    \/ GcNextRound
    \/ GcFlip

PrimitiveStep ==
    \/ AllocFast
    \/ AllocSlow
    \/ OutOfMemory
    \/ FillCons
    \/ \E b \in BodyWords : FillBignum(b)
    \/ \E m \in 1..MaxWords, b \in BodyWords : FillAdd(m, b)
    \/ \E v \in Immediates : FillAddFixnum(v)

Next == ClientStep \/ GcStep \/ PrimitiveStep

Spec == Init /\ [][Next]_vars

\* Once called, a primitive and the collector run without waiting for
\* anything: the program keeps executing.
FairSpec == Spec /\ WF_vars(GcStep \/ PrimitiveStep)

-----------------------------------------------------------------------------
(***************************************************************************)
(* Correctness.                                                            *)
(***************************************************************************)
TypeOK ==
    /\ slot \in [Slot -> Nat]
    /\ \A s \in Slot : s \notin ptr_roots => slot[s] \in Word
    /\ num_val_roots \in 0..VM_NUM_VAL_ROOTS
    /\ ptr_roots \subseteq ArgSlot
    /\ sp \in 0..stacklen
    /\ alloc_area \in {0, alloc_size}
    /\ alloc_area_fresh = alloc_size - alloc_area
    /\ alloc_ptr \in Nat
    /\ DOMAIN mem \subseteq Nat
    /\ \A h \in DOMAIN mem : mem[h] \in Object /\ mem[h].body \in [1..mem[h].size -> Word]
    /\ nextid \in Nat
    /\ pc \in PC
    /\ call \in [op : Op, n : Nat, len : Nat, dst : ClientRegs \cup {1}]
    /\ newptr \in Nat /\ root \in Nat /\ ptr \in Nat /\ fld \in Nat
    /\ old_start \in Nat /\ end \in Nat

\* No ASSERT of vm_mem_gc or of the pointer conversions fails, and the
\* collector never follows a word that is not an object's address.
NoAssertFails == pc # "assert"

\* Where the object at h ends.
Extent(h) == WordSize * (mem[h].size + 1)
InArea(h, area) == area < h /\ h + Extent(h) <= area + alloc_size
FromHeads == {h \in DOMAIN mem : InArea(h, alloc_area)}
ToHeads == {h \in DOMAIN mem : InArea(h, alloc_area_fresh)}

\* Objects lie in one area, above its first word (the guard that MEM_VERIFY
\* checks), never overlap, and the words just allocated belong to none.
HeapLayout ==
    /\ DOMAIN mem = FromHeads \cup ToHeads
    /\ ~ InGC => ToHeads = {}
    /\ \A g, h \in DOMAIN mem : g < h => g + Extent(g) <= h
    /\ \A h \in FromHeads : alloc_ptr <= h
    /\ pc = "fill" => \A h \in FromHeads : alloc_ptr + WordSize * call.n <= h

\* The word w, taken relative to an area, is immediate or an object there.
Refers(w, area) ==
    is_allocated(w) => /\ w > 0 /\ w < alloc_size
                       /\ (area + w) \in DOMAIN mem

RootDone(s) == pc = "scan" \/ (pc = "roots" /\ s < root)
FieldDone(h, k) ==
    /\ InGC
    /\ h \in ToHeads
    /\ \/ h >= end
       \/ old_start <= h /\ h < ptr
       \/ h = ptr /\ k < fld

AreaOfRoot(s) == IF RootDone(s) THEN alloc_area_fresh ELSE alloc_area
AreaOfField(h, k) ==
    IF InGC /\ FieldDone(h, k) THEN alloc_area_fresh ELSE alloc_area

\* The contents of the root slot s as an offset in area.
WordIn(s, area) == IF s \in ArgSlot /\ s \in ptr_roots
                   THEN slot[s] - WordSize - area ELSE slot[s]

\* Every root, every argument of a running primitive, and every field of a
\* live pair refers to an object: in the area the collector has got to for
\* that word, and in the current area outside a collection.
PointersOK ==
    /\ \A s \in Slot : IsRoot(s) =>
         /\ Refers(WordIn(s, AreaOfRoot(s)), AreaOfRoot(s))
         /\ s \in ptr_roots => is_allocated(WordIn(s, AreaOfRoot(s)))
    /\ call.op = "cons" => \A s \in ArgSlot : Refers(slot[s], alloc_area)
    /\ call.op = "add" => \A s \in ArgSlot :
         is_fixnum(slot[s]) \/ (slot[s] - WordSize) \in DOMAIN mem
    /\ \A h \in DOMAIN mem :
         mem[h].type = TYPE_PAIR /\ mem[h].numwords # 0 =>
            \A k \in 1..mem[h].size : Refers(mem[h].body[k], AreaOfField(h, k))

\* An object is copied once, whatever the number of references to it, and the
\* word left in its old place leads to that copy.
Forwarding ==
    /\ \A g, h \in ToHeads : mem[g].id = mem[h].id => g = h
    /\ \A h \in ToHeads : mem[h].numwords = mem[h].size
    /\ \A h \in FromHeads :
         IF mem[h].numwords = 0
         THEN LET copy == alloc_area_fresh + mem[h].body[1] IN
              copy \in ToHeads /\ mem[copy].id = mem[h].id
         ELSE mem[h].numwords = mem[h].size

\* A primitive that is called returns or the process dies: the allocator
\* tries once, and the collector's scan rounds come to an end.
CallsReturn == (pc # "run") ~> (pc \in {"run", "die", "assert"})
=============================================================================
