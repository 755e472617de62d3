----------------------------- MODULE VMMemProofs -----------------------------
(***************************************************************************)
(* The invariant IInv of VMMemInv is inductive, for every value of the     *)
(* constants that satisfies ConstantsOK and HostContract: areas of any     *)
(* size up to 64 KiB, any stack and any number of registered variables,    *)
(* pairs, and bignums of any length the collector accepts.                 *)
(*                                                                         *)
(* The order is that of Next: the client, the allocator and the            *)
(* primitives, then the collector.  The heart of it is CopyFits (the copy  *)
(* of an object always has room) and MoveShape (a move keeps the heap      *)
(* well formed); the lemmas about the steps of the collector follow how    *)
(* far each word has been brought forward.                                 *)
(***************************************************************************)
EXTENDS VMMemInv, TLAPS, FiniteSetTheorems

USE DEF WordSize

\* The constants as the steps below use them: sizes are even and small.
LEMMA SizeFacts ==
    ASSUME HostContract
    PROVE  /\ alloc_size \in Nat /\ alloc_size % 2 = 0
           /\ alloc_size > 0 /\ alloc_size <= WordValues
           /\ WordValues \in Nat /\ WordValues % 2 = 0
           /\ GcLenLimit \in Nat /\ 2 < GcLenLimit /\ GcLenLimit < 255
           /\ MaxWords \in Nat /\ 0 < MaxWords /\ MaxWords < GcLenLimit
           /\ Slot \subseteq Nat
  BY ConstantsOK DEF ConstantsOK, HostContract, alloc_size, Slot, LastSlot, ArgB,
     WordValues

\* The numbered slots: the kinds are disjoint and lie in Slot.
LEMMA SlotRanges ==
    /\ RegSlot \subseteq Slot /\ ValSlot \subseteq Slot
    /\ ArgSlot \subseteq Slot /\ StackSlot \subseteq Slot
    /\ RegSlot \cap ArgSlot = {} /\ ValSlot \cap ArgSlot = {}
    /\ StackSlot \cap ArgSlot = {} /\ ArgA # ArgB
    /\ ClientRegs \subseteq RegSlot
    /\ \A n \in 1..stacklen : ArgB + n \in StackSlot
    /\ \A n \in 0..(VM_NUM_VAL_ROOTS - 1) : 5 + n \in ValSlot
  BY ConstantsOK DEF ConstantsOK, RegSlot, ValSlot, ArgSlot, StackSlot, Slot,
     LastSlot, ArgA, ArgB

\* A word the client holds is an immediate or refers to a live object.
LEMMA ClientWordsOK ==
    ASSUME HostContract, IInv, pc = "run", NEW v \in ClientWords
    PROVE  v \in Nat /\ v \in Word /\ Refers(v, alloc_area)
<1>1. CASE v \in Immediates
  <2>1. v \in Word /\ ~ is_allocated(v)
    BY <1>1, ConstantsOK DEF ConstantsOK
  <2> QED BY <2>1 DEF Word, Refers
<1>2. CASE v \notin Immediates
  <2>1. PICK s \in Slot : Client(s) /\ v = slot[s]
    BY <1>2 DEF ClientWords
  <2>2. v \in Nat /\ v \in Word
    BY <2>1 DEF IInv, TypeOK, CallOK, NoCall
  <2>3. IsRoot(s) /\ s \notin ArgSlot /\ ~ RootDone(s)
    BY <2>1 DEF Client, RootDone
  <2>4. Refers(WordIn(s, AreaOfRoot(s)), AreaOfRoot(s))
    BY <2>3 DEF IInv, PointersOK
  <2> QED BY <2>1, <2>2, <2>3, <2>4 DEF AreaOfRoot, WordIn
<1> QED BY <1>1, <1>2

\* The arguments of a sum are found because they are registered: what
\* PointersOK says of them follows from what it says of the roots.
RootsFound == \A s \in Slot : IsRoot(s) =>
                /\ Refers(WordIn(s, AreaOfRoot(s)), AreaOfRoot(s))
                /\ s \in ptr_roots => is_allocated(WordIn(s, AreaOfRoot(s)))
OperandsFound == call.op = "add" => \A s \in ArgSlot :
                   is_fixnum(slot[s]) \/ (slot[s] - WordSize) \in DOMAIN mem

LEMMA RegisteredOperands ==
    TypeOK /\ CallOK /\ RootsFound => OperandsFound
<1> SUFFICES ASSUME TypeOK, CallOK, RootsFound, call.op = "add",
                    NEW s \in ArgSlot, s \in ptr_roots
             PROVE  (slot[s] - WordSize) \in DOMAIN mem
  BY DEF OperandsFound, CallOK
<1>1. s \in Slot /\ IsRoot(s)
  BY SlotRanges DEF IsRoot
<1>2. PICK area \in Int : area = AreaOfRoot(s)
  <2>1. alloc_size \in Int
    BY ConstantsOK DEF ConstantsOK, alloc_size, WordSize
  <2>2. alloc_area \in Int /\ alloc_area_fresh \in Int
    BY <2>1 DEF TypeOK
  <2>3. AreaOfRoot(s) \in Int
    BY <2>2 DEF AreaOfRoot
  <2> QED BY ONLY <2>3
<1>3. slot[s] \in Int
  BY <1>1 DEF TypeOK
<1>4. WordIn(s, area) = slot[s] - WordSize - area
  BY DEF WordIn
<1>5. Refers(WordIn(s, area), area) /\ is_allocated(WordIn(s, area))
  BY <1>1, <1>2 DEF RootsFound
<1>6. area + WordIn(s, area) \in DOMAIN mem
  BY <1>5 DEF Refers
<1> QED BY <1>2, <1>3, <1>4, <1>6 DEF WordSize

\* A client step that leaves the heap alone keeps the invariant if the slots do.
LEMMA ClientStepOK ==
    ASSUME HostContract, IInv, pc = "run", UNCHANGED heapvars,
           slot' \in [Slot -> Nat],
           \A s \in Slot : s \notin ptr_roots' => slot'[s] \in Word,
           num_val_roots' \in 0..VM_NUM_VAL_ROOTS,
           ptr_roots' \subseteq ArgSlot,
           sp' \in 0..stacklen,
           pc' \in {"run", "die", "alloc"},
           call' \in [op : Op, n : Nat, len : Nat, dst : ClientRegs \cup {1}],
           \A s \in Slot : IsRoot(s)' =>
             /\ Refers(WordIn(s, alloc_area)', alloc_area)
             /\ s \in ptr_roots' => is_allocated(WordIn(s, alloc_area)'),
           call'.op = "cons" => \A s \in ArgSlot : Refers(slot'[s], alloc_area),
           CallOK'
    PROVE  IInv'
<1> USE DEF heapvars, areas, gcvars
<1>1. TypeOK'
  BY DEF IInv, TypeOK, PC
<1>2. NoAssertFails' /\ ~ InGC /\ ~ InGC'
  BY DEF NoAssertFails, InGC
<1>3. /\ FromHeads' = FromHeads /\ ToHeads' = ToHeads
      /\ \A h : Extent(h)' = Extent(h)
  BY DEF FromHeads, ToHeads, InArea, Extent
<1>4. HeapLayout'
  BY <1>2, <1>3 DEF IInv, HeapLayout
<1>5. PointersOK'
  <2>1. \A s : ~ RootDone(s)'
    BY DEF RootDone
  <2>2. \A h, k : AreaOfField(h, k)' = alloc_area /\ AreaOfField(h, k) = alloc_area
    BY <1>2 DEF AreaOfField
  <2>3. \A w, area : Refers(w, area)' = Refers(w, area)
    BY DEF Refers
  <2>4. \A s \in Slot : IsRoot(s)' =>
             /\ Refers(WordIn(s, AreaOfRoot(s)), AreaOfRoot(s))'
             /\ s \in ptr_roots' => is_allocated(WordIn(s, AreaOfRoot(s)))'
    BY <2>1, <2>3 DEF AreaOfRoot, WordIn, Refers, is_allocated
  <2>5. RootsFound'
    BY <2>4 DEF RootsFound
  <2>6. OperandsFound'
    BY <1>1, <2>5, RegisteredOperands, PTL
  <2> QED BY <2>2, <2>3, <2>5, <2>6 DEF IInv, PointersOK, Refers, RootsFound, OperandsFound
<1>6. ObjectsOK' /\ ForwardOK' /\ Tiles' /\ ScanOK' /\ SpaceOK' /\ AllocOK'
  BY <1>2, <1>3 DEF IInv, ObjectsOK, ForwardOK, Tiles, ScanOK, SpaceOK, AllocOK,
     InGC, Refers
<1> QED BY <1>1, <1>2, <1>4, <1>5, <1>6 DEF IInv

\* While the client runs, no primitive is active and every root is current.
LEMMA RunFacts ==
    ASSUME HostContract, IInv, pc = "run"
    PROVE  /\ ptr_roots = {} /\ call = NoCall /\ ~ InGC
           /\ \A s \in Slot : IsRoot(s) => Refers(slot[s], alloc_area)
           /\ slot \in [Slot -> Word]
<1>1. ptr_roots = {} /\ call = NoCall /\ ~ InGC
  BY DEF IInv, CallOK, NoCall, InGC
<1>2. \A s : ~ RootDone(s)
  BY DEF RootDone
<1>3. \A s \in Slot : IsRoot(s) => Refers(slot[s], alloc_area)
  BY <1>1, <1>2 DEF IInv, PointersOK, AreaOfRoot, WordIn
<1>4. slot \in [Slot -> Word]
  BY <1>1 DEF IInv, TypeOK
<1> QED BY <1>1, <1>3, <1>4

\* The same for a step that calls no primitive.
LEMMA SimpleClientOK ==
    ASSUME HostContract, IInv, pc = "run", UNCHANGED <<heapvars, call, ptr_roots>>,
           slot' \in [Slot -> Word],
           num_val_roots' \in 0..VM_NUM_VAL_ROOTS,
           sp' \in 0..stacklen,
           pc' \in {"run", "die"},
           \A s \in Slot : IsRoot(s)' => Refers(slot'[s], alloc_area)
    PROVE  IInv'
<1>1. ptr_roots = {} /\ call = NoCall
  BY RunFacts
<1>2. /\ ptr_roots' \subseteq ArgSlot
      /\ call' \in [op : Op, n : Nat, len : Nat, dst : ClientRegs \cup {1}]
      /\ call'.op # "cons"
  BY <1>1 DEF NoCall, Op
<1>3. \A s \in Slot : IsRoot(s)' =>
             /\ Refers(WordIn(s, alloc_area)', alloc_area)
             /\ s \in ptr_roots' => is_allocated(WordIn(s, alloc_area)')
  BY <1>1 DEF WordIn
<1>4. CallOK'
  BY <1>1 DEF CallOK, NoCall
<1>5. slot' \in [Slot -> Nat] /\ \A s \in Slot : slot'[s] \in Word
  BY SizeFacts DEF Word
<1> QED BY <1>2, <1>3, <1>4, <1>5, ClientStepOK DEF heapvars

\* DIE changes nothing but the program counter.
LEMMA DieOK ==
    ASSUME HostContract, IInv, pc = "run", Die
    PROVE  IInv'
<1>1. \A s \in Slot : IsRoot(s)' <=> IsRoot(s)
  BY DEF Die, IsRoot, roots
<1>2. \A s \in Slot : IsRoot(s)' => Refers(slot'[s], alloc_area)
  BY <1>1, RunFacts DEF Die
<1>3. slot' \in [Slot -> Word]
  BY RunFacts DEF Die
<1> QED BY <1>2, <1>3, SimpleClientOK DEF Die, roots, IInv, TypeOK

\* Assign: a register or variable receives a word the client holds.
LEMMA AssignOK ==
    ASSUME HostContract, IInv, NEW s \in Writable, NEW v \in ClientWords,
           Assign(s, v)
    PROVE  IInv'
<1>1. v \in Word /\ Refers(v, alloc_area)
  BY ClientWordsOK DEF Assign
<1>2. slot' \in [Slot -> Word]
  BY <1>1, RunFacts DEF Assign, Writable
<1>3. \A t \in Slot : IsRoot(t)' <=> IsRoot(t)
  BY DEF Assign, IsRoot, roots
<1>4. \A t \in Slot : IsRoot(t)' => Refers(slot'[t], alloc_area)
  BY <1>1, <1>3, RunFacts DEF Assign, IInv, TypeOK
<1> QED BY <1>2, <1>4, SimpleClientOK DEF Assign, roots, IInv, TypeOK

\* ReadField: the fields of a live pair are words the client may hold.
LEMMA ReadFieldOK ==
    ASSUME HostContract, IInv, NEW s \in Writable, NEW t \in Slot, NEW k \in 1..2,
           Client(t), ReadField(s, t, k)
    PROVE  IInv'
<1> DEFINE h == alloc_area + slot[t]
<1>1. h \in DOMAIN mem /\ mem[h].type = TYPE_PAIR
  BY DEF ReadField, IsPair, HasObject, ObjectOf
<1>2. pc = "run" /\ ~ InGC
  BY DEF ReadField, InGC
<1>3. mem[h].size = 2 /\ mem[h].numwords = 2
  <2>1. mem[h].size = 2
    BY <1>1 DEF IInv, ObjectsOK
  <2>2. h \in FromHeads
    BY <1>1, <1>2 DEF IInv, HeapLayout
  <2> QED BY <2>1, <2>2, <1>2 DEF IInv, ForwardOK
<1>4. Refers(mem[h].body[k], alloc_area)
  <2>1. AreaOfField(h, k) = alloc_area
    BY <1>2 DEF AreaOfField
  <2> QED BY <1>1, <1>3, <2>1 DEF IInv, PointersOK
<1>5. mem[h].body[k] \in Word
  <2>1. mem[h].body \in [1..2 -> Word]
    BY <1>1, <1>3 DEF IInv, TypeOK
  <2> QED BY <2>1, SizeFacts DEF Word
<1>6. slot' = [slot EXCEPT ![s] = mem[h].body[k]]
  BY DEF ReadField, ObjectOf
<1>7. slot' \in [Slot -> Word]
  BY <1>5, <1>6, RunFacts DEF Writable, ReadField
<1>8. \A u \in Slot : IsRoot(u)' <=> IsRoot(u)
  BY DEF ReadField, IsRoot, roots
<1>9. \A u \in Slot : IsRoot(u)' => Refers(slot'[u], alloc_area)
  <2> HIDE DEF h
  <2> QED BY <1>2, <1>4, <1>6, <1>8, RunFacts DEF IInv, TypeOK
<1>10. UNCHANGED <<heapvars, call, ptr_roots, num_val_roots, sp, pc>>
  BY DEF ReadField, roots
<1>11. num_val_roots \in 0..VM_NUM_VAL_ROOTS /\ sp \in 0..stacklen
  BY DEF IInv, TypeOK
<1> HIDE DEF h
<1> QED BY <1>2, <1>7, <1>9, <1>10, <1>11, SimpleClientOK

\* Push: the slot that becomes a root holds the pushed word.
LEMMA PushOK ==
    ASSUME HostContract, IInv, NEW v \in ClientWords, Push(v)
    PROVE  IInv'
<1>1. v \in Word /\ Refers(v, alloc_area)
  BY ClientWordsOK DEF Push
<1>2. /\ sp \in 0..stacklen /\ stacklen \in Nat /\ slot \in [Slot -> Word]
      /\ sp' = sp + 1 /\ sp < stacklen
      /\ slot' = [slot EXCEPT ![ArgB + sp + 1] = v]
      /\ ArgB \in Nat
  BY ConstantsOK, RunFacts DEF ConstantsOK, IInv, TypeOK, Push, ArgB
<1>3a. slot' \in [Slot -> Word]
  BY <1>1, <1>2
<1>3b. sp' \in 0..stacklen
  BY <1>2
<1>3. slot' \in [Slot -> Word] /\ sp' \in 0..stacklen
  BY <1>3a, <1>3b
<1>4. \A t \in Slot : IsRoot(t)' => IsRoot(t) \/ t = ArgB + sp + 1
  BY <1>2 DEF Push, IsRoot, Slot, StackSlot
<1>5. \A t \in Slot : IsRoot(t)' => Refers(slot'[t], alloc_area)
  BY <1>1, <1>2, <1>4, RunFacts DEF Push
<1> QED BY <1>3, <1>5, SimpleClientOK DEF Push, IInv, TypeOK

\* Pop: the slot that is forgotten is the only one that stops being a root.
LEMMA PopOK ==
    ASSUME HostContract, IInv, NEW r \in ClientRegs, Pop(r)
    PROVE  IInv'
<1>1. /\ sp \in 0..stacklen /\ stacklen \in Nat /\ slot \in [Slot -> Word]
      /\ sp' = sp - 1 /\ sp > 0 /\ ArgB \in Nat
      /\ slot' = [slot EXCEPT ![r] = slot[ArgB + sp], ![ArgB + sp] = UNINITIALIZED]
  <2>1. sp \in 0..stacklen
    BY DEF IInv, TypeOK
  <2>2. stacklen \in Nat /\ ArgB \in Nat
    BY ConstantsOK DEF ConstantsOK, ArgB
  <2>3. slot \in [Slot -> Word]
    BY RunFacts DEF Pop
  <2> QED BY <2>1, <2>2, <2>3 DEF Pop
<1>2. r \in Slot /\ ArgB + sp \in StackSlot /\ ArgB + sp \in Slot /\ IsRoot(ArgB + sp)
  BY <1>1, SlotRanges DEF IsRoot
<1>3. UNINITIALIZED \in Word
  BY ConstantsOK, SizeFacts DEF ConstantsOK, Word
<1>4a. slot' \in [Slot -> Word]
  BY <1>1, <1>2, <1>3
<1>4b. sp' \in 0..stacklen
  BY <1>1
<1>4. slot' \in [Slot -> Word] /\ sp' \in 0..stacklen
  BY <1>4a, <1>4b
<1>5. \A t \in Slot : IsRoot(t)' => IsRoot(t) /\ t # ArgB + sp
  <2> SUFFICES ASSUME NEW t \in Slot, IsRoot(t)' PROVE IsRoot(t) /\ t # ArgB + sp
    OBVIOUS
  <2>1. t \in Nat /\ (t < ArgB + sp \/ t \in ptr_roots)
    <3>1. t \in RegSlot \cup ValSlot \/ (t \in StackSlot /\ t <= ArgB + sp - 1) \/ t \in ptr_roots
      BY <1>1 DEF Pop, IsRoot
    <3>2. t \in Nat /\ VM_NUM_VAL_ROOTS \in Nat
      BY ConstantsOK, SlotRanges DEF ConstantsOK, Slot
    <3>3. t \in RegSlot \cup ValSlot => t < ArgB + sp
      BY <1>1, <3>2 DEF RegSlot, ValSlot, ArgB
    <3>4. t \in StackSlot /\ t <= ArgB + sp - 1 => t < ArgB + sp
      BY <1>1, <3>2
    <3> QED BY <3>1, <3>2, <3>3, <3>4
  <2>2. ptr_roots = {}
    BY RunFacts DEF Pop
  <2>3. IsRoot(t)
    BY <1>1, <2>2 DEF Pop, IsRoot, StackSlot
  <2> QED BY <1>1, <2>1, <2>2, <2>3
<1>6. \A t \in Slot : IsRoot(t)' => slot'[t] = slot[t] \/ slot'[t] = slot[ArgB + sp]
  BY <1>1, <1>2, <1>5
<1>7. \A t \in Slot : IsRoot(t)' => Refers(slot'[t], alloc_area)
  BY <1>2, <1>5, <1>6, RunFacts DEF Pop
<1> QED BY <1>4, <1>7, SimpleClientOK DEF Pop, IInv, TypeOK

\* Register: the new root holds a word the client holds.
LEMMA RegisterOK ==
    ASSUME HostContract, IInv, NEW v \in ClientWords, Register(v)
    PROVE  IInv'
<1>1. v \in Word /\ Refers(v, alloc_area)
  BY ClientWordsOK DEF Register
<1>2. /\ num_val_roots \in 0..VM_NUM_VAL_ROOTS /\ VM_NUM_VAL_ROOTS \in Nat
      /\ slot \in [Slot -> Word] /\ num_val_roots < VM_NUM_VAL_ROOTS - 1
      /\ num_val_roots' = num_val_roots + 1
      /\ slot' = [slot EXCEPT ![5 + num_val_roots] = v]
  BY ConstantsOK, RunFacts DEF ConstantsOK, IInv, TypeOK, Register
<1>3a. slot' \in [Slot -> Word]
  BY <1>1, <1>2
<1>3b. num_val_roots' \in 0..VM_NUM_VAL_ROOTS
  BY <1>2
<1>3. slot' \in [Slot -> Word] /\ num_val_roots' \in 0..VM_NUM_VAL_ROOTS
  BY <1>3a, <1>3b
<1>4. \A t \in Slot : IsRoot(t)' => IsRoot(t) \/ t = 5 + num_val_roots
  BY <1>2 DEF Register, IsRoot, Slot
<1>5. \A t \in Slot : IsRoot(t)' => Refers(slot'[t], alloc_area)
  BY <1>1, <1>2, <1>4, RunFacts DEF Register
<1> QED BY <1>3, <1>5, SimpleClientOK DEF Register, IInv, TypeOK

\* Unregister: the remaining variables keep their words.
LEMMA UnregisterOK ==
    ASSUME HostContract, IInv, NEW n \in 1..VM_NUM_VAL_ROOTS, Unregister(n)
    PROVE  IInv'
<1>1. /\ num_val_roots \in 0..VM_NUM_VAL_ROOTS /\ VM_NUM_VAL_ROOTS \in Nat
      /\ slot \in [Slot -> Word] /\ n <= num_val_roots
      /\ num_val_roots' = num_val_roots - n
  BY ConstantsOK, RunFacts DEF ConstantsOK, IInv, TypeOK, Unregister
<1>2. UNINITIALIZED \in Word
  BY ConstantsOK, SizeFacts DEF ConstantsOK, Word
<1>3. slot' \in [Slot -> Word] /\ num_val_roots' \in 0..VM_NUM_VAL_ROOTS
  BY <1>1, <1>2 DEF Unregister
<1>4. ASSUME NEW t \in Slot, IsRoot(t)' PROVE IsRoot(t) /\ slot'[t] = slot[t]
  <2>1. PICK m \in Nat, k \in Nat, size \in Nat :
            m = num_val_roots' /\ k = num_val_roots /\ size = VM_NUM_VAL_ROOTS /\ m <= k /\ k <= size
    BY <1>1, <1>3
  <2>1a. ptr_roots' = ptr_roots /\ ptr_roots = {} /\ sp' = sp
    BY RunFacts DEF Unregister
  <2>1b. t \in Nat /\ stacklen \in Nat
    BY SizeFacts, ConstantsOK DEF ConstantsOK
  <2>2. \/ t \in RegSlot
        \/ t \in ValSlot /\ t <= 4 + m
        \/ t \in StackSlot /\ t <= ArgB + sp
    BY <1>4, <2>1, <2>1a DEF IsRoot
  <2>3. IsRoot(t)
    <3>1. CASE t \in ValSlot /\ t <= 4 + m
      <4>1. t <= 4 + k
        <5> HIDE DEF ValSlot
        <5>1. m <= k /\ t <= 4 + m
          BY <2>1, <3>1
        <5> QED BY <2>1b, <5>1
      <4> QED BY <2>1, <3>1, <4>1 DEF IsRoot
    <3> QED BY <2>2, <3>1 DEF IsRoot
  <2>4. ASSUME t \in ValSlot PROVE ~ (t > 4 + m)
    <3>1. 5 <= t /\ t <= 4 + size
      BY <2>1, <2>1b, <2>4 DEF ValSlot
    <3>2. t \notin 1..4 /\ t \notin (6 + size + 1)..(6 + size + stacklen)
      BY <2>1, <2>1b, <3>1
    <3>3. t <= 4 + m
      BY <2>1, <2>2, <3>2 DEF RegSlot, StackSlot, ArgB
    <3> QED BY <2>1b, <3>3
  <2>5. slot'[t] = IF t \in ValSlot /\ t > 4 + m THEN UNINITIALIZED ELSE slot[t]
    BY <2>1 DEF Unregister
  <2> QED BY <2>3, <2>4, <2>5
<1>5. \A t \in Slot : IsRoot(t)' => Refers(slot'[t], alloc_area)
  BY <1>4, RunFacts DEF Unregister
<1> QED BY <1>3, <1>5, SimpleClientOK DEF Unregister, IInv, TypeOK

\* Outside a collection every object is whole and in the current area.
LEMMA LiveObjects ==
    ASSUME HostContract, IInv, ~ InGC, NEW h \in DOMAIN mem
    PROVE  h \in FromHeads /\ mem[h].numwords = mem[h].size
<1>1. h \in FromHeads
  BY DEF IInv, HeapLayout
<1> QED BY <1>1 DEF IInv, ForwardOK

\* An operand of a sum: its length, and the address bignum_add works with.
LEMMA OperandOK ==
    ASSUME HostContract, IInv, pc = "run", NEW v \in ClientWords, IsInteger(v)
    PROVE  /\ NumWords(v) \in 1..(GcLenLimit - 1)
           /\ Operand(v) \in Nat
           /\ is_fixnum(v) => Operand(v) \in Word
           /\ ~ is_fixnum(v) => /\ Operand(v) - WordSize - alloc_area = v
                               /\ is_allocated(v)
<1>1. v \in Nat /\ v \in Word /\ ~ InGC /\ alloc_area \in Nat
  <2>1. alloc_area \in Nat
    BY SizeFacts DEF IInv, TypeOK
  <2> QED BY <2>1, ClientWordsOK, RunFacts
<1>2. CASE is_fixnum(v)
  <2>1. NumWords(v) = 1 /\ Operand(v) = v
    BY <1>2 DEF NumWords, Operand
  <2>2. 1 \in 1..(GcLenLimit - 1)
    BY SizeFacts
  <2>3. NumWords(v) \in 1..(GcLenLimit - 1)
    BY <2>1, <2>2
  <2>4. Operand(v) \in Nat /\ Operand(v) \in Word
    BY <1>1, <2>1
  <2> QED BY <1>2, <2>3, <2>4
<1>3. CASE ~ is_fixnum(v)
  <2>1. is_allocated(v) /\ alloc_area + v \in DOMAIN mem
    BY <1>3 DEF IsInteger, IsBignum, HasObject
  <2>2. /\ mem[alloc_area + v].numwords = mem[alloc_area + v].size
        /\ mem[alloc_area + v].size < GcLenLimit
        /\ mem[alloc_area + v].size \in 1..255
    <3>1. mem[alloc_area + v].numwords = mem[alloc_area + v].size
      BY <1>1, <2>1, LiveObjects
    <3>2. mem[alloc_area + v].size < GcLenLimit
      BY <2>1 DEF IInv, ObjectsOK
    <3>3. mem[alloc_area + v] \in Object
      BY <2>1 DEF IInv, TypeOK
    <3>4. mem[alloc_area + v].size \in 1..255
      BY ONLY <3>3 DEF Object
    <3> QED BY <3>1, <3>2, <3>4
  <2>3. NumWords(v) \in 1..(GcLenLimit - 1)
    BY <1>3, <2>2, SizeFacts DEF NumWords, ObjectOf
  <2>4. Operand(v) = alloc_area + v + 2
    BY <1>3 DEF Operand
  <2> QED BY <1>1, <1>3, <2>1, <2>3, <2>4
<1> QED BY <1>2, <1>3

\* Cons: under the contract its arguments are current while it runs.
LEMMA ConsOK ==
    ASSUME HostContract, IInv, NEW v \in ClientWords, NEW w \in ClientWords,
           NEW r \in ClientRegs, Cons(v, w, r)
    PROVE  IInv'
<1> USE DEF roots
<1>1. /\ v \in Nat /\ v \in Word /\ Refers(v, alloc_area)
      /\ w \in Nat /\ w \in Word /\ Refers(w, alloc_area)
  BY ClientWordsOK DEF Cons
<1>2. /\ slot' = [slot EXCEPT ![ArgA] = v, ![ArgB] = w]
      /\ slot \in [Slot -> Nat]
      /\ call' = [op |-> "cons", n |-> 3, len |-> 2, dst |-> r]
      /\ pc = "run" /\ pc' = "alloc" /\ ptr_roots = {} /\ ptr_roots' = {}
  BY RunFacts DEF Cons, IInv, TypeOK
<1>3. slot' \in [Slot -> Nat] /\ \A s \in Slot : slot'[s] \in Word
  BY <1>1, <1>2, RunFacts
<1>4. \A s \in Slot : IsRoot(s)' => IsRoot(s) /\ s \notin ArgSlot
  BY <1>2, SlotRanges DEF Cons, IsRoot
<1>5. \A s \in Slot : IsRoot(s)' =>
             /\ Refers(WordIn(s, alloc_area)', alloc_area)
             /\ s \in ptr_roots' => is_allocated(WordIn(s, alloc_area)')
  BY <1>2, <1>4, RunFacts DEF WordIn, ArgSlot
<1>6. \A s \in ArgSlot : Refers(slot'[s], alloc_area)
  BY <1>1, <1>2, SlotRanges DEF ArgSlot
<1>7. call' \in [op : Op, n : Nat, len : Nat, dst : ClientRegs \cup {1}]
  BY <1>2 DEF Op
<1>8. CallOK'
  <2>1. slot'[ArgA] = v /\ slot'[ArgB] = w
    BY <1>2, SlotRanges DEF ArgSlot
  <2>2. ~ is_allocated(w) /\ (is_allocated(v) => Fits(3))
    BY DEF Cons, HostContract
  <2>3. Fits(3)' <=> Fits(3)
    BY DEF Fits, Cons, heapvars, areas
  <2> QED BY <1>2, <2>1, <2>2, <2>3 DEF CallOK
<1>9. UNCHANGED heapvars /\ num_val_roots' \in 0..VM_NUM_VAL_ROOTS /\ sp' \in 0..stacklen
  BY DEF Cons, IInv, TypeOK
<1> QED BY <1>2, <1>3, <1>5, <1>6, <1>7, <1>8, <1>9, ClientStepOK

\* NewBignum: the words it asks for are those of the bignum.
LEMMA NewBignumOK ==
    ASSUME HostContract, IInv, NEW m \in 1..2, NEW r \in ClientRegs,
           NewBignum(m, r)
    PROVE  IInv'
<1> USE DEF roots
<1>1. /\ slot' = slot /\ slot \in [Slot -> Nat] /\ \A s \in Slot : slot[s] \in Word
      /\ call' = [op |-> "bignum", n |-> m + 1, len |-> m, dst |-> r]
      /\ pc = "run" /\ pc' = "alloc" /\ ptr_roots = {} /\ ptr_roots' = {}
      /\ m \in 1..MaxWords /\ m \in Nat /\ m + 1 \in Nat
  <2>1. m \in 1..MaxWords /\ m \in Nat /\ m + 1 \in Nat
    BY SizeFacts DEF NewBignum
  <2> QED BY <2>1, RunFacts DEF NewBignum, IInv, TypeOK
<1>2. \A s \in Slot : IsRoot(s)' => IsRoot(s)
  BY DEF NewBignum, IsRoot
<1>3. \A s \in Slot : IsRoot(s)' =>
             /\ Refers(WordIn(s, alloc_area)', alloc_area)
             /\ s \in ptr_roots' => is_allocated(WordIn(s, alloc_area)')
  BY <1>1, <1>2, RunFacts DEF WordIn
<1>4. call' \in [op : Op, n : Nat, len : Nat, dst : ClientRegs \cup {1}]
  BY <1>1 DEF Op
<1>5. CallOK'
  BY <1>1 DEF CallOK
<1>6. UNCHANGED heapvars /\ num_val_roots' \in 0..VM_NUM_VAL_ROOTS /\ sp' \in 0..stacklen
  BY DEF NewBignum, IInv, TypeOK
<1> QED BY <1>1, <1>3, <1>4, <1>5, <1>6, ClientStepOK

\* Add: exactly the operands that are addresses become roots.
LEMMA AddOK ==
    ASSUME HostContract, IInv, NEW v \in ClientWords, NEW w \in ClientWords,
           NEW r \in ClientRegs, Add(v, w, r)
    PROVE  IInv'
<1> USE DEF roots
<1>1. /\ v \in Nat /\ Refers(v, alloc_area) /\ w \in Nat /\ Refers(w, alloc_area)
      /\ NumWords(v) \in 1..(GcLenLimit - 1) /\ NumWords(w) \in 1..(GcLenLimit - 1)
      /\ Operand(v) \in Nat /\ Operand(w) \in Nat
  BY ClientWordsOK, OperandOK DEF Add
<1>2. /\ slot' = [slot EXCEPT ![ArgA] = Operand(v), ![ArgB] = Operand(w)]
      /\ slot \in [Slot -> Nat]
      /\ call' = [op |-> "add", n |-> (Longer(v, w) + 2) % 256,
                  len |-> Longer(v, w), dst |-> r]
      /\ pc = "run" /\ pc' = "alloc" /\ ptr_roots = {}
      /\ ptr_roots' = MovingArgs(v, w)
  BY RunFacts DEF Add, IInv, TypeOK
<1>3. slot' \in [Slot -> Nat]
  BY <1>1, <1>2
<1>4. slot'[ArgA] = Operand(v) /\ slot'[ArgB] = Operand(w)
  BY <1>2, SlotRanges DEF ArgSlot
<1>4a. \A s \in Slot : s \notin ptr_roots' => slot'[s] \in Word
  <2> SUFFICES ASSUME NEW s \in Slot, s \notin ptr_roots' PROVE slot'[s] \in Word
    OBVIOUS
  <2>1. CASE s \in ArgSlot
    <3>1. is_fixnum(IF s = ArgA THEN v ELSE w)
      BY <1>2, <2>1 DEF MovingArgs
    <3> QED BY <1>4, <2>1, <3>1, OperandOK DEF ArgSlot, Add
  <2>2. CASE s \notin ArgSlot
    <3>1. slot'[s] = slot[s]
      BY <1>2, <2>2 DEF ArgSlot
    <3> QED BY <3>1, RunFacts DEF Add
  <2> QED BY <2>1, <2>2
<1>5. \A s \in Slot : IsRoot(s)' => s \in ptr_roots' \/ (IsRoot(s) /\ s \notin ArgSlot)
  BY <1>2, SlotRanges DEF Add, IsRoot
<1>6. \A s \in Slot : IsRoot(s)' =>
             /\ Refers(WordIn(s, alloc_area)', alloc_area)
             /\ s \in ptr_roots' => is_allocated(WordIn(s, alloc_area)')
  <2> SUFFICES ASSUME NEW s \in Slot, IsRoot(s)'
               PROVE  /\ Refers(WordIn(s, alloc_area)', alloc_area)
                      /\ s \in ptr_roots' => is_allocated(WordIn(s, alloc_area)')
    OBVIOUS
  <2>1. alloc_area' = alloc_area
    BY DEF Add, heapvars, areas
  <2>2. CASE s \in ptr_roots'
    <3>1. s \in ArgSlot /\ ~ is_fixnum(IF s = ArgA THEN v ELSE w)
      BY <1>2, <2>2 DEF MovingArgs
    <3>2. WordIn(s, alloc_area)' = (IF s = ArgA THEN v ELSE w)
      BY <1>4, <2>1, <2>2, <3>1, OperandOK DEF WordIn, ArgSlot, Add
    <3>3. is_allocated(IF s = ArgA THEN v ELSE w)
      BY <3>1, OperandOK DEF Add
    <3> QED BY <1>1, <3>2, <3>3
  <2>3. CASE s \notin ptr_roots'
    <3>1. WordIn(s, alloc_area)' = slot[s] /\ IsRoot(s)
      BY <1>2, <1>5, <2>3 DEF WordIn, ArgSlot
    <3> QED BY <1>2, <2>3, <3>1, RunFacts
  <2> QED BY <2>2, <2>3
<1>7. Longer(v, w) \in 1..(GcLenLimit - 1)
  BY <1>1 DEF Longer
<1>8. (Longer(v, w) + 2) % 256 = Longer(v, w) + 2
  <2>1. Longer(v, w) \in Nat /\ Longer(v, w) + 2 < 256
    BY <1>7, SizeFacts
  <2> QED BY <2>1
<1>9. Longer(v, w) \in Nat /\ Longer(v, w) + 2 \in Nat
  BY <1>7, SizeFacts
<1>10. call' \in [op : Op, n : Nat, len : Nat, dst : ClientRegs \cup {1}]
  BY <1>2, <1>8, <1>9 DEF Op
<1>11. CallOK'
  <2>1. \A s \in ArgSlot : is_fixnum(slot'[s]) \/ s \in ptr_roots'
    BY <1>2, <1>4, OperandOK DEF MovingArgs, Operand, ArgSlot
  <2> QED BY <1>2, <1>8, <2>1 DEF CallOK
<1>12. ptr_roots' \subseteq ArgSlot
  BY <1>2 DEF MovingArgs
<1>13. UNCHANGED heapvars /\ num_val_roots' \in 0..VM_NUM_VAL_ROOTS /\ sp' \in 0..stacklen
  BY DEF Add, IInv, TypeOK
<1>14. call'.op # "cons"
  BY <1>2
<1> QED BY <1>2, <1>3, <1>4a, <1>6, <1>10, <1>11, <1>12, <1>13, <1>14, ClientStepOK

\* Every client step keeps the invariant.
LEMMA ClientOK ==
    ASSUME HostContract, IInv, ClientStep
    PROVE  IInv'
<1>1. CASE \/ PushFull \/ PopEmpty \/ OutOfValRoots
           \/ \E n \in 1..VM_NUM_VAL_ROOTS : NoValRootsLeft(n)
           \/ \E v, w \in ClientWords : AddNotInteger(v, w)
  BY <1>1, DieOK DEF PushFull, PopEmpty, OutOfValRoots, NoValRootsLeft, AddNotInteger
<1>2. CASE \E r \in ClientRegs : Pop(r)
  BY <1>2, PopOK
<1>3. CASE \E v, w \in ClientWords, r \in ClientRegs : Cons(v, w, r) \/ Add(v, w, r)
  BY <1>3, ConsOK, AddOK
<1>4. CASE \E m \in 1..2, r \in ClientRegs : NewBignum(m, r)
  BY <1>4, NewBignumOK
<1>5. CASE \E s \in Writable, t \in Slot, k \in 1..2 : Client(t) /\ ReadField(s, t, k)
  BY <1>5, ReadFieldOK
<1>6. CASE \/ \E s \in Writable, v \in ClientWords : Assign(s, v)
           \/ \E v \in ClientWords : Push(v) \/ Register(v)
           \/ \E n \in 1..VM_NUM_VAL_ROOTS : Unregister(n)
  BY <1>6, AssignOK, PushOK, RegisterOK, UnregisterOK
<1> QED BY <1>1, <1>2, <1>3, <1>4, <1>5, <1>6 DEF ClientStep

\* The two areas are the halves of [0, 2 * alloc_size).
LEMMA AreaFacts ==
    ASSUME HostContract, TypeOK
    PROVE  /\ alloc_area \in Nat /\ alloc_area_fresh \in Nat /\ alloc_size \in Nat
           /\ alloc_area % 2 = 0 /\ alloc_area_fresh % 2 = 0
           /\ \/ alloc_area = 0 /\ alloc_area_fresh = alloc_size
              \/ alloc_area = alloc_size /\ alloc_area_fresh = 0
           /\ ToEnd \in Nat /\ ToEnd % 2 = 0
<1>1. \/ alloc_area = 0 /\ alloc_area_fresh = alloc_size
      \/ alloc_area = alloc_size /\ alloc_area_fresh = 0
  BY SizeFacts DEF TypeOK
<1> QED BY <1>1, SizeFacts DEF ToEnd

\* The invariant holds when malloc_process returns.
LEMMA InitInv ==
    ASSUME HostContract, Init
    PROVE  IInv
<1>1. /\ pc = "run" /\ ~ InGC /\ DOMAIN mem = {} /\ ptr_roots = {} /\ call = NoCall
      /\ slot = [s \in Slot |-> UNINITIALIZED]
  BY DEF Init, InGC
<1>2. UNINITIALIZED \in Nat /\ ~ is_allocated(UNINITIALIZED)
  BY ConstantsOK, SizeFacts DEF ConstantsOK, Word
<1>3. TypeOK
  BY <1>1, <1>2, SizeFacts, ConstantsOK
  DEF Init, TypeOK, PC, NoCall, Op, ConstantsOK
<1>4. FromHeads = {} /\ ToHeads = {}
  BY <1>1 DEF FromHeads, ToHeads
<1>5. HeapLayout
  BY <1>1, <1>4 DEF HeapLayout
<1>6. PointersOK
  BY <1>1, <1>2 DEF PointersOK, NoCall, WordIn, Refers
<1>7. AllocOK
  BY <1>1, SizeFacts DEF AllocOK, Init
<1>8. CallOK
  BY <1>1 DEF CallOK, NoCall
<1> QED BY <1>1, <1>3, <1>4, <1>5, <1>6, <1>7, <1>8
        DEF IInv, NoAssertFails, ObjectsOK, ForwardOK, Tiles, ScanOK, SpaceOK, InGC

\* A step outside a collection that moves nothing keeps the pointers.
LEMMA QuietOK ==
    ASSUME HostContract, IInv, ~ InGC, ~ InGC', pc' # "run",
           UNCHANGED <<slot, roots, areas, mem, nextid, call, gcvars>>
    PROVE  PointersOK' /\ ObjectsOK' /\ ForwardOK' /\ Tiles' /\ ScanOK' /\ SpaceOK'
<1> USE DEF roots, areas, gcvars
<1>1. FromHeads' = FromHeads /\ ToHeads' = ToHeads
  BY DEF FromHeads, ToHeads, InArea, Extent
<1>2. \A s \in Slot : /\ IsRoot(s)' <=> IsRoot(s)
                      /\ AreaOfRoot(s) = alloc_area /\ AreaOfRoot(s)' = alloc_area
  BY DEF IsRoot, AreaOfRoot, RootDone, InGC
<1>3. \A h, k : AreaOfField(h, k) = alloc_area /\ AreaOfField(h, k)' = alloc_area
  BY DEF AreaOfField
<1>4. PointersOK'
  <2>1. \A w : Refers(w, alloc_area)' <=> Refers(w, alloc_area)
    BY DEF Refers
  <2>2. \A s : WordIn(s, alloc_area)' = WordIn(s, alloc_area)
    BY DEF WordIn
  <2> QED BY <1>2, <1>3, <2>1, <2>2 DEF IInv, PointersOK, WordIn, Refers
<1>5. ObjectsOK' /\ ForwardOK'
  BY <1>1 DEF IInv, ObjectsOK, ForwardOK
<1> QED BY <1>4, <1>5 DEF Tiles, ScanOK, SpaceOK, InGC

\* What a running primitive has asked for.
LEMMA CallFacts ==
    ASSUME HostContract, IInv, pc \in {"alloc", "roots", "scan", "slow", "fill"}
    PROVE  /\ call.n \in Nat /\ call.n > 1 /\ call.len \in Nat
           /\ alloc_ptr \in Nat /\ alloc_area \in Nat /\ alloc_area_fresh \in Nat
<1>1. call.n \in Nat /\ call.len \in Nat /\ alloc_ptr \in Nat
  BY DEF IInv, TypeOK
<1>2. call.n > 1
  BY <1>1, SizeFacts DEF IInv, CallOK
<1> QED BY <1>1, <1>2, AreaFacts DEF IInv

\* AllocFast and AllocSlow: the words they hand out are free.
LEMMA AllocOKStep ==
    ASSUME HostContract, IInv, AllocFast \/ AllocSlow
    PROVE  IInv'
<1> USE DEF roots, areas, gcvars
<1>1. /\ pc \in {"alloc", "slow"} /\ pc' = "fill" /\ Fits(call.n)
      /\ alloc_ptr' = alloc_ptr - 2 * call.n
      /\ UNCHANGED <<slot, roots, areas, mem, nextid, call, gcvars>>
  BY DEF AllocFast, AllocSlow
<1>2. ~ InGC /\ ~ InGC'
  BY <1>1 DEF InGC
<1>3. PointersOK' /\ ObjectsOK' /\ ForwardOK' /\ Tiles' /\ ScanOK' /\ SpaceOK'
  BY <1>1, <1>2, QuietOK
<1>4. /\ call.n \in Nat /\ call.n > 1 /\ alloc_ptr \in Nat /\ alloc_area \in Nat
      /\ alloc_ptr - 2 * call.n > alloc_area
  BY <1>1, CallFacts DEF Fits
<1>5. TypeOK'
  <2>1. alloc_ptr' \in Nat
    BY <1>1, <1>4
  <2> QED BY <1>1, <2>1 DEF IInv, TypeOK, PC
<1>6. FromHeads' = FromHeads /\ ToHeads' = ToHeads /\ \A h : Extent(h)' = Extent(h)
  BY <1>1 DEF FromHeads, ToHeads, InArea, Extent
<1>7. HeapLayout'
  <2>1. \A h \in FromHeads : h \in Nat /\ alloc_ptr <= h
    BY DEF IInv, HeapLayout, FromHeads, TypeOK
  <2>2. \A h \in FromHeads : alloc_ptr' <= h /\ alloc_ptr' + 2 * call.n <= h
    BY <1>1, <1>4, <2>1
  <2> QED BY <1>1, <1>2, <1>6, <2>2 DEF IInv, HeapLayout
<1>8. AllocOK'
  <2>1. alloc_ptr % 2 = 0 /\ alloc_ptr <= alloc_area + alloc_size /\ alloc_size \in Nat
    BY SizeFacts DEF IInv, AllocOK
  <2>2. alloc_ptr' % 2 = 0
    BY <1>1, <1>4, <2>1
  <2>3. /\ alloc_area' < alloc_ptr'
        /\ alloc_ptr' <= alloc_area' + alloc_size
        /\ alloc_ptr' + 2 * call'.n <= alloc_area' + alloc_size
    BY <1>1, <1>4, <2>1
  <2> QED BY <2>2, <2>3 DEF AllocOK
<1>9. CallOK'
  BY <1>1 DEF IInv, CallOK
<1> QED BY <1>1, <1>3, <1>5, <1>7, <1>8, <1>9 DEF IInv, NoAssertFails

\* OutOfMemory: DIE after a collection that freed too little.
LEMMA OutOfMemoryOK ==
    ASSUME HostContract, IInv, OutOfMemory
    PROVE  IInv'
<1> USE DEF roots, areas, gcvars, heapvars
<1>1. /\ pc = "slow" /\ pc' = "die" /\ UNCHANGED alloc_ptr
      /\ UNCHANGED <<slot, roots, areas, mem, nextid, call, gcvars>>
  BY DEF OutOfMemory, Die
<1>2. ~ InGC /\ ~ InGC'
  BY <1>1 DEF InGC
<1>3. PointersOK' /\ ObjectsOK' /\ ForwardOK' /\ Tiles' /\ ScanOK' /\ SpaceOK'
  BY <1>1, <1>2, QuietOK
<1>4. TypeOK'
  BY <1>1 DEF IInv, TypeOK, PC
<1>5. HeapLayout'
  BY <1>1, <1>2 DEF IInv, HeapLayout, FromHeads, ToHeads, InArea, Extent
<1>6. AllocOK' /\ CallOK' /\ NoAssertFails'
  BY <1>1 DEF IInv, AllocOK, CallOK, NoAssertFails
<1> QED BY <1>3, <1>4, <1>5, <1>6 DEF IInv

\* A primitive that returns w leaves its arguments dead.
LEMMA ReturnOK ==
    ASSUME HostContract, IInv, pc = "fill", NEW w \in Word, Return(w),
           ptr_roots' = {}, nextid' \in Nat,
           DOMAIN mem' \subseteq Nat,
           \A h \in DOMAIN mem' : /\ mem'[h] \in Object
                                 /\ mem'[h].body \in [1..mem'[h].size -> Word],
           HeapLayout', ObjectsOK', ForwardOK',
           DOMAIN mem \subseteq DOMAIN mem',
           Refers(w, alloc_area)',
           \A h \in DOMAIN mem' :
              mem'[h].type = TYPE_PAIR /\ mem'[h].numwords # 0 =>
                \A k \in 1..mem'[h].size : Refers(mem[h].body[k], alloc_area)'
    PROVE  IInv'
<1> USE DEF areas, gcvars
<1>1. /\ pc' = "run" /\ call' = NoCall
      /\ slot' = [slot EXCEPT ![ArgA] = UNINITIALIZED, ![ArgB] = UNINITIALIZED,
                              ![call.dst] = w]
      /\ UNCHANGED <<num_val_roots, sp, areas, alloc_ptr, gcvars>>
  BY DEF Return
<1>2. ~ InGC /\ ~ InGC'
  BY <1>1 DEF InGC
<1>3. UNINITIALIZED \in Word
  BY ConstantsOK, SizeFacts DEF ConstantsOK, Word
<1>4. call.dst \in RegSlot /\ slot \in [Slot -> Nat]
  <2>1. call.dst \in ClientRegs \cup {1} /\ slot \in [Slot -> Nat]
    BY DEF IInv, TypeOK
  <2>2. 1 \in RegSlot
    BY DEF RegSlot
  <2> QED BY <2>1, <2>2, SlotRanges
<1>5. slot' \in [Slot -> Word]
  <2>1. ptr_roots \subseteq ArgSlot /\ \A s \in Slot : s \notin ptr_roots => slot[s] \in Word
    BY DEF IInv, TypeOK
  <2> QED BY <1>1, <1>3, <1>4, <2>1 DEF ArgSlot
<1>5a. slot' \in [Slot -> Nat] /\ \A s \in Slot : slot'[s] \in Word
  BY <1>5, SizeFacts DEF Word
<1>6. TypeOK'
  BY <1>1, <1>5a DEF IInv, TypeOK, PC, NoCall, Op
<1>7. \A s \in Slot : IsRoot(s)' =>
             /\ IsRoot(s)
             /\ s \notin ArgSlot
             /\ slot'[s] \in {slot[s], w}
  <2> SUFFICES ASSUME NEW s \in Slot, IsRoot(s)'
               PROVE  IsRoot(s) /\ s \notin ArgSlot /\ slot'[s] \in {slot[s], w}
    OBVIOUS
  <2>1. IsRoot(s) /\ s \notin ArgSlot
    BY <1>1, SlotRanges DEF IsRoot
  <2>2. s # ArgA /\ s # ArgB
    BY <2>1 DEF ArgSlot
  <2> QED BY <1>1, <1>4, <2>1, <2>2
<1>8. \A v : Refers(v, alloc_area) => Refers(v, alloc_area)'
  BY <1>1 DEF Refers
<1>9. PointersOK'
  <2>1. \A s \in Slot : IsRoot(s)' =>
         /\ Refers(WordIn(s, AreaOfRoot(s)), AreaOfRoot(s))'
         /\ s \in ptr_roots' => is_allocated(WordIn(s, AreaOfRoot(s)))'
    <3> SUFFICES ASSUME NEW s \in Slot, IsRoot(s)'
                 PROVE  Refers(WordIn(s, AreaOfRoot(s)), AreaOfRoot(s))'
      OBVIOUS
    <3>1. AreaOfRoot(s) = alloc_area /\ AreaOfRoot(s)' = alloc_area'
      BY <1>1 DEF AreaOfRoot, RootDone
    <3>2. WordIn(s, AreaOfRoot(s))' = slot'[s]
      BY DEF WordIn
    <3>3. Refers(slot[s], alloc_area)
      <4>1. AreaOfRoot(s) = alloc_area
        BY DEF AreaOfRoot, RootDone
      <4>2. WordIn(s, alloc_area) = slot[s]
        BY <1>7 DEF WordIn
      <4> QED BY <1>7, <4>1, <4>2 DEF IInv, PointersOK
    <3>4. \A v : v = slot[s] => Refers(v, alloc_area)'
      BY <1>8, <3>3
    <3>5. \A v : v = slot'[s] => Refers(v, alloc_area)'
      BY <1>7, <3>4
    <3> QED BY <1>1, <3>1, <3>2, <3>5 DEF Refers
  <2>2. \A h, k : AreaOfField(h, k)' = alloc_area'
    BY <1>2 DEF AreaOfField
  <2>3. call'.op # "cons" /\ call'.op # "add"
    BY <1>1 DEF NoCall
  <2>4. \A h \in DOMAIN mem' :
          mem'[h].type = TYPE_PAIR /\ mem'[h].numwords # 0 =>
            \A k \in 1..mem'[h].size : Refers(mem[h].body[k], AreaOfField(h, k))'
    BY <2>2 DEF Refers
  <2> QED BY <2>1, <2>3, <2>4 DEF PointersOK
<1>10. AllocOK' /\ CallOK' /\ NoAssertFails'
  BY <1>1 DEF IInv, AllocOK, CallOK, NoAssertFails, NoCall
<1>11. Tiles' /\ ScanOK' /\ SpaceOK'
  BY <1>1, <1>2 DEF Tiles, ScanOK, SpaceOK, InGC
<1> QED BY <1>6, <1>9, <1>10, <1>11 DEF IInv

\* A primitive that stores an object stores it in words that were free.
LEMMA ReturnObjectOK ==
    ASSUME HostContract, IInv, pc = "fill",
           NEW t \in {TYPE_PAIR, TYPE_BIGNUM}, NEW m \in 1..(GcLenLimit - 1),
           NEW b \in [1..m -> Word], m + 1 <= call.n, ptr_roots' = {},
           ReturnObject(t, m, b),
           t = TYPE_PAIR => /\ m = 2
                            /\ ~ is_allocated(b[2])
                            /\ Refers(b[1], alloc_area)
    PROVE  IInv'
<1> DEFINE w == alloc_ptr - alloc_area
           o == [type |-> t, numwords |-> m, size |-> m, body |-> b, id |-> nextid]
<1>1. /\ DOMAIN mem' = DOMAIN mem \cup {alloc_ptr}
      /\ mem'[alloc_ptr] = o
      /\ \A h \in DOMAIN mem : h # alloc_ptr => mem'[h] = mem[h]
      /\ nextid' = nextid + 1
      /\ Return(ALLOCATED_FROM_POINTER(alloc_ptr))
      /\ pc' = "run"
      /\ UNCHANGED <<alloc_area, alloc_area_fresh, alloc_ptr>>
  BY DEF ReturnObject, Return, areas
<1>2. /\ alloc_area \in Nat /\ alloc_size \in Nat /\ alloc_ptr \in Nat
      /\ alloc_ptr % 2 = 0 /\ alloc_area % 2 = 0
      /\ alloc_area < alloc_ptr /\ call.n \in Nat
      /\ alloc_ptr + 2 * call.n <= alloc_area + alloc_size
      /\ m \in Nat /\ m >= 1 /\ m < GcLenLimit /\ m < 255
  <2>1. /\ alloc_area \in Nat /\ alloc_size \in Nat /\ alloc_area % 2 = 0
    BY AreaFacts DEF IInv
  <2>2. alloc_ptr \in Nat /\ call.n \in Nat
    BY CallFacts
  <2>3. /\ alloc_ptr % 2 = 0 /\ alloc_area < alloc_ptr
        /\ alloc_ptr + 2 * call.n <= alloc_area + alloc_size
    BY DEF IInv, AllocOK
  <2>4. m \in Nat /\ m >= 1 /\ m < GcLenLimit /\ m < 255
    BY SizeFacts
  <2> QED BY <2>1, <2>2, <2>3, <2>4
<1>3. ~ InGC /\ ~ InGC' /\ ToHeads = {} /\ DOMAIN mem = FromHeads /\ DOMAIN mem \subseteq Nat
  BY <1>1 DEF InGC, IInv, HeapLayout, TypeOK
<1>4. w \in Nat /\ 0 < w /\ w < alloc_size /\ w % 2 = 0 /\ alloc_area + w = alloc_ptr
  BY <1>2
<1>5. ALLOCATED_FROM_POINTER(alloc_ptr) = w
  <2>1. w < WordValues /\ WordValues \in Nat
    BY <1>4, SizeFacts
  <2> QED BY <1>4, <2>1 DEF ALLOCATED_FROM_POINTER, OffsetFrom
<1>6. \A h \in DOMAIN mem : alloc_ptr + 2 * call.n <= h /\ h # alloc_ptr
  BY <1>2, <1>3 DEF IInv, HeapLayout
<1>7. o \in Object /\ o.body \in [1..o.size -> Word]
  <2>1. b \in Seq(Word)
    BY <1>2
  <2>2. nextid \in Nat
    BY DEF IInv, TypeOK
  <2>3. m \in 0..255 /\ m \in 1..255
    BY <1>2
  <2> QED BY <2>1, <2>2, <2>3 DEF Object
<1>8. /\ DOMAIN mem' \subseteq Nat /\ nextid' \in Nat
      /\ \A h \in DOMAIN mem' : /\ mem'[h] \in Object
                               /\ mem'[h].body \in [1..mem'[h].size -> Word]
  <2> HIDE DEF o
  <2>1. nextid' \in Nat
    BY <1>1 DEF IInv, TypeOK
  <2>2. DOMAIN mem' \subseteq Nat
    BY <1>1, <1>2, <1>3
  <2>3. \A h \in DOMAIN mem : mem[h] \in Object /\ mem[h].body \in [1..mem[h].size -> Word]
    BY DEF IInv, TypeOK
  <2>4. \A h \in DOMAIN mem' : mem'[h] = o \/ (h \in DOMAIN mem /\ mem'[h] = mem[h])
    BY <1>1, <1>6
  <2>5. \A h \in DOMAIN mem' : /\ mem'[h] \in Object
                                /\ mem'[h].body \in [1..mem'[h].size -> Word]
    <3> SUFFICES ASSUME NEW h \in DOMAIN mem'
                 PROVE  /\ mem'[h] \in Object
                        /\ mem'[h].body \in [1..mem'[h].size -> Word]
      OBVIOUS
    <3>1. CASE mem'[h] = o
      BY ONLY <3>1, <1>7
    <3>2. CASE h \in DOMAIN mem /\ mem'[h] = mem[h]
      BY ONLY <3>2, <2>3
    <3> QED BY <3>1, <3>2, <2>4
  <2> QED BY <2>1, <2>2, <2>5
<1>9. /\ \A h \in DOMAIN mem : Extent(h)' = Extent(h)
      /\ Extent(alloc_ptr)' = 2 * (m + 1)
  <2>1. mem'[alloc_ptr].size = m
    BY <1>1
  <2>2. \A h \in DOMAIN mem : mem'[h] = mem[h]
    BY <1>1, <1>6
  <2>3. \A h \in DOMAIN mem : Extent(h)' = Extent(h)
    BY ONLY <2>2 DEF Extent
  <2>4. Extent(alloc_ptr)' = 2 * (m + 1)
    <3>1. alloc_ptr' = alloc_ptr
      BY ONLY <1>1
    <3> QED BY ONLY <2>1, <3>1 DEF Extent, WordSize
  <2> QED BY ONLY <2>3, <2>4
<1>10. FromHeads' = FromHeads \cup {alloc_ptr} /\ ToHeads' = {}
  <2>0. alloc_ptr + 2 * (m + 1) <= alloc_area + alloc_size
    BY ONLY <1>2, m + 1 <= call.n
  <2>1. InArea(alloc_ptr, alloc_area)'
    <3>1. alloc_area' = alloc_area /\ alloc_ptr' = alloc_ptr
      BY ONLY <1>1
    <3>2. alloc_area' < alloc_ptr' /\ alloc_ptr' + Extent(alloc_ptr)' <= alloc_area' + alloc_size
      BY ONLY <1>2, <1>9, <2>0, <3>1
    <3> QED BY ONLY <3>2 DEF InArea
  <2>2. \A h \in DOMAIN mem : InArea(h, alloc_area)' /\ ~ InArea(h, alloc_area_fresh)'
    BY <1>1, <1>3, <1>9 DEF InArea, FromHeads, ToHeads
  <2>3. ~ InArea(alloc_ptr, alloc_area_fresh)'
    <3>1. \/ alloc_area = 0 /\ alloc_area_fresh = alloc_size
          \/ alloc_area = alloc_size /\ alloc_area_fresh = 0
      BY AreaFacts DEF IInv
    <3>2. alloc_area_fresh < alloc_ptr => alloc_ptr + 2 * (m + 1) > alloc_area_fresh + alloc_size
      BY <1>2, <3>1
    <3>3. Extent(alloc_ptr)' = 2 * (m + 1) /\ alloc_ptr' = alloc_ptr
          /\ alloc_area_fresh' = alloc_area_fresh /\ alloc_area_fresh \in Nat
      BY <1>1, <1>9, AreaFacts DEF IInv
    <3>4. InArea(alloc_ptr, alloc_area_fresh)'
          <=> /\ alloc_area_fresh < alloc_ptr
              /\ alloc_ptr + 2 * (m + 1) <= alloc_area_fresh + alloc_size
      BY <3>3 DEF InArea
    <3> QED BY <1>2, <3>2, <3>3, <3>4
  <2> QED BY <1>1, <1>3, <2>1, <2>2, <2>3 DEF FromHeads, ToHeads
<1>11. HeapLayout'
  <2>1. \A g, h \in DOMAIN mem' : g < h => g + Extent(g)' <= h
    <3> SUFFICES ASSUME NEW g \in DOMAIN mem', NEW h \in DOMAIN mem', g < h
                 PROVE  g + Extent(g)' <= h
      OBVIOUS
    <3>1. CASE g \in DOMAIN mem /\ h \in DOMAIN mem
      BY <3>1, <1>9 DEF IInv, HeapLayout
    <3>2. CASE g = alloc_ptr
      <4>0. h # alloc_ptr
        BY <3>2, <1>2
      <4>1. h \in DOMAIN mem /\ h \in Nat
        BY <4>0, <1>1, <1>3
      <4>2. alloc_ptr + 2 * call.n <= h
        BY <4>1, <1>6
      <4>3. Extent(g)' = 2 * (m + 1)
        BY <3>2, <1>1, <1>9
      <4> QED BY <3>2, <4>1, <4>2, <4>3, <1>2
    <3>3. CASE g \in DOMAIN mem /\ h = alloc_ptr
      BY <3>3, <1>2, <1>3, <1>6
    <3> QED BY <3>1, <3>2, <3>3, <1>1
  <2>2. \A h \in FromHeads' : alloc_ptr' <= h
    <3>1. alloc_ptr' = alloc_ptr /\ alloc_ptr \in Nat /\ call.n \in Nat
      BY <1>1, <1>2
    <3>2. \A h \in FromHeads : h \in Nat /\ alloc_ptr + 2 * call.n <= h
      BY <1>3, <1>6
    <3> QED BY ONLY <1>10, <3>1, <3>2
  <2>3. DOMAIN mem' = FromHeads' \cup ToHeads'
    BY <1>1, <1>3, <1>10
  <2>4. pc' # "fill"
    BY <1>1
  <2> QED BY <1>3, <1>10, <2>1, <2>2, <2>3, <2>4 DEF HeapLayout
<1>12. ObjectsOK'
  <2> SUFFICES ASSUME NEW h \in DOMAIN mem'
               PROVE  /\ h % 2 = 0
                      /\ mem'[h].size < GcLenLimit
                      /\ mem'[h].type = TYPE_PAIR => /\ mem'[h].size = 2
                                                     /\ ~ is_allocated(mem'[h].body[2])
    BY DEF ObjectsOK, is_allocated
  <2>1. CASE h = alloc_ptr
    BY <2>1, <1>1, <1>2
  <2>2. CASE h \in DOMAIN mem
    <3>1. mem'[h] = mem[h]
      BY <2>2, <1>1, <1>6
    <3> QED BY <2>2, <3>1 DEF IInv, ObjectsOK
  <2> QED BY <2>1, <2>2, <1>1
<1>13. ForwardOK'
  BY <1>1, <1>3, <1>6, <1>10 DEF IInv, ForwardOK
<1>14. \A v : Refers(v, alloc_area) => Refers(v, alloc_area)'
  BY <1>1 DEF Refers
<1>15. PICK c \in Word : c = w
  BY <1>4, SizeFacts DEF Word
<1>15a. Refers(c, alloc_area)'
  BY <1>1, <1>4, <1>15 DEF Refers
<1>16. ASSUME NEW h \in DOMAIN mem', mem'[h].type = TYPE_PAIR, mem'[h].numwords # 0,
              NEW k \in 1..mem'[h].size
       PROVE  Refers(mem[h].body[k], alloc_area)'
  <2>1. CASE h = alloc_ptr
    <3>1. m = 2 /\ t = TYPE_PAIR /\ k \in 1..2 /\ mem'[h].body = b
      BY <1>1, <1>16, <2>1
    <3>2. Refers(b[k], alloc_area)
      BY <3>1 DEF Refers
    <3>3. Refers(b[k], alloc_area)'
      BY <1>14, <3>2
    <3> QED BY <3>1, <3>3 DEF Refers
  <2>2. CASE h \in DOMAIN mem
    <3>1. mem'[h] = mem[h]
      BY <2>2, <1>1, <1>6
    <3>2. AreaOfField(h, k) = alloc_area
      BY <1>3 DEF AreaOfField
    <3>3. Refers(mem[h].body[k], alloc_area)
      BY <1>16, <2>2, <3>1, <3>2 DEF IInv, PointersOK
    <3>4. \A v : v = mem[h].body[k] => Refers(v, alloc_area)'
      BY <1>14, <3>3
    <3>5. \A v : v = mem'[h].body[k] => Refers(v, alloc_area)'
      BY <3>1, <3>4
    <3> QED BY <3>5 DEF Refers
  <2> QED BY <2>1, <2>2, <1>1
<1>17. DOMAIN mem \subseteq DOMAIN mem'
  BY <1>1
<1>18. Return(c)
  BY <1>1, <1>5, <1>15
<1>19. \A h \in DOMAIN mem' :
          mem'[h].type = TYPE_PAIR /\ mem'[h].numwords # 0 =>
            \A k \in 1..mem'[h].size : Refers(mem[h].body[k], alloc_area)'
  BY <1>16
<1> HIDE DEF w, o
<1> QED BY <1>8, <1>11, <1>12, <1>13, <1>15a, <1>17, <1>18, <1>19, ReturnOK

\* FillCons: the pair gets the arguments, which are still current.
LEMMA FillConsOK ==
    ASSUME HostContract, IInv, FillCons
    PROVE  IInv'
<1>1. /\ pc = "fill" /\ call.op = "cons" /\ ptr_roots = {} /\ ptr_roots' = {}
  BY DEF FillCons, IInv, CallOK
<1>2. /\ call.n = 3 /\ ~ is_allocated(slot[ArgB]) /\ Refers(slot[ArgA], alloc_area)
      /\ slot[ArgA] \in Word /\ slot[ArgB] \in Word
  BY <1>1, SlotRanges DEF IInv, CallOK, PointersOK, TypeOK, ArgSlot
<1>3. PICK b \in [1..2 -> Word] :
        b = [k \in 1..2 |-> IF k = 1 THEN slot[ArgA] ELSE slot[ArgB]]
  BY <1>2
<1>4. ReturnObject(TYPE_PAIR, 2, b)
  BY <1>3 DEF FillCons
<1>5. b[1] = slot[ArgA] /\ b[2] = slot[ArgB]
  BY <1>3
<1>6. \A m : m = 2 => m \in 1..(GcLenLimit - 1) /\ m + 1 <= call.n
  BY <1>2, SizeFacts
<1> QED BY <1>1, <1>2, <1>4, <1>5, <1>6, ReturnObjectOK

\* FillBignum: the digits are no pointers.
LEMMA FillBignumOK ==
    ASSUME HostContract, IInv, NEW d \in BodyWords, FillBignum(d)
    PROVE  IInv'
<1>1. /\ pc = "fill" /\ ptr_roots = {} /\ ptr_roots' = {}
      /\ call.len \in 1..MaxWords /\ call.n = call.len + 1
  BY DEF FillBignum, IInv, CallOK
<1>2. PICK m \in 1..(GcLenLimit - 1) : m = call.len
  BY <1>1, SizeFacts
<1>3. PICK b \in [1..m -> Word] : b = [k \in 1..m |-> d]
  BY ConstantsOK DEF ConstantsOK
<1>4. ReturnObject(TYPE_BIGNUM, m, b)
  BY <1>2, <1>3 DEF FillBignum
<1>5. m + 1 <= call.n
  BY <1>1, <1>2
<1> QED BY <1>1, <1>4, <1>5, ReturnObjectOK DEF TYPE_PAIR, TYPE_BIGNUM

\* FillAdd: the sum fits in the words that were allocated for it.
LEMMA FillAddOK ==
    ASSUME HostContract, IInv, NEW m \in 1..MaxWords, NEW d \in BodyWords,
           FillAdd(m, d)
    PROVE  IInv'
<1>1. /\ pc = "fill" /\ call.op = "add" /\ ptr_roots' = {}
      /\ call.len \in Nat /\ call.n = call.len + 2 /\ m <= call.len + 1
  BY CallFacts DEF FillAdd, IInv, CallOK, PtrRootsAfterAdd
<1>2. m \in 1..(GcLenLimit - 1) /\ m + 1 <= call.n
  BY <1>1, SizeFacts
<1>3. PICK b \in [1..m -> Word] : b = [k \in 1..m |-> d]
  BY ConstantsOK DEF ConstantsOK
<1>4. ReturnObject(TYPE_BIGNUM, m, b)
  BY <1>3 DEF FillAdd
<1> QED BY <1>1, <1>2, <1>4, ReturnObjectOK DEF TYPE_PAIR, TYPE_BIGNUM

\* FillAddFixnum: the allocated words stay unused.
LEMMA FillAddFixnumOK ==
    ASSUME HostContract, IInv, NEW v \in Immediates, FillAddFixnum(v)
    PROVE  IInv'
<1> USE DEF areas, gcvars
<1>1. /\ pc = "fill" /\ ptr_roots' = {} /\ mem' = mem /\ nextid' = nextid
      /\ pc' = "run" /\ Return(v) /\ UNCHANGED <<areas, alloc_ptr>>
  BY DEF FillAddFixnum, PtrRootsAfterAdd, Return
<1>2. v \in Word /\ ~ is_allocated(v)
  BY ConstantsOK DEF ConstantsOK
<1>3. ~ InGC /\ ~ InGC'
  BY <1>1 DEF InGC
<1>4. Refers(v, alloc_area)'
  BY <1>2 DEF Refers
<1>5. FromHeads' = FromHeads /\ ToHeads' = ToHeads /\ \A h : Extent(h)' = Extent(h)
  BY <1>1 DEF FromHeads, ToHeads, InArea, Extent
<1>6. HeapLayout' /\ ObjectsOK' /\ ForwardOK'
  BY <1>1, <1>3, <1>5 DEF IInv, HeapLayout, ObjectsOK, ForwardOK
<1>7. \A h \in DOMAIN mem' :
        mem'[h].type = TYPE_PAIR /\ mem'[h].numwords # 0 =>
          \A k \in 1..mem'[h].size : Refers(mem[h].body[k], alloc_area)'
  BY <1>1, <1>3 DEF IInv, PointersOK, AreaOfField, Refers
<1> QED BY <1>1, <1>2, <1>4, <1>6, <1>7, ReturnOK DEF IInv, TypeOK

\* Every step of a primitive keeps the invariant.
LEMMA PrimitiveOK ==
    ASSUME HostContract, IInv, PrimitiveStep
    PROVE  IInv'
<1>1. CASE AllocFast \/ AllocSlow \/ OutOfMemory
  BY <1>1, AllocOKStep, OutOfMemoryOK
<1>2. CASE FillCons \/ \E b \in BodyWords : FillBignum(b)
  BY <1>2, FillConsOK, FillBignumOK
<1>3. CASE \E m \in 1..MaxWords, b \in BodyWords : FillAdd(m, b)
  BY <1>3, FillAddOK
<1>4. CASE \E v \in Immediates : FillAddFixnum(v)
  BY <1>4, FillAddFixnumOK
<1> QED BY <1>1, <1>2, <1>3, <1>4 DEF PrimitiveStep

\* Every object lies in one of the two areas.
LEMMA HeadFacts ==
    ASSUME HostContract, IInv
    PROVE  /\ DOMAIN mem \subseteq Nat
           /\ \A h \in DOMAIN mem : /\ mem[h].size \in 1..(GcLenLimit - 1)
                                   /\ mem[h].numwords \in Nat
                                   /\ Extent(h) \in Nat /\ Extent(h) > 0
                                   /\ Extent(h) = 2 * (mem[h].size + 1)
           /\ FromHeads \cap ToHeads = {}
           /\ DOMAIN mem = FromHeads \cup ToHeads
           /\ \A h \in FromHeads : /\ alloc_area < h
                                   /\ h + Extent(h) <= alloc_area + alloc_size
           /\ \A h \in ToHeads : alloc_area_fresh < h /\ h + Extent(h) <= ToEnd
<1>1. DOMAIN mem \subseteq Nat /\ DOMAIN mem = FromHeads \cup ToHeads
  BY DEF IInv, TypeOK, HeapLayout
<1>2. ASSUME NEW h \in DOMAIN mem
      PROVE  /\ mem[h].size \in 1..(GcLenLimit - 1) /\ mem[h].numwords \in Nat
             /\ Extent(h) \in Nat /\ Extent(h) > 0 /\ Extent(h) = 2 * (mem[h].size + 1)
  <2>1. mem[h].size \in 1..255 /\ mem[h].numwords \in 0..255 /\ mem[h].size < GcLenLimit
    BY DEF IInv, TypeOK, Object, ObjectsOK
  <2>2. mem[h].size \in 1..(GcLenLimit - 1) /\ mem[h].numwords \in Nat
    BY <2>1, SizeFacts
  <2> QED BY <2>1, <2>2 DEF Extent
<1>3. /\ \A h \in FromHeads : alloc_area < h /\ h + Extent(h) <= alloc_area + alloc_size
      /\ \A h \in ToHeads : alloc_area_fresh < h /\ h + Extent(h) <= ToEnd
  BY DEF FromHeads, ToHeads, InArea, ToEnd
<1>4. FromHeads \cap ToHeads = {}
  <2> SUFFICES ASSUME NEW h \in FromHeads \cap ToHeads PROVE FALSE
    OBVIOUS
  <2>1. h \in Nat /\ Extent(h) \in Nat
    BY <1>1, <1>2
  <2>2. /\ alloc_area < h /\ h + Extent(h) <= alloc_area + alloc_size
        /\ alloc_area_fresh < h /\ h + Extent(h) <= alloc_area_fresh + alloc_size
    BY <1>3 DEF ToEnd
  <2>3. /\ alloc_size \in Nat
        /\ \/ alloc_area = 0 /\ alloc_area_fresh = alloc_size
           \/ alloc_area = alloc_size /\ alloc_area_fresh = 0
    BY AreaFacts DEF IInv
  <2> QED BY <2>1, <2>2, <2>3
<1> QED BY <1>1, <1>2, <1>3, <1>4

\* A word that refers to the old area leads to an object there.
LEMMA OldObject ==
    ASSUME HostContract, IInv, NEW w \in Nat, is_allocated(w), Refers(w, alloc_area)
    PROVE  Old(w) \in FromHeads
<1>1. w > 0 /\ w < alloc_size /\ Old(w) \in DOMAIN mem
  BY DEF Refers, Old
<1>2. Old(w) \notin ToHeads
  <2>1. Old(w) \in ToHeads =>
          /\ alloc_area_fresh < Old(w)
          /\ Old(w) + Extent(Old(w)) <= ToEnd
          /\ Extent(Old(w)) \in Nat /\ Extent(Old(w)) > 0
    BY <1>1, HeadFacts
  <2>2. Old(w) \in Nat /\ Old(w) > alloc_area /\ Old(w) < alloc_area + alloc_size
    <3>1. alloc_area \in Nat /\ alloc_size \in Nat /\ Old(w) \in Nat /\ Old(w) = alloc_area + w
      BY <1>1, HeadFacts, AreaFacts DEF Old, IInv
    <3> QED BY <1>1, <3>1
  <2>3. /\ alloc_size \in Nat /\ ToEnd = alloc_area_fresh + alloc_size
        /\ \/ alloc_area = 0 /\ alloc_area_fresh = alloc_size
           \/ alloc_area = alloc_size /\ alloc_area_fresh = 0
    BY AreaFacts DEF IInv, ToEnd
  <2> QED BY <2>1, <2>2, <2>3
<1> QED BY <1>1, <1>2, HeadFacts

\* The copies begin at an even address in the new area.
LEMMA NewptrFacts ==
    ASSUME HostContract, IInv, InGC
    PROVE  /\ newptr \in Nat /\ newptr % 2 = 0
           /\ alloc_area_fresh < newptr /\ newptr <= ToEnd
<1>1. newptr \in ToHeads \cup {ToEnd}
  BY DEF IInv, Tiles
<1>2. CASE newptr = ToEnd
  BY <1>2, AreaFacts, SizeFacts DEF IInv, ToEnd
<1>3. CASE newptr \in ToHeads
  <2>1. newptr \in DOMAIN mem
    BY <1>3 DEF ToHeads
  <2> QED BY <1>3, <2>1, HeadFacts, AreaFacts DEF IInv, ObjectsOK
<1> QED BY <1>1, <1>2, <1>3

\* The bytes of the objects that were moved lie in the old area.
LEMMA MovedBytesFacts ==
    ASSUME HostContract, IInv, InGC
    PROVE  /\ MovedBytes \subseteq (alloc_area + 1)..(alloc_area + alloc_size - 1)
           /\ IsFiniteSet(MovedBytes)
<1>1. alloc_area \in Nat /\ alloc_size \in Nat
  BY AreaFacts DEF IInv
<1>2. ASSUME NEW h \in FromHeads
      PROVE  Bytes(h) \subseteq (alloc_area + 1)..(alloc_area + alloc_size - 1)
  <2>1. h \in Nat /\ Extent(h) \in Nat /\ alloc_area < h
        /\ h + Extent(h) <= alloc_area + alloc_size
    BY HeadFacts
  <2> QED BY <1>1, <2>1 DEF Bytes
<1>3. MovedBytes \subseteq (alloc_area + 1)..(alloc_area + alloc_size - 1)
  BY <1>2 DEF MovedBytes, Moved
<1>4. IsFiniteSet((alloc_area + 1)..(alloc_area + alloc_size - 1))
  BY <1>1, FS_Interval
<1> QED BY <1>3, <1>4, FS_Subset

\* There is room for one more copy: the copies are as large as what was moved,
\* the objects moved do not overlap, and the old area is no larger than the new.
LEMMA CopyFits ==
    ASSUME HostContract, IInv, InGC, NEW w \in Nat, is_allocated(w), Refers(w, alloc_area),
           Moves(w)
    PROVE  /\ mem[Old(w)].numwords = mem[Old(w)].size
           /\ NewHead(w) + Extent(Old(w)) = newptr
           /\ alloc_area_fresh < NewHead(w)
           /\ NewHead(w) \in Nat
           /\ Cardinality(MovedBytes \cup Bytes(Old(w))) = ToEnd - NewHead(w)
<1> DEFINE o == Old(w)
           I == (alloc_area + 1)..(alloc_area + alloc_size - 1)
<1>1. o \in FromHeads /\ o \in Nat /\ Extent(o) \in Nat /\ Extent(o) > 0
  BY OldObject, HeadFacts
<1>2. mem[o].numwords = mem[o].size
  BY <1>1 DEF Moves, IInv, ForwardOK
<1>3. NewHead(w) = newptr - Extent(o) /\ newptr \in Nat
  BY <1>2, NewptrFacts DEF NewHead, Extent
<1>4. /\ alloc_area \in Nat /\ alloc_size \in Nat /\ alloc_area_fresh \in Nat
      /\ ToEnd = alloc_area_fresh + alloc_size
  BY AreaFacts DEF IInv, ToEnd
<1>5. Bytes(o) \subseteq I
  BY <1>1, <1>4, HeadFacts DEF Bytes
<1>6. IsFiniteSet(Bytes(o)) /\ Cardinality(Bytes(o)) = Extent(o)
  <2>1. o + Extent(o) - 1 \in Int /\ ~ (o > o + Extent(o) - 1) /\ o \in Int
    BY <1>1
  <2>2. /\ IsFiniteSet(o..(o + Extent(o) - 1))
        /\ Cardinality(o..(o + Extent(o) - 1)) = (o + Extent(o) - 1) - o + 1
    BY <2>1, FS_Interval
  <2> QED BY <1>1, <2>2 DEF Bytes
<1>7. MovedBytes \cap Bytes(o) = {}
  <2> SUFFICES ASSUME NEW h \in Moved, NEW x \in Bytes(h) \cap Bytes(o) PROVE FALSE
    BY DEF MovedBytes
  <2>1. h # o /\ h \in FromHeads
    BY <1>2, HeadFacts, <1>1 DEF Moved, Moves
  <2>2. h \in Nat /\ Extent(h) \in Nat /\ h \in DOMAIN mem /\ o \in DOMAIN mem
    BY <2>1, <1>1, HeadFacts
  <2>3. (h < o => h + Extent(h) <= o) /\ (o < h => o + Extent(o) <= h)
    BY <2>2 DEF IInv, HeapLayout
  <2>4. x \in Int /\ h <= x /\ x <= h + Extent(h) - 1 /\ o <= x /\ x <= o + Extent(o) - 1
    BY DEF Bytes
  <2> HIDE DEF o
  <2> QED BY <1>1, <2>1, <2>2, <2>3, <2>4
<1>8. MovedBytes \subseteq I /\ IsFiniteSet(MovedBytes)
  BY MovedBytesFacts
<1>9. Cardinality(MovedBytes) = ToEnd - newptr
  BY DEF IInv, SpaceOK
<1>10. Cardinality(MovedBytes \cup Bytes(o)) = (ToEnd - newptr) + Extent(o)
  <2>1. Cardinality(MovedBytes \cap Bytes(o)) = 0
    BY <1>7, FS_EmptySet
  <2>2. Cardinality(MovedBytes \cup Bytes(o)) =
          Cardinality(MovedBytes) + Cardinality(Bytes(o)) - Cardinality(MovedBytes \cap Bytes(o))
    BY <1>6, <1>8, FS_Union
  <2> HIDE DEF o
  <2> QED BY <1>1, <1>3, <1>4, <1>6, <1>9, <2>1, <2>2
<1>11. Cardinality(MovedBytes \cup Bytes(o)) <= alloc_size - 1
  <2>1. alloc_size > 0
    BY SizeFacts
  <2>2. IsFiniteSet(I) /\ Cardinality(I) = alloc_size - 1
    <3>1. alloc_area + 1 \in Int /\ alloc_area + alloc_size - 1 \in Int
      BY <1>4
    <3>2. /\ IsFiniteSet(I)
          /\ Cardinality(I) = IF alloc_area + 1 > alloc_area + alloc_size - 1 THEN 0
               ELSE (alloc_area + alloc_size - 1) - (alloc_area + 1) + 1
      BY <3>1, FS_Interval
    <3> HIDE DEF I
    <3> QED BY <1>4, <2>1, <3>2
  <2>3. MovedBytes \cup Bytes(o) \in SUBSET I
    BY <1>5, <1>8
  <2>4. Cardinality(MovedBytes \cup Bytes(o)) <= Cardinality(I)
    BY <2>2, <2>3, FS_Subset
  <2> HIDE DEF I, o
  <2> QED BY <2>2, <2>4
<1> HIDE DEF I
<1>12. alloc_area_fresh < NewHead(w) /\ NewHead(w) \in Nat /\ NewHead(w) + Extent(o) = newptr
       /\ Cardinality(MovedBytes \cup Bytes(o)) = ToEnd - NewHead(w)
  <2> HIDE DEF o
  <2> QED BY <1>1, <1>3, <1>4, <1>10, <1>11
<1> QED BY <1>2, <1>12

\* What GC_HANDLE_SLOT does to a word that refers to the old area.
LEMMA SlotFacts ==
    ASSUME HostContract, IInv, InGC, NEW w \in Word, Refers(w, alloc_area)
    PROVE  /\ SlotOK(w)
           /\ NewWord(w) \in Word
           /\ ~ is_allocated(w) => NewWord(w) = w /\ ~ Moves(w)
           /\ is_allocated(w) =>
                /\ is_allocated(NewWord(w))
                /\ NewWord(w) > 0 /\ NewWord(w) < alloc_size
                /\ Moves(w) => alloc_area_fresh + NewWord(w) = NewHead(w)
                /\ ~ Moves(w) => alloc_area_fresh + NewWord(w) \in DOMAIN mem
<1>1. CASE ~ is_allocated(w)
  BY <1>1 DEF SlotOK, NewWord, Moves
<1>2. CASE is_allocated(w) /\ Moves(w)
  <2>1. w \in Nat
    BY SizeFacts DEF Word
  <2>2. /\ mem[Old(w)].numwords = mem[Old(w)].size
        /\ NewHead(w) + Extent(Old(w)) = newptr
        /\ alloc_area_fresh < NewHead(w) /\ NewHead(w) \in Nat
    BY <1>2, <2>1, CopyFits
  <2>3. Old(w) \in DOMAIN mem /\ w > 0 /\ w < alloc_size
    BY <1>2 DEF Refers, Old
  <2>4. mem[Old(w)].numwords < GcLenLimit /\ Extent(Old(w)) \in Nat
        /\ Extent(Old(w)) > 0 /\ Extent(Old(w)) = 2 * (mem[Old(w)].size + 1)
    BY <2>2, <2>3, HeadFacts DEF IInv, ObjectsOK
  <2>5. /\ alloc_area_fresh \in Nat /\ newptr \in Nat /\ alloc_size \in Nat
        /\ newptr <= alloc_area_fresh + alloc_size /\ alloc_area_fresh % 2 = 0
        /\ newptr % 2 = 0
    BY AreaFacts, NewptrFacts DEF IInv, ToEnd
  <2>6. SlotOK(w)
    BY <1>2, <2>1, <2>2, <2>3, <2>4 DEF SlotOK
  <2> DEFINE d == NewHead(w) - alloc_area_fresh
  <2>7. d \in Nat /\ 0 < d /\ d < alloc_size
    BY <2>2, <2>4, <2>5
  <2>8. d < WordValues /\ d \in Word
    BY <2>7, SizeFacts DEF Word
  <2>9. NewWord(w) = d
    <3>1. NewWord(w) = d % WordValues
      BY <1>2 DEF NewWord, ALLOCATED_FROM_POINTER_TOSPACE, OffsetFrom
    <3> HIDE DEF d
    <3> QED BY <3>1, <2>7, <2>8, SizeFacts
  <2>10. d % 2 = 0
    <3>1. mem[Old(w)].size \in Nat
      BY <2>3, HeadFacts, SizeFacts
    <3>2. NewHead(w) = newptr - 2 * (mem[Old(w)].size + 1)
      BY <2>2, <2>4, <2>5, <3>1
    <3>3. NewHead(w) % 2 = 0
      BY <2>5, <3>1, <3>2
    <3> QED BY <2>2, <2>5, <3>3
  <2>11. alloc_area_fresh + d = NewHead(w)
    BY <2>2, <2>5
  <2> HIDE DEF d
  <2> QED BY <1>2, <2>6, <2>7, <2>8, <2>9, <2>10, <2>11 DEF is_allocated
<1>3. CASE is_allocated(w) /\ ~ Moves(w)
  <2>1. w \in Nat
    BY SizeFacts DEF Word
  <2>2. Old(w) \in FromHeads /\ Old(w) \in DOMAIN mem
    BY <1>3, <2>1, OldObject, HeadFacts
  <2>3. mem[Old(w)].numwords = 0
    BY <1>3 DEF Moves
  <2>4. mem[Old(w)].size >= 1 /\ mem[Old(w)].size \in Nat
    BY <2>2, HeadFacts, SizeFacts
  <2>5. is_allocated(mem[Old(w)].body[1]) /\ Refers(mem[Old(w)].body[1], alloc_area_fresh)
    BY <2>2, <2>3, <2>4 DEF IInv, ForwardOK
  <2>6. mem[Old(w)].body[1] \in Word
    BY SMTT(30), <2>2, <2>4 DEF IInv, TypeOK
  <2>7. NewWord(w) = mem[Old(w)].body[1]
    BY <1>3 DEF NewWord
  <2>8. SlotOK(w)
    BY <1>3, <2>1, <2>2 DEF SlotOK, Refers
  <2>9. /\ NewWord(w) > 0 /\ NewWord(w) < alloc_size
        /\ alloc_area_fresh + NewWord(w) \in DOMAIN mem
    BY ONLY <2>5, <2>7 DEF Refers
  <2>10. NewWord(w) \in Word /\ is_allocated(NewWord(w))
    BY <2>5, <2>6, <2>7
  <2> QED BY <1>3, <2>8, <2>9, <2>10
<1> QED BY <1>1, <1>2, <1>3

\* The memory after a move.
LEMMA NewMemFacts ==
    ASSUME HostContract, IInv, InGC, NEW w \in Word, Refers(w, alloc_area), Moves(w)
    PROVE  /\ Old(w) \in FromHeads
           /\ NewHead(w) \notin DOMAIN mem
           /\ DOMAIN NewMem(w) = DOMAIN mem \cup {NewHead(w)}
           /\ NewMem(w)[NewHead(w)] = mem[Old(w)]
           /\ NewMem(w)[Old(w)] = [mem[Old(w)] EXCEPT
                                    !.numwords = 0,
                                    !.body = [mem[Old(w)].body EXCEPT ![1] = NewWord(w)]]
           /\ \A h \in DOMAIN mem : h # Old(w) => NewMem(w)[h] = mem[h]
<1>1. is_allocated(w) /\ w \in Nat
  BY SizeFacts DEF Moves, Word
<1>2. Old(w) \in FromHeads /\ Old(w) \in DOMAIN mem
  BY <1>1, OldObject, HeadFacts
<1>3. /\ alloc_area_fresh < NewHead(w) /\ NewHead(w) \in Nat
      /\ NewHead(w) + Extent(Old(w)) = newptr
      /\ Extent(Old(w)) \in Nat /\ Extent(Old(w)) > 0
  BY <1>1, <1>2, CopyFits, HeadFacts
<1>4. newptr \in Nat /\ newptr <= ToEnd
  BY NewptrFacts
<1>5. NewHead(w) \notin ToHeads
  <2>1. \A h \in ToHeads : newptr <= h /\ h \in Nat
    BY HeadFacts DEF IInv, Tiles
  <2> QED BY <1>3, <1>4, <2>1
<1>6. NewHead(w) \notin FromHeads
  <2>1. \A h \in FromHeads : h \in Nat /\ alloc_area < h /\ h < alloc_area + alloc_size
    <3> SUFFICES ASSUME NEW h \in FromHeads
                 PROVE  h \in Nat /\ alloc_area < h /\ h < alloc_area + alloc_size
      OBVIOUS
    <3>1. h \in Nat /\ alloc_area < h /\ h + Extent(h) <= alloc_area + alloc_size
          /\ Extent(h) \in Nat /\ Extent(h) > 0
      BY HeadFacts
    <3> QED BY <3>1, AreaFacts DEF IInv
  <2>2. /\ alloc_size \in Nat /\ ToEnd = alloc_area_fresh + alloc_size
        /\ \/ alloc_area = 0 /\ alloc_area_fresh = alloc_size
           \/ alloc_area = alloc_size /\ alloc_area_fresh = 0
    BY AreaFacts DEF IInv, ToEnd
  <2> QED BY <1>3, <1>4, <2>1, <2>2
<1>7. NewHead(w) \notin DOMAIN mem
  BY <1>5, <1>6, HeadFacts
<1> QED BY <1>1, <1>2, <1>7 DEF NewMem, MoveObject

\* A move keeps the layout; the fields of copies may change with it.
LEMMA MoveShape ==
    ASSUME HostContract, IInv, InGC, InGC', NEW w \in Word, Refers(w, alloc_area),
           Moves(w),
           UNCHANGED <<alloc_area, alloc_area_fresh, alloc_ptr, call>>,
           newptr' = NewHead(w),
           DOMAIN mem' = DOMAIN mem \cup {NewHead(w)},
           \A h \in DOMAIN mem' : /\ mem'[h].type = NewMem(w)[h].type
                                  /\ mem'[h].size = NewMem(w)[h].size
                                  /\ mem'[h].numwords = NewMem(w)[h].numwords,
           \A h \in FromHeads : mem'[h].body = NewMem(w)[h].body,
           \A h \in DOMAIN mem' :
              mem'[h].type = TYPE_PAIR => ~ is_allocated(mem'[h].body[2])
    PROVE  /\ FromHeads' = FromHeads /\ ToHeads' = ToHeads \cup {NewHead(w)}
           /\ HeapLayout' /\ ObjectsOK' /\ ForwardOK' /\ Tiles' /\ SpaceOK'
<1>1. is_allocated(w) /\ w \in Nat
  BY SizeFacts DEF Moves, Word
<1>0. PICK c \in Nat, o \in Nat : c = NewHead(w) /\ o = Old(w)
  <2>1. NewHead(w) \in Nat /\ Old(w) \in Nat
    BY <1>1, CopyFits, OldObject, HeadFacts
  <2> QED BY <2>1
<1>0a. newptr' = c /\ DOMAIN mem' = DOMAIN mem \cup {c}
  BY <1>0
<1>2. /\ o \in FromHeads /\ o \in DOMAIN mem /\ c \notin DOMAIN mem /\ c # o
      /\ mem[o].numwords = mem[o].size
      /\ c + Extent(o) = newptr /\ alloc_area_fresh < c /\ c \in Nat
      /\ Cardinality(MovedBytes \cup Bytes(o)) = ToEnd - c
      /\ Extent(o) \in Nat /\ Extent(o) > 0
  BY <1>0, <1>1, CopyFits, NewMemFacts, HeadFacts
<1>3. /\ \A h \in DOMAIN mem : /\ mem'[h].type = mem[h].type
                               /\ mem'[h].size = mem[h].size
                               /\ h # o => mem'[h].numwords = mem[h].numwords
      /\ mem'[o].numwords = 0
      /\ mem'[c].type = mem[o].type /\ mem'[c].size = mem[o].size
      /\ mem'[c].numwords = mem[o].size
      /\ \A h \in FromHeads : h # o => mem'[h].body = mem[h].body
      /\ mem'[o].body = [mem[o].body EXCEPT ![1] = NewWord(w)]
  <2>1. /\ NewMem(w)[c] = mem[o]
        /\ NewMem(w)[o] = [mem[o] EXCEPT
                             !.numwords = 0,
                             !.body = [mem[o].body EXCEPT ![1] = NewWord(w)]]
        /\ \A h \in DOMAIN mem : h # o => NewMem(w)[h] = mem[h]
    BY <1>0, NewMemFacts
  <2>2. /\ NewMem(w)[o].type = mem[o].type /\ NewMem(w)[o].size = mem[o].size
        /\ NewMem(w)[o].numwords = 0
        /\ NewMem(w)[o].body = [mem[o].body EXCEPT ![1] = NewWord(w)]
    <3>1. mem[o] \in Object
      BY <1>2 DEF IInv, TypeOK
    <3> DEFINE e == [mem[o].body EXCEPT ![1] = NewWord(w)]
    <3>2. mem[o] = [type |-> mem[o].type, numwords |-> mem[o].numwords,
                    size |-> mem[o].size, body |-> mem[o].body, id |-> mem[o].id]
      BY ONLY <3>1 DEF Object
    <3> HIDE DEF e
    <3>3. NewMem(w)[o] = [mem[o] EXCEPT !.numwords = 0, !.body = e]
      BY <2>1 DEF e
    <3>4. /\ NewMem(w)[o].type = mem[o].type /\ NewMem(w)[o].size = mem[o].size
          /\ NewMem(w)[o].numwords = 0 /\ NewMem(w)[o].body = e
      BY ONLY <3>2, <3>3, SMTT(20)
    <3> QED BY ONLY <3>4 DEF e
  <2>3. /\ \A h \in DOMAIN mem : /\ mem'[h].type = mem[h].type
                                 /\ mem'[h].size = mem[h].size
                                 /\ h # o => mem'[h].numwords = mem[h].numwords
    BY ZenonT(60), <1>0a, <2>1, <2>2
  <2>4. mem'[o].numwords = 0 /\ mem'[o].body = [mem[o].body EXCEPT ![1] = NewWord(w)]
    BY <1>0a, <1>2, <2>2
  <2>5. /\ mem'[c].type = mem[o].type /\ mem'[c].size = mem[o].size
        /\ mem'[c].numwords = mem[o].size
    BY <1>0a, <1>2, <2>1
  <2>6. \A h \in FromHeads : h # o => mem'[h].body = mem[h].body
    BY <2>1, HeadFacts
  <2> QED BY <2>3, <2>4, <2>5, <2>6
<1>4. newptr \in Nat /\ newptr <= ToEnd /\ newptr % 2 = 0
  BY NewptrFacts
<1>5. /\ alloc_area \in Nat /\ alloc_size \in Nat /\ alloc_area_fresh \in Nat
      /\ ToEnd = alloc_area_fresh + alloc_size /\ ToEnd' = ToEnd
      /\ \/ alloc_area = 0 /\ alloc_area_fresh = alloc_size
         \/ alloc_area = alloc_size /\ alloc_area_fresh = 0
  BY AreaFacts DEF IInv, ToEnd
<1>6. /\ \A h \in DOMAIN mem : Extent(h)' = Extent(h)
      /\ Extent(c)' = Extent(o)
  BY <1>3 DEF Extent
<1>7. /\ DOMAIN mem \subseteq Nat /\ DOMAIN mem = FromHeads \cup ToHeads
      /\ FromHeads \cap ToHeads = {}
      /\ \A h \in DOMAIN mem : Extent(h) \in Nat /\ Extent(h) > 0
      /\ \A h \in FromHeads : alloc_area < h /\ h + Extent(h) <= alloc_area + alloc_size
      /\ \A h \in ToHeads : alloc_area_fresh < h /\ h + Extent(h) <= ToEnd
  BY HeadFacts
<1>8. \A h \in DOMAIN mem : /\ InArea(h, alloc_area)' <=> InArea(h, alloc_area)
                            /\ InArea(h, alloc_area_fresh)' <=> InArea(h, alloc_area_fresh)
  BY <1>6 DEF InArea
<1>9. InArea(c, alloc_area_fresh)' /\ ~ InArea(c, alloc_area)'
  <2>1. InArea(c, alloc_area_fresh)' <=>
          alloc_area_fresh < c /\ c + Extent(o) <= alloc_area_fresh + alloc_size
    BY <1>6 DEF InArea
  <2>2. InArea(c, alloc_area)' <=>
          alloc_area < c /\ c + Extent(o) <= alloc_area + alloc_size
    BY <1>6 DEF InArea
  <2> QED BY <1>2, <1>4, <1>5, <2>1, <2>2
<1>10. FromHeads' = FromHeads /\ ToHeads' = ToHeads \cup {c}
  <2>1. \A h \in DOMAIN mem' : /\ InArea(h, alloc_area)' <=> h \in FromHeads
                               /\ InArea(h, alloc_area_fresh)' <=> h \in ToHeads \cup {c}
    BY <1>0a, <1>2, <1>8, <1>9 DEF FromHeads, ToHeads
  <2>2. FromHeads' = {h \in DOMAIN mem' : InArea(h, alloc_area)'}
        /\ ToHeads' = {h \in DOMAIN mem' : InArea(h, alloc_area_fresh)'}
    BY DEF FromHeads, ToHeads
  <2> QED BY <1>0a, <1>7, <2>1, <2>2
<1>11. \A h \in ToHeads : newptr <= h /\ h + Extent(h) \in ToHeads \cup {ToEnd}
  BY DEF IInv, Tiles
<1>12. HeapLayout'
  <2>1. \A g, h \in DOMAIN mem' : g < h => g + Extent(g)' <= h
    <3> SUFFICES ASSUME NEW g \in DOMAIN mem', NEW h \in DOMAIN mem', g < h
                 PROVE  g + Extent(g)' <= h
      OBVIOUS
    <3>0. DOMAIN mem' = DOMAIN mem \cup {c}
      BY <1>0a
    <3>1. CASE g \in DOMAIN mem /\ h \in DOMAIN mem
      BY <3>1, <1>6 DEF IInv, HeapLayout
    <3>2. CASE g = c /\ h \in DOMAIN mem
      <4>1. Extent(g)' = Extent(o)
        BY <3>2, <1>6
      <4>2. CASE h \in ToHeads
        BY <3>2, <4>1, <4>2, <1>2, <1>11
      <4>3. CASE h \in FromHeads
        <5>1. h \in Nat /\ alloc_area < h /\ Extent(h) \in Nat
              /\ h + Extent(h) <= alloc_area + alloc_size /\ Extent(h) > 0
          BY <4>3, <1>7
        <5> QED BY <3>2, <4>1, <5>1, <1>2, <1>4, <1>5
      <4> QED BY <3>2, <4>2, <4>3, <1>7
    <3>3. CASE g \in DOMAIN mem /\ h = c
      <4>1. g \in FromHeads
        BY <3>3, <1>2, <1>4, <1>7, <1>11
      <4>2. g \in Nat /\ alloc_area < g /\ Extent(g) \in Nat
              /\ g + Extent(g) <= alloc_area + alloc_size /\ Extent(g) > 0
        BY <4>1, <1>7
      <4>3. Extent(g)' = Extent(g)
        BY <3>3, <1>6
      <4> QED BY <3>3, <4>2, <4>3, <1>2, <1>4, <1>5
    <3> QED BY <3>0, <3>1, <3>2, <3>3, <1>2
  <2>2. \A h \in FromHeads' : alloc_ptr' <= h
    BY <1>10 DEF IInv, HeapLayout
  <2>3. DOMAIN mem' = FromHeads' \cup ToHeads'
    BY <1>0a, <1>7, <1>10
  <2> QED BY <2>1, <2>2, <2>3 DEF HeapLayout, InGC
<1>13. ObjectsOK'
  <2> SUFFICES ASSUME NEW h \in DOMAIN mem'
               PROVE  /\ h % 2 = 0
                      /\ mem'[h].size < GcLenLimit
                      /\ mem'[h].type = TYPE_PAIR => mem'[h].size = 2
    BY DEF ObjectsOK, is_allocated
  <2>1. CASE h \in DOMAIN mem
    BY <2>1, <1>3 DEF IInv, ObjectsOK
  <2>2. CASE h = c
    <3>1. mem[o].size < GcLenLimit /\ (mem[o].type = TYPE_PAIR => mem[o].size = 2)
      BY <1>2 DEF IInv, ObjectsOK
    <3>2. mem[o].size \in Nat
      BY <1>2, HeadFacts, SizeFacts
    <3>3. c = newptr - 2 * (mem[o].size + 1)
      BY <1>2, <1>4, <3>2 DEF Extent
    <3>4. c % 2 = 0
      BY <1>4, <3>2, <3>3
    <3> QED BY <2>2, <3>1, <3>4, <1>3
  <2> QED BY <2>1, <2>2, <1>0a
<1>14. /\ NewWord(w) \in Word /\ is_allocated(NewWord(w))
       /\ NewWord(w) > 0 /\ NewWord(w) < alloc_size
       /\ alloc_area_fresh + NewWord(w) = c
  BY <1>0, <1>1, SlotFacts
<1>15. ForwardOK'
  <2>1. \A h \in ToHeads' : mem'[h].numwords = mem'[h].size
    <3>1. \A h \in ToHeads : mem'[h].numwords = mem'[h].size
      BY <1>2, <1>3, <1>7 DEF IInv, ForwardOK
    <3> QED BY <3>1, <1>3, <1>10
  <2>2. \A v : Refers(v, alloc_area_fresh) => Refers(v, alloc_area_fresh)'
    BY DEF Refers
  <2>3. ASSUME NEW h \in FromHeads
        PROVE  \/ mem'[h].numwords = mem'[h].size
               \/ /\ mem'[h].numwords = 0
                  /\ is_allocated(mem'[h].body[1])
                  /\ Refers(mem[h].body[1], alloc_area_fresh)'
    <3>1. CASE h = o
      <4>1. mem[o].body \in [1..mem[o].size -> Word] /\ 1 \in 1..mem[o].size
        <5>1. mem[o].body \in [1..mem[o].size -> Word]
          BY <1>2 DEF IInv, TypeOK
        <5>2. mem[o].size \in 1..(GcLenLimit - 1)
          BY <1>2, HeadFacts
        <5> QED BY <5>1, <5>2, SizeFacts
      <4>2. mem'[o].body[1] = NewWord(w)
        BY <1>3, <4>1
      <4>3. \A v : v = NewWord(w) => Refers(v, alloc_area_fresh)'
        BY <1>0a, <1>14 DEF Refers
      <4>4. Refers(mem[o].body[1], alloc_area_fresh)'
        BY <4>2, <4>3 DEF Refers
      <4> QED BY <3>1, <4>2, <4>4, <1>3, <1>14
    <3>2. CASE h # o
      <4>1. mem'[h].body = mem[h].body /\ mem'[h].numwords = mem[h].numwords
            /\ mem'[h].size = mem[h].size
        BY <3>2, <1>3, <1>7
      <4>2. \/ mem[h].numwords = mem[h].size
            \/ /\ mem[h].numwords = 0
               /\ is_allocated(mem[h].body[1])
               /\ Refers(mem[h].body[1], alloc_area_fresh)
        BY DEF IInv, ForwardOK
      <4> QED BY <4>1, <4>2 DEF Refers
    <3> QED BY <3>1, <3>2
  <2>4. \A h \in FromHeads' :
         \/ mem'[h].numwords = mem'[h].size
         \/ /\ InGC'
            /\ mem'[h].numwords = 0
            /\ is_allocated(mem[h].body[1])'
            /\ Refers(mem[h].body[1], alloc_area_fresh)'
    BY <1>10, <2>3 DEF is_allocated
  <2> QED BY <2>1, <2>4 DEF ForwardOK
<1>16. Tiles'
  <2>1. newptr \in ToHeads \cup {ToEnd}
    BY DEF IInv, Tiles
  <2>2. newptr' = c
    BY <1>0a
  <2>3. ASSUME NEW h \in ToHeads'
        PROVE  newptr' <= h /\ h + Extent(h)' \in ToHeads' \cup {ToEnd'}
    <3>1. CASE h \in ToHeads
      <4>1. newptr <= h /\ h \in Nat /\ h + Extent(h) \in ToHeads \cup {ToEnd} /\ Extent(h)' = Extent(h)
        BY <3>1, <1>6, <1>7, <1>11
      <4> QED BY <4>1, <2>2, <1>2, <1>4, <1>5, <1>10
    <3>2. CASE h = c
      <4>1. Extent(h)' = Extent(o)
        BY <3>2, <1>6
      <4> QED BY <3>2, <4>1, <2>1, <2>2, <1>2, <1>5, <1>10
    <3> QED BY <3>1, <3>2, <1>10
  <2>4. newptr' \in ToHeads' \cup {ToEnd'}
    BY <2>2, <1>10
  <2> QED BY <2>3, <2>4 DEF Tiles
<1>17. SpaceOK'
  <2>1. Moved' = Moved \cup {o}
    <3>1. \A h \in FromHeads : h # o => mem'[h].numwords = mem[h].numwords
      BY <1>3, <1>7
    <3> QED BY <3>1, <1>2, <1>3, <1>10 DEF Moved
  <2>2. \A h \in FromHeads : Bytes(h)' = Bytes(h)
    BY <1>6, <1>7 DEF Bytes
  <2>3. MovedBytes' = MovedBytes \cup Bytes(o)
    BY <1>2, <2>1, <2>2 DEF MovedBytes, Moved
  <2>4. newptr' = c
    BY <1>0a
  <2> QED BY <2>3, <2>4, <1>2, <1>5 DEF SpaceOK
<1> QED BY <1>0, <1>10, <1>12, <1>13, <1>15, <1>16, <1>17

\* The objects after a move: untouched, forwarded, or a copy.
LEMMA NewMemTyped ==
    ASSUME HostContract, IInv, InGC, NEW w \in Word, Refers(w, alloc_area)
    PROVE  /\ DOMAIN mem \subseteq DOMAIN NewMem(w)
           /\ DOMAIN NewMem(w) \subseteq Nat
           /\ ~ Moves(w) => NewMem(w) = mem
           /\ \A h \in DOMAIN NewMem(w) :
                /\ NewMem(w)[h] \in Object
                /\ NewMem(w)[h].body \in [1..NewMem(w)[h].size -> Word]
                /\ NewMem(w)[h].type = TYPE_PAIR => ~ is_allocated(NewMem(w)[h].body[2])
                /\ \/ h \in DOMAIN mem /\ NewMem(w)[h] = mem[h]
                   \/ NewMem(w)[h].numwords = 0 /\ h \in FromHeads
                   \/ /\ Moves(w) /\ h = NewHead(w) /\ h \notin DOMAIN mem
                      /\ NewMem(w)[h] = mem[Old(w)] /\ Old(w) \in FromHeads
                      /\ Old(w) \in DOMAIN mem
                      /\ mem[Old(w)].numwords # 0
<1>1. \A h \in DOMAIN mem : /\ mem[h] \in Object
                            /\ mem[h].body \in [1..mem[h].size -> Word]
                            /\ mem[h].type = TYPE_PAIR => ~ is_allocated(mem[h].body[2])
  BY DEF IInv, TypeOK, ObjectsOK
<1>2. DOMAIN mem \subseteq Nat /\ FromHeads \subseteq DOMAIN mem
  BY HeadFacts
<1>3. CASE ~ Moves(w)
  BY <1>1, <1>2, <1>3 DEF NewMem
<1>4. CASE Moves(w)
  <2>1. is_allocated(w) /\ w \in Nat
    BY <1>4, SizeFacts DEF Moves, Word
  <2>2. NewHead(w) \in Nat
    BY <1>4, <2>1, CopyFits
  <2>3. PICK o : o = Old(w)
    OBVIOUS
  <2>4. /\ o \in FromHeads /\ o \in DOMAIN mem
        /\ NewHead(w) \notin DOMAIN mem
        /\ DOMAIN NewMem(w) = DOMAIN mem \cup {NewHead(w)}
        /\ NewMem(w)[NewHead(w)] = mem[o]
        /\ NewMem(w)[o] = [mem[o] EXCEPT
                             !.numwords = 0,
                             !.body = [mem[o].body EXCEPT ![1] = NewWord(w)]]
        /\ \A h \in DOMAIN mem : h # o => NewMem(w)[h] = mem[h]
        /\ mem[o].numwords # 0
    BY <1>2, <1>4, <2>3, NewMemFacts DEF Moves
  <2>5. NewWord(w) \in Word
    BY SlotFacts
  <2>6. /\ NewMem(w)[o].type = mem[o].type /\ NewMem(w)[o].size = mem[o].size
        /\ NewMem(w)[o].numwords = 0
        /\ NewMem(w)[o].body = [mem[o].body EXCEPT ![1] = NewWord(w)]
        /\ NewMem(w)[o].body \in [1..mem[o].size -> Word]
    <3>1. mem[o] \in Object
      BY <1>1, <2>4
    <3>2. /\ NewMem(w)[o].type = mem[o].type /\ NewMem(w)[o].size = mem[o].size
          /\ NewMem(w)[o].numwords = 0
          /\ NewMem(w)[o].body = [mem[o].body EXCEPT ![1] = NewWord(w)]
      BY <2>4, <3>1 DEF Object
    <3>3. mem[o].body \in [1..mem[o].size -> Word]
      BY <1>1, <2>4
    <3>4. [mem[o].body EXCEPT ![1] = NewWord(w)] \in [1..mem[o].size -> Word]
      BY <2>5, <3>3
    <3> QED BY <3>2, <3>4
  <2>7. NewMem(w)[o] \in Object
    <3>1. mem[o].size \in Nat /\ mem[o].size \in 1..255
      BY <2>4, <1>1, HeadFacts, SizeFacts DEF Object
    <3>2. PICK n \in Nat : n = mem[o].size
      BY <3>1
    <3>3. PICK b \in [1..n -> Word] : b = NewMem(w)[o].body
      BY <2>6, <3>2
    <3>4. b \in Seq(Word)
      BY <3>3
    <3>5. mem[o].type \in {TYPE_PAIR, TYPE_BIGNUM} /\ mem[o].id \in Nat
      BY <2>4, <1>1 DEF Object
    <3>6. NewMem(w)[o] = [type |-> mem[o].type, numwords |-> 0, size |-> mem[o].size,
                          body |-> b, id |-> mem[o].id]
      <4>1. mem[o] \in Object
        BY <1>1, <2>4
      <4>2. b = [mem[o].body EXCEPT ![1] = NewWord(w)]
        BY <2>6, <3>3
      <4>3. NewMem(w)[o] = [mem[o] EXCEPT !.numwords = 0, !.body = b]
        BY <2>4, <4>2
      <4> HIDE <4>2
      <4> QED BY <4>1, <4>3 DEF Object
    <3> QED BY <3>1, <3>4, <3>5, <3>6 DEF Object
  <2>8. mem[o].type = TYPE_PAIR => ~ is_allocated(NewMem(w)[o].body[2])
    <3>1. NewMem(w)[o].body[2] = mem[o].body[2] \/ ~ (2 \in 1..mem[o].size)
      BY <2>4, <2>6, <1>1
    <3>2. mem[o].type = TYPE_PAIR => mem[o].size = 2
      BY <2>4 DEF IInv, ObjectsOK
    <3> QED BY <1>1, <2>4, <3>1, <3>2
  <2>9. ASSUME NEW h \in DOMAIN NewMem(w)
        PROVE  /\ NewMem(w)[h] \in Object
               /\ NewMem(w)[h].body \in [1..NewMem(w)[h].size -> Word]
               /\ NewMem(w)[h].type = TYPE_PAIR => ~ is_allocated(NewMem(w)[h].body[2])
               /\ \/ h \in DOMAIN mem /\ NewMem(w)[h] = mem[h]
                  \/ NewMem(w)[h].numwords = 0 /\ h \in FromHeads
                  \/ /\ Moves(w) /\ h = NewHead(w) /\ h \notin DOMAIN mem
                     /\ NewMem(w)[h] = mem[Old(w)] /\ Old(w) \in FromHeads
                     /\ Old(w) \in DOMAIN mem
                     /\ mem[Old(w)].numwords # 0
    <3>1. CASE h = o
      BY <3>1, <2>4, <2>6, <2>7, <2>8
    <3>2. CASE h \in DOMAIN mem /\ h # o
      BY <3>2, <2>4, <1>1
    <3>3. CASE h = NewHead(w)
      BY <3>3, <2>3, <2>4, <1>1, <1>4
    <3> QED BY <2>4, <3>1, <3>2, <3>3
  <2> QED BY <1>2, <1>4, <2>2, <2>4, <2>9
<1> QED BY <1>3, <1>4

\* GC_HANDLE_SLOT keeps the layout, whether the object moves or not.
LEMMA HandleOK ==
    ASSUME HostContract, IInv, InGC, InGC', NEW w \in Word, Refers(w, alloc_area),
           UNCHANGED <<alloc_area, alloc_area_fresh, alloc_ptr, call>>,
           newptr' = NewPtr(w),
           DOMAIN mem' = DOMAIN NewMem(w),
           \A h \in DOMAIN mem' : /\ mem'[h].type = NewMem(w)[h].type
                                  /\ mem'[h].size = NewMem(w)[h].size
                                  /\ mem'[h].numwords = NewMem(w)[h].numwords,
           \A h \in FromHeads : mem'[h].body = NewMem(w)[h].body,
           \A h \in DOMAIN mem' :
              mem'[h].type = TYPE_PAIR => ~ is_allocated(mem'[h].body[2])
    PROVE  /\ FromHeads' = FromHeads /\ ToHeads \subseteq ToHeads'
           /\ HeapLayout' /\ ObjectsOK' /\ ForwardOK' /\ Tiles' /\ SpaceOK'
           /\ newptr' \in Nat /\ newptr' <= newptr
           /\ \A g \in ToHeads' : g \in ToHeads \/ (g < newptr /\ g \in Nat /\ g \notin DOMAIN mem)
<1>1. CASE ~ Moves(w)
  <2>1. /\ newptr' = newptr /\ newptr \in Nat /\ DOMAIN mem' = DOMAIN mem
        /\ \A h \in DOMAIN mem : /\ mem'[h].type = mem[h].type
                                 /\ mem'[h].size = mem[h].size
                                 /\ mem'[h].numwords = mem[h].numwords
        /\ \A h \in FromHeads : mem'[h].body = mem[h].body
    BY <1>1, NewMemTyped, NewptrFacts DEF NewPtr
  <2>2. \A h \in DOMAIN mem : Extent(h)' = Extent(h)
    BY <2>1 DEF Extent
  <2>3. FromHeads' = FromHeads /\ ToHeads' = ToHeads
    BY <2>1, <2>2 DEF FromHeads, ToHeads, InArea
  <2>4. FromHeads \subseteq DOMAIN mem /\ ToHeads \subseteq DOMAIN mem
    BY HeadFacts
  <2>5. HeapLayout'
    BY <2>1, <2>2, <2>3 DEF IInv, HeapLayout, InGC
  <2>6. ObjectsOK'
    BY <2>1 DEF IInv, ObjectsOK, is_allocated
  <2>7. ForwardOK'
    <3>1. \A v : Refers(v, alloc_area_fresh) => Refers(v, alloc_area_fresh)'
      BY <2>1 DEF Refers
    <3>2. ASSUME NEW h \in FromHeads
          PROVE  \/ mem'[h].numwords = mem'[h].size
                 \/ /\ mem'[h].numwords = 0
                    /\ is_allocated(mem[h].body[1])'
                    /\ Refers(mem[h].body[1], alloc_area_fresh)'
      BY <2>1, <2>4 DEF IInv, ForwardOK, Refers, is_allocated
    <3>3. \A h \in ToHeads : mem'[h].numwords = mem'[h].size
      BY <2>1, <2>4 DEF IInv, ForwardOK
    <3> QED BY <2>3, <3>2, <3>3 DEF ForwardOK
  <2>8. ToEnd' = ToEnd
    BY DEF ToEnd
  <2>9. Tiles'
    BY <2>1, <2>2, <2>3, <2>4, <2>8 DEF IInv, Tiles
  <2>10. SpaceOK'
    <3>1. Moved' = Moved /\ Moved \subseteq DOMAIN mem
      BY <2>1, <2>3, <2>4 DEF Moved
    <3>2. MovedBytes' = MovedBytes
      BY <2>2, <3>1 DEF MovedBytes, Bytes
    <3> QED BY <2>1, <2>8, <3>2 DEF IInv, SpaceOK
  <2> QED BY <2>1, <2>3, <2>5, <2>6, <2>7, <2>9, <2>10
<1>2. CASE Moves(w)
  <2>1. /\ newptr' = NewHead(w) /\ DOMAIN mem' = DOMAIN mem \cup {NewHead(w)}
    BY <1>2, NewMemFacts DEF NewPtr
  <2>2. /\ FromHeads' = FromHeads /\ ToHeads' = ToHeads \cup {NewHead(w)}
        /\ HeapLayout' /\ ObjectsOK' /\ ForwardOK' /\ Tiles' /\ SpaceOK'
    BY <1>2, <2>1, MoveShape
  <2>3. NewHead(w) \in Nat /\ NewHead(w) < newptr
    <3>1. is_allocated(w) /\ w \in Nat
      BY <1>2, SizeFacts DEF Moves, Word
    <3>2. NewHead(w) \in Nat /\ NewHead(w) + Extent(Old(w)) = newptr
      BY <1>2, <3>1, CopyFits
    <3>3. Extent(Old(w)) \in Nat /\ Extent(Old(w)) > 0
      BY <3>1, OldObject, HeadFacts
    <3> QED BY <3>2, <3>3
  <2>4. newptr \in Nat /\ NewHead(w) \notin DOMAIN mem
    BY <1>2, NewptrFacts, NewMemFacts
  <2> QED BY <2>1, <2>2, <2>3, <2>4
<1> QED BY <1>1, <1>2

\* StartGC: nothing is moved and nothing visited yet.
LEMMA StartGCOK ==
    ASSUME HostContract, IInv, StartGC
    PROVE  IInv'
<1> USE DEF roots, areas
<1>1. /\ pc = "alloc" /\ pc' = "roots" /\ ~ Fits(call.n)
      /\ root' = 1 /\ fld' = 1 /\ newptr' = ToEnd
      /\ ptr' = ToEnd /\ old_start' = ToEnd /\ end' = ToEnd
      /\ UNCHANGED <<slot, roots, areas, alloc_ptr, mem, nextid, call>>
  BY DEF StartGC, ToEnd
<1>2. ~ InGC /\ InGC'
  BY <1>1 DEF InGC
<1>3. ToEnd' = ToEnd /\ ToEnd \in Nat
  BY <1>1, AreaFacts DEF ToEnd, IInv
<1>4. FromHeads' = FromHeads /\ ToHeads' = {} /\ DOMAIN mem' = FromHeads
      /\ \A h : Extent(h)' = Extent(h)
  BY <1>1, <1>2 DEF FromHeads, ToHeads, InArea, Extent, IInv, HeapLayout
<1>5. TypeOK'
  BY <1>1, <1>3 DEF IInv, TypeOK, PC
<1>6. HeapLayout'
  BY <1>1, <1>2, <1>4 DEF IInv, HeapLayout
<1>7a. CallOK'
  BY <1>1 DEF IInv, CallOK
<1>7. PointersOK'
  <2>1. \A s \in Slot : IsRoot(s)' <=> IsRoot(s)
    BY <1>1 DEF IsRoot
  <2>2. \A s \in Slot : ~ RootDone(s) /\ ~ RootDone(s)'
    BY <1>1 DEF RootDone, Slot
  <2>3. \A s \in Slot : IsRoot(s)' =>
         /\ Refers(WordIn(s, AreaOfRoot(s)), AreaOfRoot(s))'
         /\ s \in ptr_roots' => is_allocated(WordIn(s, AreaOfRoot(s)))'
    BY <1>1, <2>1, <2>2 DEF IInv, PointersOK, AreaOfRoot, WordIn, Refers, is_allocated
  <2>4. \A h, k : AreaOfField(h, k) = alloc_area /\ AreaOfField(h, k)' = alloc_area
    BY <1>1, <1>2, <1>4 DEF AreaOfField, FieldDone
  <2>5. call'.op = "cons" => \A s \in ArgSlot : Refers(slot[s], alloc_area)'
    BY <1>1 DEF IInv, PointersOK, Refers
  <2>6. \A h \in DOMAIN mem' :
         mem'[h].type = TYPE_PAIR /\ mem'[h].numwords # 0 =>
            \A k \in 1..mem'[h].size : Refers(mem[h].body[k], AreaOfField(h, k))'
    BY <1>1, <2>4 DEF IInv, PointersOK, Refers
  <2>6a. RootsFound'
    BY <2>3 DEF RootsFound
  <2>6b. OperandsFound'
    BY <1>5, <1>7a, <2>6a, RegisteredOperands, PTL
  <2> QED BY <2>3, <2>5, <2>6, <2>6b DEF PointersOK, OperandsFound
<1>8. ObjectsOK' /\ ForwardOK'
  BY <1>1, <1>2, <1>4 DEF IInv, ObjectsOK, ForwardOK
<1>9. Tiles'
  BY <1>1, <1>2, <1>3, <1>4 DEF Tiles
<1>10. ScanOK'
  <2>1. 1 \in RegSlot /\ 1 \in 1..(LastSlot + 1)
    BY ConstantsOK DEF ConstantsOK, RegSlot, LastSlot, ArgB
  <2>2. IsRoot(root)'
    BY <1>1, <2>1 DEF IsRoot
  <2> QED BY <1>1, <1>3, <2>1, <2>2 DEF ScanOK
<1>11. SpaceOK'
  <2>1. Moved' = {}
    <3>1. \A h \in FromHeads : mem'[h].numwords # 0
      BY <1>1, <1>2, <1>4, HeadFacts DEF IInv, ForwardOK
    <3> QED BY <1>4, <3>1 DEF Moved
  <2>2. MovedBytes' = {}
    BY <2>1 DEF MovedBytes
  <2> QED BY <1>1, <1>3, <2>2, FS_EmptySet DEF SpaceOK
<1>12. AllocOK'
  BY <1>1 DEF IInv, AllocOK
<1> QED BY <1>1, <1>5, <1>6, <1>7, <1>8, <1>9, <1>10, <1>11, <1>12, <1>7a
        DEF IInv, NoAssertFails

\* The root loops reach a word that refers to the old area.
LEMMA RootWordOK ==
    ASSUME HostContract, IInv, pc = "roots", root <= LastSlot
    PROVE  /\ root \in Slot /\ IsRoot(root)
           /\ RootWord(root) \in Word
           /\ Refers(RootWord(root), alloc_area)
           /\ root \in ArgSlot => root \in ptr_roots /\ is_allocated(RootWord(root))
<1>1. root \in Slot /\ IsRoot(root) /\ ~ RootDone(root)
  <2>1. root \in 1..(LastSlot + 1) /\ IsRoot(root) /\ root \in Nat
    BY DEF IInv, ScanOK, TypeOK
  <2>2. LastSlot \in Nat
    BY ConstantsOK DEF ConstantsOK, LastSlot, ArgB
  <2> QED BY <2>1, <2>2 DEF Slot, RootDone
<1>2. AreaOfRoot(root) = alloc_area
  BY <1>1 DEF AreaOfRoot
<1>3. /\ Refers(WordIn(root, alloc_area), alloc_area)
      /\ root \in ptr_roots => is_allocated(WordIn(root, alloc_area))
  BY <1>1, <1>2 DEF IInv, PointersOK
<1>4. CASE root \notin ArgSlot
  <2>1. RootWord(root) = slot[root] /\ WordIn(root, alloc_area) = slot[root]
    BY <1>4 DEF RootWord, WordIn
  <2>2. slot[root] \in Word
    BY <1>1, <1>4 DEF IInv, TypeOK
  <2> QED BY <1>1, <1>3, <1>4, <2>1, <2>2
<1>5. CASE root \in ArgSlot
  <2>1. root \in ptr_roots
    BY <1>1, <1>5, SlotRanges DEF IsRoot
  <2> DEFINE d == slot[root] - 2 - alloc_area
  <2>2. WordIn(root, alloc_area) = d
    BY <1>5, <2>1 DEF WordIn
  <2>3. slot[root] \in Nat /\ alloc_area \in Nat /\ alloc_size \in Nat
    BY <1>1, AreaFacts DEF IInv, TypeOK
  <2>4. d \in Int /\ 0 < d /\ d < alloc_size
    BY <1>3, <2>1, <2>2, <2>3 DEF Refers
  <2>5. d \in Word /\ d < WordValues /\ WordValues \in Nat
    BY <2>4, SizeFacts DEF Word
  <2>6. RootWord(root) = d % WordValues
    BY <1>5 DEF RootWord, ALLOCATED_FROM_POINTER, OffsetFrom
  <2>7. RootWord(root) = d
    <3> HIDE DEF d
    <3> QED BY <2>4, <2>5, <2>6
  <2> HIDE DEF d
  <2> QED BY <1>1, <1>3, <2>1, <2>2, <2>5, <2>7
<1> QED BY <1>4, <1>5

\* While the roots are visited, no field of a copy has been.
LEMMA NoFieldDone ==
    ASSUME HostContract, IInv, pc = "roots"
    PROVE  \A h, k : AreaOfField(h, k) = alloc_area
<1>1. ptr = ToEnd /\ old_start = ToEnd /\ end = ToEnd
  BY DEF IInv, ScanOK
<1>2. \A h \in ToHeads : h \in Nat /\ h < ToEnd
  <2> SUFFICES ASSUME NEW h \in ToHeads PROVE h \in Nat /\ h < ToEnd
    OBVIOUS
  <2>1. h \in Nat /\ Extent(h) \in Nat /\ Extent(h) > 0 /\ h + Extent(h) <= ToEnd
    BY HeadFacts
  <2> QED BY <2>1, AreaFacts DEF IInv
<1>3. ToEnd \in Nat
  BY AreaFacts DEF IInv
<1>4. \A h, k : ~ FieldDone(h, k)
  BY <1>1, <1>2, <1>3 DEF FieldDone
<1> QED BY <1>4 DEF AreaOfField

\* GcRoot: the root visited refers to the new area, the others as before.
LEMMA GcRootOK ==
    ASSUME HostContract, IInv, GcRoot
    PROVE  IInv'
<1> USE DEF roots, areas
<1>1. pc = "roots" /\ root <= LastSlot /\ InGC
  BY DEF GcRoot, InGC
<1>2. PICK r \in Slot, w \in Word : r = root /\ w = RootWord(root)
  BY <1>1, RootWordOK
<1>3. /\ IsRoot(r) /\ Refers(w, alloc_area)
      /\ r \in ArgSlot => r \in ptr_roots /\ is_allocated(w)
  BY <1>1, <1>2, RootWordOK
<1>4. /\ NewWord(w) \in Word /\ SlotOK(w)
      /\ ~ is_allocated(w) => NewWord(w) = w
      /\ is_allocated(w) => /\ is_allocated(NewWord(w))
                            /\ NewWord(w) > 0 /\ NewWord(w) < alloc_size
                            /\ alloc_area_fresh + NewWord(w) \in DOMAIN NewMem(w)
  <2>1. /\ NewWord(w) \in Word /\ SlotOK(w)
        /\ ~ is_allocated(w) => NewWord(w) = w
        /\ is_allocated(w) =>
             /\ is_allocated(NewWord(w))
             /\ NewWord(w) > 0 /\ NewWord(w) < alloc_size
             /\ Moves(w) => alloc_area_fresh + NewWord(w) = NewHead(w)
             /\ ~ Moves(w) => alloc_area_fresh + NewWord(w) \in DOMAIN mem
    BY <1>1, <1>3, SlotFacts
  <2>2. DOMAIN mem \subseteq DOMAIN NewMem(w)
    BY <1>1, <1>3, NewMemTyped
  <2>3. Moves(w) => NewHead(w) \in DOMAIN NewMem(w)
    BY <1>1, <1>3, NewMemFacts
  <2> QED BY <2>1, <2>2, <2>3
<1>5. /\ slot' = [slot EXCEPT ![r] = NewRoot(r)]
      /\ mem' = NewMem(w) /\ newptr' = NewPtr(w)
      /\ root' \in (r + 1)..(LastSlot + 1)
      /\ root' <= LastSlot => IsRoot(root')
      /\ \A s \in (r + 1)..(root' - 1) : ~ IsRoot(s)
      /\ pc' = "roots"
      /\ UNCHANGED <<ptr, fld, old_start, end, roots, areas, alloc_ptr, nextid, call>>
  BY <1>1, <1>2, <1>4 DEF GcRoot
<1>6. InGC'
  BY <1>5 DEF InGC
<1>7. /\ DOMAIN mem \subseteq DOMAIN mem' /\ DOMAIN mem' \subseteq Nat
      /\ \A h \in DOMAIN mem' :
           /\ mem'[h] \in Object /\ mem'[h].body \in [1..mem'[h].size -> Word]
           /\ mem'[h].type = TYPE_PAIR => ~ is_allocated(mem'[h].body[2])
           /\ \/ h \in DOMAIN mem /\ mem'[h] = mem[h]
              \/ mem'[h].numwords = 0
              \/ mem'[h] = mem[Old(w)] /\ Old(w) \in DOMAIN mem /\ mem[Old(w)].numwords # 0
  BY <1>1, <1>3, <1>5, NewMemTyped
<1>8. /\ FromHeads' = FromHeads /\ ToHeads \subseteq ToHeads'
      /\ HeapLayout' /\ ObjectsOK' /\ ForwardOK' /\ Tiles' /\ SpaceOK'
      /\ newptr' \in Nat /\ newptr' <= newptr
      /\ \A g \in ToHeads' : g \in ToHeads \/ (g < newptr /\ g \in Nat /\ g \notin DOMAIN mem)
  BY <1>1, <1>3, <1>5, <1>6, <1>7, HandleOK
<1>9. /\ r \in Nat /\ LastSlot \in Nat /\ root' \in Nat /\ r < root'
  BY <1>5, ConstantsOK DEF ConstantsOK, LastSlot, ArgB, Slot
<1>10. /\ NewRoot(r) \in Nat
       /\ r \notin ArgSlot => NewRoot(r) = NewWord(w)
       /\ r \in ArgSlot => NewRoot(r) = alloc_area_fresh + NewWord(w) + 2
  <2>1. NewWord(w) \in Nat
    BY <1>4, SizeFacts DEF Word
  <2> QED BY <1>2, <2>1, AreaFacts DEF NewRoot, IInv
<1>11. slot' \in [Slot -> Nat] /\ \A s \in Slot : s \notin ptr_roots' => slot'[s] \in Word
  <2>1. slot \in [Slot -> Nat] /\ \A s \in Slot : s \notin ptr_roots => slot[s] \in Word
    BY DEF IInv, TypeOK
  <2>2. r \in ArgSlot => r \in ptr_roots'
    BY <1>3, <1>5
  <2>3. slot' \in [Slot -> Nat]
    BY <1>5, <1>10, <2>1
  <2> QED BY <1>4, <1>5, <1>10, <2>1, <2>2, <2>3
<1>12. TypeOK'
  BY <1>5, <1>7, <1>8, <1>9, <1>11 DEF IInv, TypeOK, PC
<1>13. \A s \in Slot : IsRoot(s)' <=> IsRoot(s)
  BY <1>5 DEF IsRoot
<1>13a. CallOK'
  <2>1. call.op = "cons" => slot'[ArgA] = slot[ArgA] /\ slot'[ArgB] = slot[ArgB]
    <3> SUFFICES ASSUME call.op = "cons"
                 PROVE slot'[ArgA] = slot[ArgA] /\ slot'[ArgB] = slot[ArgB]
      OBVIOUS
    <3>1. ptr_roots = {}
      BY DEF IInv, CallOK
    <3>2. r # ArgA /\ r # ArgB
      BY <3>1, <1>3 DEF ArgSlot
    <3> QED BY <3>2, <1>5, SlotRanges DEF IInv, TypeOK, ArgSlot
  <2>2. call.op = "add" => \A s \in ArgSlot : is_fixnum(slot'[s]) \/ s \in ptr_roots
    <3> SUFFICES ASSUME call.op = "add", NEW s \in ArgSlot, s \notin ptr_roots
                 PROVE  is_fixnum(slot'[s])
      OBVIOUS
    <3>1. is_fixnum(slot[s])
      BY DEF IInv, CallOK
    <3>2. s # r /\ s \in Slot
      BY <1>3, SlotRanges
    <3>3. slot'[s] = slot[s]
      BY <3>2, <1>5 DEF IInv, TypeOK
    <3> QED BY <3>1, <3>3
  <2> QED BY <1>1, <1>5, <2>1, <2>2 DEF IInv, CallOK
<1>14. PointersOK'
  <2>1. ASSUME NEW s \in Slot, IsRoot(s)'
        PROVE  /\ Refers(WordIn(s, AreaOfRoot(s)), AreaOfRoot(s))'
               /\ s \in ptr_roots' => is_allocated(WordIn(s, AreaOfRoot(s)))'
    <3>1. IsRoot(s) /\ s \in Nat
      BY <1>13, <2>1, SizeFacts
    <3>2. CASE s = r
      <4>1. AreaOfRoot(s)' = alloc_area_fresh
        BY <3>2, <1>5, <1>9 DEF AreaOfRoot, RootDone
      <4>2. WordIn(s, AreaOfRoot(s))' = NewWord(w)
        <5>1. slot'[s] = NewRoot(r) /\ ptr_roots' = ptr_roots
          BY <3>2, <1>5 DEF IInv, TypeOK
        <5>2. NewWord(w) \in Nat /\ alloc_area_fresh \in Nat
          BY <1>4, SizeFacts, AreaFacts DEF Word, IInv
        <5>3. CASE s \in ArgSlot
          <6>1. WordIn(s, AreaOfRoot(s))' = slot'[s] - 2 - alloc_area_fresh
            BY <3>2, <4>1, <5>1, <5>3, <1>3 DEF WordIn
          <6> QED BY <3>2, <5>1, <5>2, <5>3, <6>1, <1>10
        <5>4. CASE s \notin ArgSlot
          BY <3>2, <5>1, <5>4, <1>10 DEF WordIn
        <5> QED BY <5>3, <5>4
      <4>3. \A v : v = NewWord(w) => Refers(v, alloc_area_fresh)'
        BY <1>4, <1>5 DEF Refers
      <4>4. Refers(WordIn(s, AreaOfRoot(s)), AreaOfRoot(s))'
        BY <1>5, <4>1, <4>2, <4>3 DEF Refers
      <4>5. s \in ptr_roots' => is_allocated(WordIn(s, AreaOfRoot(s)))'
        <5>1. s \in ptr_roots' => s \in ArgSlot
          BY <1>5 DEF IInv, TypeOK
        <5> QED BY <3>2, <4>2, <5>1, <1>3, <1>4 DEF is_allocated
      <4> QED BY <4>4, <4>5
    <3>3. CASE s # r
      <4>1. RootDone(s)' <=> RootDone(s)
        <5>1. s < root' <=> s < root
          <6>1. s < r => s < root'
            BY <3>1, <1>9
          <6>2. ASSUME s > r, s < root' PROVE FALSE
            <7>1. PICK q \in Nat : q = root'
              BY <1>9
            <7>2. s \in Nat /\ r \in Nat /\ s > r /\ s < q
              BY <3>1, <1>9, <6>2, <7>1
            <7>2a. s \in (r + 1)..(q - 1)
              BY <7>2
            <7>3. s \in (r + 1)..(root' - 1)
              BY <7>1, <7>2a
            <7> QED BY <7>3, <3>1, <1>5
          <6> QED BY <6>1, <6>2, <3>1, <3>3, <1>2, <1>9
        <5> QED BY <5>1, <1>1, <1>5 DEF RootDone
      <4>2. AreaOfRoot(s)' = AreaOfRoot(s)
        BY <4>1, <1>5 DEF AreaOfRoot
      <4>3. slot'[s] = slot[s]
        BY <3>3, <1>5 DEF IInv, TypeOK
      <4>4. WordIn(s, AreaOfRoot(s))' = WordIn(s, AreaOfRoot(s))
        BY <4>2, <4>3, <1>5 DEF WordIn
      <4>5. \A v, area : Refers(v, area) => Refers(v, area)'
        BY <1>7 DEF Refers
      <4>6. /\ Refers(WordIn(s, AreaOfRoot(s)), AreaOfRoot(s))
            /\ s \in ptr_roots => is_allocated(WordIn(s, AreaOfRoot(s)))
        BY <3>1 DEF IInv, PointersOK
      <4>7. \A v, area : v = WordIn(s, AreaOfRoot(s)) /\ area = AreaOfRoot(s) => Refers(v, area)'
        BY <4>5, <4>6
      <4>8. Refers(WordIn(s, AreaOfRoot(s)), AreaOfRoot(s))'
        BY <4>2, <4>4, <4>7 DEF Refers
      <4> QED BY <4>4, <4>6, <4>8, <1>5 DEF is_allocated
    <3> QED BY <3>2, <3>3
  <2>2. \A h, k : AreaOfField(h, k)' = alloc_area
    <3>1. ToEnd \in Nat /\ ToEnd' = ToEnd
      BY <1>5, AreaFacts DEF IInv, ToEnd
    <3>2. \A h \in ToHeads' : h \in Nat /\ h < ToEnd
      <4>1. newptr \in Nat /\ newptr <= ToEnd
        BY <1>1, NewptrFacts
      <4>2. \A h \in ToHeads : h \in Nat /\ h < ToEnd
        <5> SUFFICES ASSUME NEW h \in ToHeads PROVE h \in Nat /\ h < ToEnd
          OBVIOUS
        <5>1. h \in Nat /\ Extent(h) \in Nat /\ Extent(h) > 0 /\ h + Extent(h) <= ToEnd
          BY HeadFacts
        <5> QED BY <5>1, <3>1
      <4>3. ASSUME NEW h \in ToHeads' PROVE h \in Nat /\ h < ToEnd
        BY <1>8, <3>1, <4>1, <4>2
      <4> QED BY <4>3
    <3>3. ptr = ToEnd /\ old_start = ToEnd /\ end = ToEnd
      BY <1>1 DEF IInv, ScanOK
    <3>4. \A h, k : ~ FieldDone(h, k)'
      BY <3>1, <3>2, <3>3, <1>5 DEF FieldDone
    <3> QED BY <3>4, <1>5 DEF AreaOfField
  <2>3. call'.op = "cons" => \A s \in ArgSlot : Refers(slot[s], alloc_area)'
    <3> SUFFICES ASSUME call.op = "cons", NEW s \in ArgSlot
                 PROVE  Refers(slot[s], alloc_area)'
      BY <1>5
    <3>1. ptr_roots = {} /\ ~ is_allocated(slot[ArgA]) /\ ~ is_allocated(slot[ArgB])
      BY <1>1 DEF IInv, CallOK
    <3>2. slot'[s] = slot[s]
      BY <3>1, <1>3, <1>5, SlotRanges DEF IInv, TypeOK
    <3> QED BY <3>1, <3>2 DEF ArgSlot, Refers
  <2>4. ASSUME NEW h \in DOMAIN mem', mem'[h].type = TYPE_PAIR, mem'[h].numwords # 0,
               NEW k \in 1..mem'[h].size
        PROVE  Refers(mem[h].body[k], AreaOfField(h, k))'
    <3>1. PICK g \in DOMAIN mem : mem'[h] = mem[g]
      BY <2>4, <1>7
    <3>2. Refers(mem[g].body[k], AreaOfField(g, k)) /\ AreaOfField(g, k) = alloc_area
      BY <2>4, <3>1, <1>1, NoFieldDone DEF IInv, PointersOK
    <3>3. \A v : Refers(v, alloc_area) => Refers(v, alloc_area)'
      BY <1>5, <1>7 DEF Refers
    <3>4. \A v : v = mem[g].body[k] => Refers(v, alloc_area)'
      BY <3>2, <3>3
    <3> QED BY <2>2, <3>1, <3>4, <1>5 DEF Refers
  <2>5. \A h \in DOMAIN mem' :
         mem'[h].type = TYPE_PAIR /\ mem'[h].numwords # 0 =>
            \A k \in 1..mem'[h].size : Refers(mem[h].body[k], AreaOfField(h, k))'
    BY <2>4
  <2>6. \A s \in Slot : IsRoot(s)' =>
         /\ Refers(WordIn(s, AreaOfRoot(s)), AreaOfRoot(s))'
         /\ s \in ptr_roots' => is_allocated(WordIn(s, AreaOfRoot(s)))'
    BY <2>1
  <2>6a. RootsFound'
    BY <2>6 DEF RootsFound
  <2>6b. OperandsFound'
    BY <1>12, <1>13a, <2>6a, RegisteredOperands, PTL
  <2> QED BY <2>3, <2>5, <2>6, <2>6b DEF PointersOK, OperandsFound
<1>15. ScanOK'
  <2>1. ToEnd' = ToEnd
    BY <1>5 DEF ToEnd
  <2>2. root' \in 1..(LastSlot + 1)
    BY <1>5, <1>9
  <2>3. root' <= LastSlot => IsRoot(root)'
    BY <1>5 DEF IsRoot
  <2> QED BY <1>1, <1>5, <2>1, <2>2, <2>3 DEF IInv, ScanOK
<1>16. AllocOK'
  BY <1>1, <1>5 DEF IInv, AllocOK
<1> QED BY <1>5, <1>8, <1>12, <1>14, <1>15, <1>16, <1>13a DEF IInv, NoAssertFails

\* Where the scan stands.
LEMMA ScanFacts ==
    ASSUME HostContract, IInv, pc = "scan"
    PROVE  /\ newptr \in Nat /\ old_start \in Nat /\ ptr \in Nat /\ end \in Nat
           /\ ToEnd \in Nat /\ fld \in Nat
           /\ {newptr, ptr, old_start, end} \subseteq ToHeads \cup {ToEnd}
           /\ newptr <= old_start /\ old_start <= ptr /\ ptr <= end /\ end <= ToEnd
           /\ fld >= 1 /\ (ptr = end => fld = 1)
           /\ ptr < end => /\ ptr \in ToHeads /\ ptr \in DOMAIN mem
                           /\ mem[ptr].numwords = mem[ptr].size
                           /\ ptr + Extent(ptr) <= end
                           /\ \A h \in ToHeads : ptr < h => ptr + Extent(ptr) <= h
<1>1. /\ newptr \in Nat /\ old_start \in Nat /\ ptr \in Nat /\ end \in Nat /\ fld \in Nat
      /\ ToEnd \in Nat
  BY AreaFacts DEF IInv, TypeOK
<1>2. /\ {newptr, ptr, old_start, end} \subseteq ToHeads \cup {ToEnd}
      /\ newptr <= old_start /\ old_start <= ptr /\ ptr <= end
      /\ fld >= 1 /\ (ptr = end => fld = 1)
  BY DEF IInv, Tiles, ScanOK, InGC
<1>3. \A h \in ToHeads : h \in Nat /\ h + Extent(h) <= ToEnd /\ Extent(h) \in Nat /\ Extent(h) > 0
  BY HeadFacts
<1>4. end <= ToEnd
  BY <1>1, <1>2, <1>3
<1>5. ASSUME ptr < end
      PROVE  /\ ptr \in ToHeads /\ ptr \in DOMAIN mem
             /\ mem[ptr].numwords = mem[ptr].size
             /\ ptr + Extent(ptr) <= end
             /\ \A h \in ToHeads : ptr < h => ptr + Extent(ptr) <= h
  <2>1. ptr \in ToHeads
    BY <1>1, <1>2, <1>4, <1>5
  <2>2. ptr \in DOMAIN mem /\ ToHeads \subseteq DOMAIN mem
    BY <2>1, HeadFacts
  <2>3. \A h \in ToHeads : ptr < h => ptr + Extent(ptr) <= h
    BY <2>2 DEF IInv, HeapLayout
  <2>4. ptr + Extent(ptr) <= end
    BY <1>2, <1>3, <1>5, <2>1, <2>3
  <2>5. mem[ptr].numwords = mem[ptr].size
    BY <2>1 DEF IInv, ForwardOK
  <2> QED BY <2>1, <2>2, <2>3, <2>4, <2>5
<1> QED BY <1>1, <1>2, <1>4, <1>5

\* GcRootsDone: every root is done, and no field of a copy.
LEMMA GcRootsDoneOK ==
    ASSUME HostContract, IInv, GcRootsDone
    PROVE  IInv'
<1> USE DEF roots, areas
<1>1. /\ pc = "roots" /\ root > LastSlot /\ pc' = "scan"
      /\ old_start' = newptr /\ ptr' = newptr
      /\ UNCHANGED <<slot, roots, areas, alloc_ptr, mem, nextid, call,
                     newptr, root, fld, end>>
  BY DEF GcRootsDone
<1>2. InGC /\ InGC' /\ ToEnd' = ToEnd
  BY <1>1 DEF InGC, ToEnd
<1>3. FromHeads' = FromHeads /\ ToHeads' = ToHeads /\ \A h : Extent(h)' = Extent(h)
  BY <1>1 DEF FromHeads, ToHeads, InArea, Extent
<1>4. end = ToEnd /\ fld = 1 /\ newptr \in Nat /\ newptr <= ToEnd /\ ToEnd \in Nat
      /\ newptr \in ToHeads \cup {ToEnd}
  BY <1>1, <1>2, NewptrFacts, AreaFacts DEF IInv, ScanOK, Tiles
<1>5. TypeOK'
  BY <1>1 DEF IInv, TypeOK, PC
<1>6. HeapLayout' /\ ObjectsOK' /\ ForwardOK' /\ Tiles' /\ AllocOK'
  BY <1>1, <1>2, <1>3
  DEF IInv, HeapLayout, ObjectsOK, ForwardOK, Tiles, AllocOK, Refers
<1>7. SpaceOK'
  <2>1. MovedBytes' = MovedBytes
    BY <1>1, <1>3 DEF MovedBytes, Moved, Bytes
  <2> QED BY <1>1, <1>2, <2>1 DEF IInv, SpaceOK
<1>8. ScanOK'
  BY <1>1, <1>2, <1>3, <1>4 DEF ScanOK
<1>9. CallOK'
  BY <1>1 DEF IInv, CallOK
<1>10. PointersOK'
  <2>1. \A s \in Slot : IsRoot(s)' <=> IsRoot(s)
    BY <1>1 DEF IsRoot
  <2>2. \A s \in Slot : RootDone(s) /\ RootDone(s)'
    <3>1. root \in Nat /\ LastSlot \in Nat
      BY ConstantsOK DEF ConstantsOK, LastSlot, ArgB, IInv, TypeOK
    <3> QED BY <1>1, <3>1 DEF RootDone, Slot
  <2>3. \A s \in Slot : IsRoot(s)' =>
         /\ Refers(WordIn(s, AreaOfRoot(s)), AreaOfRoot(s))'
         /\ s \in ptr_roots' => is_allocated(WordIn(s, AreaOfRoot(s)))'
    BY <1>1, <2>1, <2>2 DEF IInv, PointersOK, AreaOfRoot, WordIn, Refers, is_allocated
  <2>4. \A h, k : AreaOfField(h, k) = alloc_area
    BY <1>1, NoFieldDone
  <2>5. ASSUME NEW h \in DOMAIN mem, mem[h].type = TYPE_PAIR, mem[h].numwords # 0,
               NEW k \in 1..mem[h].size
        PROVE  AreaOfField(h, k)' = alloc_area
    <3>1. k \in Nat /\ k >= 1
      BY HeadFacts, SizeFacts
    <3>2. \A g \in ToHeads : g \in Nat /\ g < ToEnd
      <4> SUFFICES ASSUME NEW g \in ToHeads PROVE g \in Nat /\ g < ToEnd
        OBVIOUS
      <4>1. g \in Nat /\ Extent(g) \in Nat /\ Extent(g) > 0 /\ g + Extent(g) <= ToEnd
        BY HeadFacts
      <4> QED BY <4>1, <1>4
    <3>3. ~ FieldDone(h, k)'
      <4>1. end' = ToEnd /\ old_start' = newptr /\ ptr' = newptr /\ fld' = 1 /\ ToHeads' = ToHeads
        BY <1>1, <1>3, <1>4
      <4>2. h \in ToHeads => ~ (h >= ToEnd) /\ ~ (newptr <= h /\ h < newptr)
        BY <1>4, <3>2
      <4>3. ~ (k < 1)
        BY <3>1
      <4> QED BY <4>1, <4>2, <4>3 DEF FieldDone
    <3> QED BY <3>3, <1>1 DEF AreaOfField
  <2>6. call'.op = "cons" => \A s \in ArgSlot : Refers(slot[s], alloc_area)'
    BY <1>1 DEF IInv, PointersOK, Refers
  <2>7. \A h \in DOMAIN mem' :
         mem'[h].type = TYPE_PAIR /\ mem'[h].numwords # 0 =>
            \A k \in 1..mem'[h].size : Refers(mem[h].body[k], AreaOfField(h, k))'
    BY <1>1, <2>4, <2>5 DEF IInv, PointersOK, Refers
  <2>7a. RootsFound'
    BY <2>3 DEF RootsFound
  <2>7b. OperandsFound'
    BY <1>5, <1>9, <2>7a, RegisteredOperands, PTL
  <2> QED BY <2>3, <2>6, <2>7, <2>7b DEF PointersOK, OperandsFound
<1> QED BY <1>1, <1>5, <1>6, <1>7, <1>8, <1>9, <1>10 DEF IInv, NoAssertFails

\* GcNextObject: all fields of the object passed by are done.
LEMMA GcNextObjectOK ==
    ASSUME HostContract, IInv, GcNextObject
    PROVE  IInv'
<1> USE DEF roots, areas
<1>1. pc = "scan" /\ ptr < end /\ fld \notin ToScan
  BY DEF GcNextObject
<1>2. /\ ptr \in ToHeads /\ ptr \in DOMAIN mem /\ mem[ptr].numwords = mem[ptr].size
      /\ mem[ptr].size \in 1..(GcLenLimit - 1) /\ mem[ptr].size # 0
      /\ Extent(ptr) = 2 * (mem[ptr].size + 1)
  BY <1>1, ScanFacts, HeadFacts
<1>3. /\ ptr' = ptr + Extent(ptr) /\ fld' = 1
      /\ UNCHANGED <<slot, mem, pc, newptr, root, old_start, end,
                     roots, areas, alloc_ptr, nextid, call>>
  BY <1>1, <1>2 DEF GcNextObject
<1>4. InGC /\ InGC' /\ ToEnd' = ToEnd
  BY <1>1, <1>3 DEF InGC, ToEnd
<1>5. FromHeads' = FromHeads /\ ToHeads' = ToHeads /\ \A h : Extent(h)' = Extent(h)
  BY <1>3 DEF FromHeads, ToHeads, InArea, Extent
<1>6. Extent(ptr) \in Nat /\ Extent(ptr) > 0 /\ ptr \in Nat /\ end \in Nat
      /\ old_start \in Nat
  BY <1>1, <1>2, ScanFacts, HeadFacts
<1>7. TypeOK'
  BY <1>3, <1>6 DEF IInv, TypeOK
<1>8. HeapLayout' /\ ObjectsOK' /\ ForwardOK' /\ Tiles' /\ AllocOK'
  BY <1>3, <1>4, <1>5
  DEF IInv, HeapLayout, ObjectsOK, ForwardOK, Tiles, AllocOK, Refers
<1>9. SpaceOK'
  <2>1. MovedBytes' = MovedBytes
    BY <1>3, <1>5 DEF MovedBytes, Moved, Bytes
  <2> QED BY <1>3, <1>4, <2>1 DEF IInv, SpaceOK
<1>10. CallOK'
  BY <1>1, <1>3 DEF IInv, CallOK
<1>11. ScanOK'
  <2>1. ptr + Extent(ptr) \in ToHeads \cup {ToEnd}
    BY <1>2, <1>4 DEF IInv, Tiles
  <2> QED BY <1>1, <1>3, <1>4, <1>5, <1>6, <2>1, ScanFacts DEF ScanOK
<1>12. PointersOK'
  <2>1. \A s \in Slot : IsRoot(s)' <=> IsRoot(s)
    BY <1>3 DEF IsRoot
  <2>2. \A s \in Slot : RootDone(s) /\ RootDone(s)'
    BY <1>1, <1>3 DEF RootDone
  <2>3. \A s \in Slot : IsRoot(s)' =>
         /\ Refers(WordIn(s, AreaOfRoot(s)), AreaOfRoot(s))'
         /\ s \in ptr_roots' => is_allocated(WordIn(s, AreaOfRoot(s)))'
    BY <1>3, <2>1, <2>2 DEF IInv, PointersOK, AreaOfRoot, WordIn, Refers, is_allocated
  <2>4. call'.op = "cons" => \A s \in ArgSlot : Refers(slot[s], alloc_area)'
    BY <1>3 DEF IInv, PointersOK, Refers
  <2>5. ASSUME NEW h \in DOMAIN mem, mem[h].type = TYPE_PAIR, mem[h].numwords # 0,
               NEW k \in 1..mem[h].size
        PROVE  Refers(mem[h].body[k], AreaOfField(h, k))'
    <3>0. Refers(mem[h].body[k], AreaOfField(h, k)) /\ k \in Nat /\ k >= 1
      BY <2>5, HeadFacts, SizeFacts DEF IInv, PointersOK
    <3>1. mem[h].size = 2 /\ ~ is_allocated(mem[h].body[2])
      BY <2>5 DEF IInv, ObjectsOK
    <3>2. CASE h = ptr /\ k = 1
      <4>1. ToScan = 1..1
        BY <1>2, <2>5, <3>1, <3>2
        DEF ToScan, FieldsVisited, TYPE_IS_BINARY, TYPE_PAIR
      <4>2. fld > 1
        BY <4>1, <1>1, ScanFacts
      <4>3. FieldDone(h, k) /\ FieldDone(h, k)'
        BY <4>2, <3>2, <1>2, <1>3, <1>4, <1>5, <1>6, <1>1, ScanFacts DEF FieldDone
      <4>4. AreaOfField(h, k) = alloc_area_fresh /\ AreaOfField(h, k)' = alloc_area_fresh
        BY <4>3, <1>3, <1>4 DEF AreaOfField
      <4> QED BY <4>4, <3>0, <1>3 DEF Refers
    <3>3. CASE h # ptr
      <4>1. FieldDone(h, k)' <=> FieldDone(h, k)
        <5>1. h \in ToHeads =>
                /\ h \in Nat
                /\ ptr < h => ptr + Extent(ptr) <= h
          BY <1>1, ScanFacts, HeadFacts
        <5> QED BY <5>1, <3>0, <3>3, <1>1, <1>3, <1>4, <1>5, <1>6, ScanFacts DEF FieldDone
      <4>2. AreaOfField(h, k)' = AreaOfField(h, k)
        BY <4>1, <1>3, <1>4 DEF AreaOfField
      <4> QED BY <4>2, <3>0, <1>3 DEF Refers
    <3>4. CASE k = 2
      BY <3>1, <3>4, <1>3 DEF Refers, is_allocated
    <3> QED BY <3>1, <3>2, <3>3, <3>4, <3>0
  <2>6. \A h \in DOMAIN mem' :
         mem'[h].type = TYPE_PAIR /\ mem'[h].numwords # 0 =>
            \A k \in 1..mem'[h].size : Refers(mem[h].body[k], AreaOfField(h, k))'
    BY <1>3, <2>5
  <2>6a. RootsFound'
    BY <2>3 DEF RootsFound
  <2>6b. OperandsFound'
    BY <1>7, <1>10, <2>6a, RegisteredOperands, PTL
  <2> QED BY <2>3, <2>4, <2>6, <2>6b DEF PointersOK, OperandsFound
<1> QED BY <1>3, <1>7, <1>8, <1>9, <1>10, <1>11, <1>12 DEF IInv, NoAssertFails

\* The scan reads a word that refers to the old area: the first field of a pair.
LEMMA FieldWordOK ==
    ASSUME HostContract, IInv, pc = "scan", ptr < end, fld \in ToScan
    PROVE  /\ ptr \in DOMAIN mem /\ ptr \in ToHeads
           /\ fld = 1 /\ mem[ptr].type = TYPE_PAIR
           /\ mem[ptr].size = 2 /\ mem[ptr].numwords = 2
           /\ mem[ptr].body[1] \in Word
           /\ Refers(mem[ptr].body[1], alloc_area)
<1>1. /\ ptr \in ToHeads /\ ptr \in DOMAIN mem /\ mem[ptr].numwords = mem[ptr].size
      /\ fld \in Nat
  BY ScanFacts
<1>2. mem[ptr].type = TYPE_PAIR
  <2>1. mem[ptr].type \in {TYPE_PAIR, TYPE_BIGNUM}
    BY <1>1 DEF IInv, TypeOK, Object
  <2> QED BY <2>1 DEF ToScan, TYPE_IS_BINARY, TYPE_PAIR, TYPE_BIGNUM
<1>3. mem[ptr].size = 2 /\ mem[ptr].numwords = 2
  BY <1>1, <1>2 DEF IInv, ObjectsOK
<1>4. fld = 1
  BY <1>1, <1>2, <1>3 DEF ToScan, FieldsVisited
<1>5. mem[ptr].body[1] \in Word
  <2>1. mem[ptr].body \in [1..2 -> Word]
    BY <1>1, <1>3 DEF IInv, TypeOK
  <2> QED BY <2>1
<1>6. ~ FieldDone(ptr, 1)
  BY <1>4, ScanFacts DEF FieldDone
<1>7. Refers(mem[ptr].body[1], alloc_area)
  <2>1. Refers(mem[ptr].body[1], AreaOfField(ptr, 1))
    BY <1>1, <1>2, <1>3 DEF IInv, PointersOK
  <2> QED BY <1>6, <2>1 DEF AreaOfField
<1> QED BY <1>1, <1>2, <1>3, <1>4, <1>5, <1>7

\* GcScanField: the field visited refers to the new area; a new copy, below the
\* scan, still refers to the old one.
LEMMA GcScanFieldOK ==
    ASSUME HostContract, IInv, GcScanField
    PROVE  IInv'
<1> USE DEF roots, areas
<1>1. pc = "scan" /\ ptr < end /\ fld \in ToScan /\ InGC
  BY DEF GcScanField, InGC
<1>2. PICK p \in DOMAIN mem, w \in Word : p = ptr /\ w = mem[ptr].body[1]
  BY <1>1, FieldWordOK
<1>3. /\ p \in ToHeads /\ fld = 1 /\ mem[p].type = TYPE_PAIR
      /\ mem[p].size = 2 /\ mem[p].numwords = 2 /\ Refers(w, alloc_area)
  BY <1>1, <1>2, FieldWordOK
<1>4. /\ NewWord(w) \in Word /\ SlotOK(w)
      /\ ~ is_allocated(w) => NewWord(w) = w
      /\ is_allocated(w) => /\ is_allocated(NewWord(w))
                            /\ NewWord(w) > 0 /\ NewWord(w) < alloc_size
                            /\ alloc_area_fresh + NewWord(w) \in DOMAIN NewMem(w)
  <2>1. /\ NewWord(w) \in Word /\ SlotOK(w)
        /\ ~ is_allocated(w) => NewWord(w) = w
        /\ is_allocated(w) =>
             /\ is_allocated(NewWord(w))
             /\ NewWord(w) > 0 /\ NewWord(w) < alloc_size
             /\ Moves(w) => alloc_area_fresh + NewWord(w) = NewHead(w)
             /\ ~ Moves(w) => alloc_area_fresh + NewWord(w) \in DOMAIN mem
    BY <1>1, <1>3, SlotFacts
  <2>2. DOMAIN mem \subseteq DOMAIN NewMem(w)
    BY <1>1, <1>3, NewMemTyped
  <2>3. Moves(w) => NewHead(w) \in DOMAIN NewMem(w)
    BY <1>1, <1>3, NewMemFacts
  <2> QED BY <2>1, <2>2, <2>3
<1>5. /\ mem' = [NewMem(w) EXCEPT ![p].body = [@ EXCEPT ![1] = NewWord(w)]]
      /\ newptr' = NewPtr(w) /\ fld' = 2
      /\ UNCHANGED <<slot, pc, root, ptr, old_start, end, roots, areas, alloc_ptr,
                     nextid, call>>
  BY <1>1, <1>2, <1>3, <1>4 DEF GcScanField
<1>6. InGC'
  BY <1>1, <1>5 DEF InGC
<1>7. /\ DOMAIN mem \subseteq DOMAIN NewMem(w) /\ DOMAIN NewMem(w) \subseteq Nat
      /\ \A h \in DOMAIN NewMem(w) :
           /\ NewMem(w)[h] \in Object
           /\ NewMem(w)[h].body \in [1..NewMem(w)[h].size -> Word]
           /\ NewMem(w)[h].type = TYPE_PAIR => ~ is_allocated(NewMem(w)[h].body[2])
           /\ \/ h \in DOMAIN mem /\ NewMem(w)[h] = mem[h]
              \/ NewMem(w)[h].numwords = 0 /\ h \in FromHeads
              \/ /\ h = NewHead(w) /\ h \notin DOMAIN mem /\ Moves(w)
                 /\ NewMem(w)[h] = mem[Old(w)] /\ Old(w) \in FromHeads
                 /\ Old(w) \in DOMAIN mem /\ mem[Old(w)].numwords # 0
  BY <1>1, <1>3, NewMemTyped
<1>8. p \in DOMAIN NewMem(w) /\ NewMem(w)[p] = mem[p] /\ p \notin FromHeads
  BY <1>3, <1>7, HeadFacts
<1>9. PICK b \in [1..2 -> Word] : b = [mem[p].body EXCEPT ![1] = NewWord(w)]
  <2>1. mem[p].body \in [1..2 -> Word]
    BY <1>3 DEF IInv, TypeOK
  <2> QED BY <1>4, <2>1
<1>10. b[1] = NewWord(w) /\ b[2] = mem[p].body[2] /\ b \in Seq(Word)
  <2>1. mem[p].body \in [1..2 -> Word]
    BY <1>3 DEF IInv, TypeOK
  <2>2. b \in Seq(Word)
    <3>1. PICK m \in Nat : m = 2
      OBVIOUS
    <3>2. b \in [1..m -> Word]
      BY <1>9, <3>1
    <3> QED BY <3>2
  <2> QED BY <1>9, <2>1, <2>2
<1>11. mem'[p] = [mem[p] EXCEPT !.body = b]
  BY <1>5, <1>8, <1>9
<1>12. /\ DOMAIN mem' = DOMAIN NewMem(w)
       /\ \A h \in DOMAIN mem' : h # p => mem'[h] = NewMem(w)[h]
  BY <1>5
<1>13. /\ mem'[p] \in Object /\ mem'[p].body = b /\ mem'[p].type = TYPE_PAIR
       /\ mem'[p].size = 2 /\ mem'[p].numwords = 2
  <2>1. mem[p] \in Object
    BY DEF IInv, TypeOK
  <2>2. [mem[p] EXCEPT !.body = b] \in Object
    BY ONLY <1>10, <2>1 DEF Object
  <2>3. /\ mem'[p].body = b /\ mem'[p].type = mem[p].type
        /\ mem'[p].size = mem[p].size /\ mem'[p].numwords = mem[p].numwords
    BY ONLY <1>11, <2>1 DEF Object
  <2>4. mem[p].type = TYPE_PAIR /\ mem[p].size = 2 /\ mem[p].numwords = 2
    BY <1>3
  <2>5. mem'[p] \in Object
    BY ONLY <1>11, <2>2
  <2> QED BY ONLY <2>3, <2>4, <2>5
<1>14. ~ is_allocated(mem[p].body[2])
  BY <1>3 DEF IInv, ObjectsOK
<1>15. /\ DOMAIN mem' \subseteq Nat
       /\ \A h \in DOMAIN mem' :
            /\ mem'[h] \in Object /\ mem'[h].body \in [1..mem'[h].size -> Word]
            /\ mem'[h].type = TYPE_PAIR => ~ is_allocated(mem'[h].body[2])
            /\ mem'[h].type = NewMem(w)[h].type
            /\ mem'[h].size = NewMem(w)[h].size
            /\ mem'[h].numwords = NewMem(w)[h].numwords
  <2> SUFFICES ASSUME NEW h \in DOMAIN mem'
               PROVE  /\ mem'[h] \in Object /\ mem'[h].body \in [1..mem'[h].size -> Word]
                      /\ mem'[h].type = TYPE_PAIR => ~ is_allocated(mem'[h].body[2])
                      /\ mem'[h].type = NewMem(w)[h].type
                      /\ mem'[h].size = NewMem(w)[h].size
                      /\ mem'[h].numwords = NewMem(w)[h].numwords
    BY <1>7, <1>12
  <2>1. CASE h = p
    BY <2>1, <1>3, <1>8, <1>10, <1>13, <1>14
  <2>2. CASE h # p
    BY <2>2, <1>7, <1>12
  <2> QED BY <2>1, <2>2
<1>16. \A h \in FromHeads : mem'[h].body = NewMem(w)[h].body
  <2>1. FromHeads \subseteq DOMAIN mem'
    BY <1>7, <1>12, HeadFacts
  <2> QED BY <2>1, <1>8, <1>12
<1>17. /\ FromHeads' = FromHeads /\ ToHeads \subseteq ToHeads'
       /\ HeapLayout' /\ ObjectsOK' /\ ForwardOK' /\ Tiles' /\ SpaceOK'
       /\ newptr' \in Nat /\ newptr' <= newptr
       /\ \A g \in ToHeads' : g \in ToHeads \/ (g < newptr /\ g \in Nat /\ g \notin DOMAIN mem)
  BY <1>1, <1>3, <1>5, <1>6, <1>12, <1>15, <1>16, HandleOK
<1>18. TypeOK'
  BY <1>5, <1>15, <1>17 DEF IInv, TypeOK
<1>19. AllocOK' /\ CallOK'
  BY <1>1, <1>5 DEF IInv, AllocOK, CallOK
<1>20. ScanOK'
  <2>1. ToEnd' = ToEnd
    BY <1>5 DEF ToEnd
  <2>2. /\ {ptr, old_start, end} \subseteq ToHeads' \cup {ToEnd}
        /\ newptr' <= old_start
    BY <1>1, <1>17, ScanFacts
  <2> QED BY <1>1, <1>5, <2>1, <2>2, ScanFacts DEF ScanOK
<1>21. \A v, area : Refers(v, area) => Refers(v, area)'
  BY <1>7, <1>12 DEF Refers
<1>22. PointersOK'
  <2>1. \A s \in Slot : IsRoot(s)' <=> IsRoot(s)
    BY <1>5 DEF IsRoot
  <2>2. \A s \in Slot : RootDone(s) /\ RootDone(s)'
    BY <1>1, <1>5 DEF RootDone
  <2>3. ASSUME NEW s \in Slot, IsRoot(s)'
        PROVE  /\ Refers(WordIn(s, AreaOfRoot(s)), AreaOfRoot(s))'
               /\ s \in ptr_roots' => is_allocated(WordIn(s, AreaOfRoot(s)))'
    <3>1. /\ Refers(WordIn(s, alloc_area_fresh), alloc_area_fresh)
          /\ s \in ptr_roots => is_allocated(WordIn(s, alloc_area_fresh))
      BY <2>1, <2>2, <2>3 DEF IInv, PointersOK, AreaOfRoot
    <3>2. WordIn(s, alloc_area_fresh)' = WordIn(s, alloc_area_fresh)
      BY <1>5 DEF WordIn
    <3>3. \A v, area : v = WordIn(s, alloc_area_fresh) /\ area = alloc_area_fresh
                       => Refers(v, area)'
      BY <1>21, <3>1
    <3>4. AreaOfRoot(s)' = alloc_area_fresh
      BY <2>2, <1>5 DEF AreaOfRoot
    <3>5. WordIn(s, AreaOfRoot(s))' = WordIn(s, alloc_area_fresh)
      BY <3>2, <3>4, <1>5 DEF WordIn
    <3>6. Refers(WordIn(s, AreaOfRoot(s)), AreaOfRoot(s))'
      BY <3>3, <3>4, <3>5 DEF Refers
    <3> QED BY <3>1, <3>5, <3>6, <1>5 DEF is_allocated
  <2>4. call'.op = "cons" => \A s \in ArgSlot : Refers(slot[s], alloc_area)'
    <3>1. call.op = "cons" => ~ is_allocated(slot[ArgA]) /\ ~ is_allocated(slot[ArgB])
      BY <1>1 DEF IInv, CallOK
    <3> QED BY <3>1, <1>5 DEF ArgSlot, Refers
  <2>5. ASSUME NEW h \in DOMAIN mem', mem'[h].type = TYPE_PAIR, mem'[h].numwords # 0,
               NEW k \in 1..mem'[h].size
        PROVE  Refers(mem[h].body[k], AreaOfField(h, k))'
    <3>0. h \in Nat /\ k \in Nat /\ mem'[h].size \in Nat
      <4>1. mem'[h].size \in 1..255
        BY <1>15 DEF Object
      <4>2. mem'[h].size \in Nat
        BY <4>1
      <4>3. h \in Nat
        BY <1>15
      <4>4. k \in Nat
        BY <4>2
      <4> QED BY <4>2, <4>3, <4>4
    <3>1. newptr \in Nat /\ old_start \in Nat /\ end \in Nat /\ newptr <= old_start
          /\ old_start <= ptr /\ ptr < end /\ ptr \in Nat
      BY <1>1, ScanFacts
    <3>2. CASE h = p
      <4>1. k = 1 \/ k = 2
        BY <3>2, <1>13
      <4>2. CASE k = 1
        <5>1. FieldDone(h, k)'
          BY <3>1, <3>2, <4>2, <1>2, <1>3, <1>5, <1>6, <1>17 DEF FieldDone
        <5>2. AreaOfField(h, k)' = alloc_area_fresh
          BY <5>1, <1>5, <1>6 DEF AreaOfField
        <5>3. mem'[h].body[k] = NewWord(w)
          BY <3>2, <4>2, <1>10, <1>13
        <5>4. \A v : v = NewWord(w) => Refers(v, alloc_area_fresh)'
          BY <1>3, <1>4, <1>5, <1>12 DEF Refers
        <5> QED BY <5>2, <5>3, <5>4, <1>5 DEF Refers
      <4>3. CASE k = 2
        BY <3>2, <4>3, <1>10, <1>13, <1>14 DEF Refers, is_allocated
      <4> QED BY <4>1, <4>2, <4>3
    <3>3. CASE h # p /\ h \in DOMAIN mem
      <4>1. mem'[h] = mem[h]
        BY <3>3, <2>5, <1>7, <1>12
      <4>2. h \in ToHeads' <=> h \in ToHeads
        BY <3>3, <1>17, HeadFacts
      <4>3. FieldDone(h, k)' <=> FieldDone(h, k)
        BY <3>3, <4>2, <1>1, <1>2, <1>5, <1>6 DEF FieldDone
      <4>4. AreaOfField(h, k)' = AreaOfField(h, k)
        BY <4>3, <1>1, <1>5, <1>6 DEF AreaOfField
      <4>5. Refers(mem[h].body[k], AreaOfField(h, k))
        BY <2>5, <3>3, <4>1 DEF IInv, PointersOK
      <4>6. \A v, area : v = mem[h].body[k] /\ area = AreaOfField(h, k) => Refers(v, area)'
        BY <1>21, <4>5
      <4> QED BY <4>1, <4>4, <4>6 DEF Refers
    <3>4. CASE h # p /\ h \notin DOMAIN mem
      <4>1. /\ mem'[h] = mem[Old(w)] /\ Old(w) \in FromHeads /\ Old(w) \in DOMAIN mem
            /\ mem[Old(w)].numwords # 0
        BY <3>4, <2>5, <1>7, <1>12, HeadFacts
      <4>2. ~ FieldDone(Old(w), k)
        BY <4>1, HeadFacts DEF FieldDone
      <4>3. Refers(mem[Old(w)].body[k], alloc_area)
        <5>1. Refers(mem[Old(w)].body[k], AreaOfField(Old(w), k))
          BY <2>5, <4>1 DEF IInv, PointersOK
        <5> QED BY <4>2, <5>1 DEF AreaOfField
      <4>4. \A v, area : v = mem[Old(w)].body[k] /\ area = alloc_area => Refers(v, area)'
        BY <1>21, <4>3
      <4>5. ~ FieldDone(h, k)'
        <5>1. h \in ToHeads' => h < newptr
          BY <3>4, <1>17, HeadFacts
        <5>2. h \in ToHeads' => ~ (h >= end) /\ ~ (old_start <= h) /\ h # ptr
          BY <3>0, <3>1, <5>1
        <5> QED BY <5>2, <1>5 DEF FieldDone
      <4>6. AreaOfField(h, k)' = alloc_area
        BY <4>5, <1>5 DEF AreaOfField
      <4> QED BY <4>1, <4>4, <4>6, <1>5 DEF Refers
    <3> QED BY <3>2, <3>3, <3>4
  <2>6. \A s \in Slot : IsRoot(s)' =>
         /\ Refers(WordIn(s, AreaOfRoot(s)), AreaOfRoot(s))'
         /\ s \in ptr_roots' => is_allocated(WordIn(s, AreaOfRoot(s)))'
    BY <2>3
  <2>7. \A h \in DOMAIN mem' :
         mem'[h].type = TYPE_PAIR /\ mem'[h].numwords # 0 =>
            \A k \in 1..mem'[h].size : Refers(mem[h].body[k], AreaOfField(h, k))'
    BY <2>5
  <2>7a. RootsFound'
    BY <2>6 DEF RootsFound
  <2>7b. OperandsFound'
    BY <1>18, <1>19, <2>7a, RegisteredOperands, PTL
  <2> QED BY <2>4, <2>6, <2>7, <2>7b DEF PointersOK, OperandsFound
<1> QED BY <1>1, <1>5, <1>17, <1>18, <1>19, <1>20, <1>22 DEF IInv, NoAssertFails

\* GcNextRound: what was visited stays visited.
LEMMA GcNextRoundOK ==
    ASSUME HostContract, IInv, GcNextRound
    PROVE  IInv'
<1> USE DEF roots, areas
<1>1. /\ pc = "scan" /\ ptr >= end /\ newptr < old_start
      /\ end' = old_start /\ old_start' = newptr /\ ptr' = newptr
      /\ UNCHANGED <<slot, roots, areas, alloc_ptr, mem, nextid, pc, call,
                     newptr, root, fld>>
  BY DEF GcNextRound, AnotherRound
<1>2. InGC /\ InGC' /\ ToEnd' = ToEnd
  BY <1>1 DEF InGC, ToEnd
<1>3. FromHeads' = FromHeads /\ ToHeads' = ToHeads /\ \A h : Extent(h)' = Extent(h)
  BY <1>1 DEF FromHeads, ToHeads, InArea, Extent
<1>4. /\ newptr \in Nat /\ old_start \in Nat /\ ptr \in Nat /\ end \in Nat
      /\ {newptr, ptr, old_start, end} \subseteq ToHeads \cup {ToEnd}
      /\ old_start <= ptr /\ ptr <= end /\ ptr = end /\ fld = 1
  BY <1>1, ScanFacts
<1>5. TypeOK'
  BY <1>1 DEF IInv, TypeOK
<1>6. HeapLayout' /\ ObjectsOK' /\ ForwardOK' /\ Tiles' /\ AllocOK'
  BY <1>1, <1>2, <1>3
  DEF IInv, HeapLayout, ObjectsOK, ForwardOK, Tiles, AllocOK, Refers
<1>7. SpaceOK'
  <2>1. MovedBytes' = MovedBytes
    BY <1>1, <1>3 DEF MovedBytes, Moved, Bytes
  <2> QED BY <1>1, <1>2, <2>1 DEF IInv, SpaceOK
<1>8. ScanOK'
  BY <1>1, <1>2, <1>3, <1>4 DEF ScanOK
<1>9. CallOK'
  BY <1>1 DEF IInv, CallOK
<1>10. PointersOK'
  <2>1. \A s \in Slot : IsRoot(s)' <=> IsRoot(s)
    BY <1>1 DEF IsRoot
  <2>2. \A s \in Slot : RootDone(s) /\ RootDone(s)'
    BY <1>1 DEF RootDone
  <2>3. \A s \in Slot : IsRoot(s)' =>
         /\ Refers(WordIn(s, AreaOfRoot(s)), AreaOfRoot(s))'
         /\ s \in ptr_roots' => is_allocated(WordIn(s, AreaOfRoot(s)))'
    BY <1>1, <2>1, <2>2 DEF IInv, PointersOK, AreaOfRoot, WordIn, Refers, is_allocated
  <2>4. call'.op = "cons" => \A s \in ArgSlot : Refers(slot[s], alloc_area)'
    BY <1>1 DEF IInv, PointersOK, Refers
  <2>5. ASSUME NEW h \in DOMAIN mem, mem[h].type = TYPE_PAIR, mem[h].numwords # 0,
               NEW k \in 1..mem[h].size
        PROVE  Refers(mem[h].body[k], AreaOfField(h, k))'
    <3>1. h \in Nat /\ k \in Nat /\ k >= 1
      BY HeadFacts, SizeFacts
    <3>2. FieldDone(h, k)' <=> FieldDone(h, k)
      BY <1>1, <1>2, <1>3, <1>4, <3>1 DEF FieldDone
    <3>3. AreaOfField(h, k)' = AreaOfField(h, k)
      BY <3>2, <1>1, <1>2 DEF AreaOfField
    <3>4. Refers(mem[h].body[k], AreaOfField(h, k))
      BY <2>5 DEF IInv, PointersOK
    <3> QED BY <3>3, <3>4, <1>1 DEF Refers
  <2>6. \A h \in DOMAIN mem' :
         mem'[h].type = TYPE_PAIR /\ mem'[h].numwords # 0 =>
            \A k \in 1..mem'[h].size : Refers(mem[h].body[k], AreaOfField(h, k))'
    BY <1>1, <2>5
  <2>6a. RootsFound'
    BY <2>3 DEF RootsFound
  <2>6b. OperandsFound'
    BY <1>5, <1>9, <2>6a, RegisteredOperands, PTL
  <2> QED BY <2>3, <2>4, <2>6, <2>6b DEF PointersOK, OperandsFound
<1> QED BY <1>1, <1>5, <1>6, <1>7, <1>8, <1>9, <1>10 DEF IInv, NoAssertFails

\* GcFlip: everything visited is everything that is left.
LEMMA GcFlipOK ==
    ASSUME HostContract, IInv, GcFlip
    PROVE  IInv'
<1> USE DEF roots
<1>1. /\ pc = "scan" /\ ptr >= end /\ ~ (newptr < old_start) /\ pc' = "slow"
      /\ alloc_area' = alloc_area_fresh /\ alloc_area_fresh' = alloc_area
      /\ alloc_ptr' = newptr
      /\ mem' = [h \in {g \in DOMAIN mem : /\ alloc_area_fresh <= g
                                           /\ g < alloc_area_fresh + alloc_size}
                   |-> mem[h]]
      /\ newptr' = 0 /\ root' = 0 /\ ptr' = 0 /\ fld' = 0
      /\ old_start' = 0 /\ end' = 0
      /\ UNCHANGED <<slot, roots, nextid, call>>
  BY DEF GcFlip, AnotherRound
<1>2. InGC /\ ~ InGC'
  BY <1>1 DEF InGC
<1>3. /\ alloc_size \in Nat /\ alloc_area \in Nat /\ alloc_area_fresh \in Nat
      /\ ToEnd = alloc_area_fresh + alloc_size /\ ToEnd \in Nat
      /\ \/ alloc_area = 0 /\ alloc_area_fresh = alloc_size
         \/ alloc_area = alloc_size /\ alloc_area_fresh = 0
  BY AreaFacts DEF IInv, ToEnd
<1>4. /\ newptr \in Nat /\ old_start \in Nat /\ ptr \in Nat /\ end \in Nat
      /\ newptr = old_start /\ ptr = end
      /\ newptr \in ToHeads \cup {ToEnd}
  BY <1>1, ScanFacts
<1>5. newptr % 2 = 0 /\ alloc_area_fresh < newptr /\ newptr <= ToEnd
  BY <1>2, NewptrFacts
<1>6. ToHeads = {g \in DOMAIN mem : alloc_area_fresh <= g /\ g < alloc_area_fresh + alloc_size}
  <2>1. ASSUME NEW g \in ToHeads
        PROVE  g \in DOMAIN mem /\ alloc_area_fresh <= g /\ g < alloc_area_fresh + alloc_size
    <3>1. g \in Nat /\ Extent(g) \in Nat /\ Extent(g) > 0 /\ g \in DOMAIN mem
          /\ alloc_area_fresh < g /\ g + Extent(g) <= ToEnd
      BY HeadFacts
    <3> QED BY <3>1, <1>3
  <2>2. ASSUME NEW g \in FromHeads
        PROVE  ~ (alloc_area_fresh <= g /\ g < alloc_area_fresh + alloc_size)
    <3>1. g \in Nat /\ Extent(g) \in Nat /\ Extent(g) > 0
          /\ alloc_area < g /\ g + Extent(g) <= alloc_area + alloc_size
      BY HeadFacts
    <3> QED BY <3>1, <1>3
  <2>3. DOMAIN mem = FromHeads \cup ToHeads
    BY HeadFacts
  <2> QED BY <2>1, <2>2, <2>3
<1>7. DOMAIN mem' = ToHeads /\ \A h \in ToHeads : mem'[h] = mem[h] /\ h \in DOMAIN mem
  BY <1>1, <1>6
<1>8. \A h \in ToHeads : Extent(h)' = Extent(h)
  BY <1>7 DEF Extent
<1>9. FromHeads' = ToHeads /\ ToHeads' = {}
  <2>1. \A h \in ToHeads : InArea(h, alloc_area)' /\ ~ InArea(h, alloc_area_fresh)'
    <3> SUFFICES ASSUME NEW h \in ToHeads
                 PROVE  InArea(h, alloc_area)' /\ ~ InArea(h, alloc_area_fresh)'
      OBVIOUS
    <3>1. h \in Nat /\ Extent(h) \in Nat /\ Extent(h) > 0
          /\ alloc_area_fresh < h /\ h + Extent(h) <= ToEnd
      BY HeadFacts
    <3>2. InArea(h, alloc_area)' <=>
            alloc_area_fresh < h /\ h + Extent(h) <= alloc_area_fresh + alloc_size
      BY <1>1, <1>8 DEF InArea
    <3>3. InArea(h, alloc_area_fresh)' <=>
            alloc_area < h /\ h + Extent(h) <= alloc_area + alloc_size
      BY <1>1, <1>8 DEF InArea
    <3> QED BY <3>1, <3>2, <3>3, <1>3
  <2> QED BY <1>7, <2>1 DEF FromHeads, ToHeads
<1>10. TypeOK'
  <2>1. /\ alloc_area' \in {0, alloc_size} /\ alloc_area_fresh' = alloc_size - alloc_area'
    BY <1>1, <1>3
  <2>2. \A h \in DOMAIN mem' : mem'[h] \in Object /\ mem'[h].body \in [1..mem'[h].size -> Word]
    BY <1>7 DEF IInv, TypeOK
  <2>3. DOMAIN mem' \subseteq Nat
    BY <1>7, HeadFacts
  <2> QED BY <1>1, <1>4, <2>1, <2>2, <2>3 DEF IInv, TypeOK, PC
<1>11. HeapLayout'
  <2>1. \A g, h \in DOMAIN mem' : g < h => g + Extent(g)' <= h
    BY <1>7, <1>8 DEF IInv, HeapLayout
  <2>2. \A h \in FromHeads' : alloc_ptr' <= h
    BY <1>1, <1>2, <1>9 DEF IInv, Tiles
  <2> QED BY <1>1, <1>7, <1>9, <2>1, <2>2 DEF HeapLayout
<1>12. ObjectsOK'
  BY <1>7 DEF IInv, ObjectsOK, is_allocated
<1>13. ForwardOK'
  BY <1>7, <1>9 DEF IInv, ForwardOK
<1>14. AllocOK'
  BY <1>1, <1>3, <1>5 DEF AllocOK
<1>15. CallOK'
  BY <1>1 DEF IInv, CallOK
<1>16. PointersOK'
  <2>1. \A s \in Slot : IsRoot(s)' <=> IsRoot(s)
    BY <1>1 DEF IsRoot
  <2>2. \A s \in Slot : RootDone(s) /\ ~ RootDone(s)'
    BY <1>1 DEF RootDone
  <2>3. ASSUME NEW v \in Int, NEW area, area = alloc_area_fresh, Refers(v, area)
        PROVE  Refers(v, area)'
    <3>1. CASE is_allocated(v)
      <4>1. v > 0 /\ v < alloc_size /\ area + v \in DOMAIN mem
        BY <2>3, <3>1 DEF Refers
      <4>2. area + v \in ToHeads
        BY <2>3, <4>1, <1>3, <1>6
      <4> QED BY <4>1, <4>2, <1>7 DEF Refers
    <3>2. CASE ~ is_allocated(v)
      BY <3>2 DEF Refers
    <3> QED BY <3>1, <3>2
  <2>4. ASSUME NEW s \in Slot, IsRoot(s)'
        PROVE  /\ Refers(WordIn(s, AreaOfRoot(s)), AreaOfRoot(s))'
               /\ s \in ptr_roots' => is_allocated(WordIn(s, AreaOfRoot(s)))'
    <3>1. /\ Refers(WordIn(s, alloc_area_fresh), alloc_area_fresh)
          /\ s \in ptr_roots => is_allocated(WordIn(s, alloc_area_fresh))
      BY <2>1, <2>2, <2>4 DEF IInv, PointersOK, AreaOfRoot
    <3>2. WordIn(s, alloc_area_fresh) \in Int
      <4>1. slot[s] \in Nat
        BY DEF IInv, TypeOK
      <4> QED BY <4>1, <1>3 DEF WordIn
    <3>3. \A v, area : v = WordIn(s, alloc_area_fresh) /\ area = alloc_area_fresh
                       => Refers(v, area)'
      BY <2>3, <3>1, <3>2
    <3>4. AreaOfRoot(s)' = alloc_area_fresh
      BY <2>2, <1>1 DEF AreaOfRoot
    <3>5. WordIn(s, AreaOfRoot(s))' = WordIn(s, alloc_area_fresh)
      BY <3>4, <1>1 DEF WordIn
    <3>6. Refers(WordIn(s, AreaOfRoot(s)), AreaOfRoot(s))'
      BY <3>3, <3>4, <3>5 DEF Refers
    <3> QED BY <3>1, <3>5, <3>6, <1>1 DEF is_allocated
  <2>5. call'.op = "cons" => \A s \in ArgSlot : Refers(slot[s], alloc_area)'
    <3>1. call.op = "cons" => ~ is_allocated(slot[ArgA]) /\ ~ is_allocated(slot[ArgB])
      BY <1>1 DEF IInv, CallOK
    <3> QED BY <3>1, <1>1 DEF ArgSlot, Refers
  <2>6. ASSUME NEW h \in ToHeads, mem[h].type = TYPE_PAIR, mem[h].numwords # 0,
               NEW k \in 1..mem[h].size
        PROVE  Refers(mem[h].body[k], AreaOfField(h, k))'
    <3>1. h \in Nat /\ h \in DOMAIN mem /\ newptr <= h
      BY <1>2, HeadFacts DEF IInv, Tiles
    <3>2. FieldDone(h, k)
      BY <3>1, <1>2, <1>4 DEF FieldDone
    <3>3. AreaOfField(h, k) = alloc_area_fresh
      BY <3>2, <1>2 DEF AreaOfField
    <3>4. Refers(mem[h].body[k], alloc_area_fresh)
      BY <2>6, <3>1, <3>3 DEF IInv, PointersOK
    <3>5. mem[h].body[k] \in Int
      <4>1. mem[h].body[k] \in Word
        BY <2>6, <3>1 DEF IInv, TypeOK
      <4> QED BY <4>1, SizeFacts DEF Word
    <3>6. \A v, area : v = mem[h].body[k] /\ area = alloc_area_fresh => Refers(v, area)'
      BY <2>3, <3>4, <3>5
    <3>7. AreaOfField(h, k)' = alloc_area_fresh
      BY <1>1, <1>2 DEF AreaOfField
    <3>8. mem'[h].body[k] = mem[h].body[k]
      BY <1>7
    <3> QED BY <3>6, <3>7, <3>8 DEF Refers
  <2>7. \A h \in DOMAIN mem' :
         mem'[h].type = TYPE_PAIR /\ mem'[h].numwords # 0 =>
            \A k \in 1..mem'[h].size : Refers(mem[h].body[k], AreaOfField(h, k))'
    BY <1>7, <2>6
  <2>8. \A s \in Slot : IsRoot(s)' =>
         /\ Refers(WordIn(s, AreaOfRoot(s)), AreaOfRoot(s))'
         /\ s \in ptr_roots' => is_allocated(WordIn(s, AreaOfRoot(s)))'
    BY <2>4
  <2>8a. RootsFound'
    BY <2>8 DEF RootsFound
  <2>8b. OperandsFound'
    BY <1>10, <1>15, <2>8a, RegisteredOperands, PTL
  <2> QED BY <2>5, <2>7, <2>8, <2>8b DEF PointersOK, OperandsFound
<1>17. Tiles' /\ ScanOK' /\ SpaceOK' /\ NoAssertFails'
  BY <1>1, <1>2 DEF Tiles, ScanOK, SpaceOK, NoAssertFails
<1> QED BY <1>10, <1>11, <1>12, <1>13, <1>14, <1>15, <1>16, <1>17 DEF IInv

\* Every step of the collector keeps the invariant.
LEMMA GcOK ==
    ASSUME HostContract, IInv, GcStep
    PROVE  IInv'
  BY StartGCOK, GcRootOK, GcRootsDoneOK, GcScanFieldOK, GcNextObjectOK, GcNextRoundOK,
     GcFlipOK DEF GcStep

\* A stuttering step keeps the invariant.
LEMMA StutterOK ==
    ASSUME IInv, UNCHANGED vars
    PROVE  IInv'
<1> USE DEF vars, roots, areas, gcvars
<1>1. /\ FromHeads' = FromHeads /\ ToHeads' = ToHeads /\ \A h : Extent(h)' = Extent(h)
      /\ (InGC' <=> InGC) /\ ToEnd' = ToEnd
  BY DEF FromHeads, ToHeads, InArea, Extent, InGC, ToEnd
<1>2. TypeOK' /\ NoAssertFails'
  BY DEF IInv, TypeOK, NoAssertFails
<1>3. HeapLayout'
  BY <1>1 DEF IInv, HeapLayout
<1>4. PointersOK'
  BY <1>1 DEF IInv, PointersOK, IsRoot, WordIn, AreaOfRoot, AreaOfField, FieldDone,
              RootDone, Refers, is_allocated
<1>5. ObjectsOK' /\ ForwardOK' /\ Tiles' /\ AllocOK'
  BY <1>1 DEF IInv, ObjectsOK, ForwardOK, Tiles, AllocOK, Refers
<1>6. ScanOK'
  BY <1>1 DEF IInv, ScanOK, IsRoot
<1>7. SpaceOK'
  <2>1. MovedBytes' = MovedBytes
    BY <1>1 DEF MovedBytes, Moved, Bytes
  <2> QED BY <1>1, <2>1 DEF IInv, SpaceOK
<1>8. CallOK'
  BY DEF IInv, CallOK, Fits
<1> QED BY <1>2, <1>3, <1>4, <1>5, <1>6, <1>7, <1>8 DEF IInv

\* For every area size up to 64 KiB, every stack and number of roots, every
\* number and size of objects: every step of vm_mem_gc, of the allocator, of the
\* primitives and of a host that keeps its contract preserves the invariant.
THEOREM InvariantHolds ==
    ASSUME HostContract
    PROVE  Spec => []IInv
<1>1. Init => IInv
  BY InitInv
<1>2. IInv /\ [Next]_vars => IInv'
  BY ClientOK, GcOK, PrimitiveOK, StutterOK DEF Next
<1> QED BY <1>1, <1>2, PTL DEF Spec

\* No ASSERT of vm_mem_gc, of the pointer conversions or of the object lengths
\* fails, and the collector never follows a word that is not an object's address.
THEOREM NoAssertion ==
    ASSUME HostContract
    PROVE  Spec => []NoAssertFails
<1>1. IInv => NoAssertFails
  BY DEF IInv
<1> QED BY <1>1, InvariantHolds, PTL

\* Every variable keeps its type; in particular every word a register, variable
\* or stack slot holds is a 16-bit word and every object fits its length byte.
THEOREM TypeCorrect ==
    ASSUME HostContract
    PROVE  Spec => []TypeOK
<1>1. IInv => TypeOK
  BY DEF IInv
<1> QED BY <1>1, InvariantHolds, PTL

\* Objects never overlap, lie within one area above its first word, and the
\* allocator and the collector never hand out words that are in use.
THEOREM HeapSafe ==
    ASSUME HostContract
    PROVE  Spec => []HeapLayout
<1>1. IInv => HeapLayout
  BY DEF IInv
<1> QED BY <1>1, InvariantHolds, PTL

\* Every root and every field of a live pair refers to an object, in the area
\* that the collector has got to for that word: no pointer dangles.
THEOREM NoDanglingPointer ==
    ASSUME HostContract
    PROVE  Spec => []PointersOK
<1>1. IInv => PointersOK
  BY DEF IInv
<1> QED BY <1>1, InvariantHolds, PTL

\* A collection always has room for what it copies: the copies of the objects
\* still fit above the first word of the fresh area.
THEOREM CopiesFit ==
    ASSUME HostContract
    PROVE  Spec => [](InGC => alloc_area_fresh < newptr)
<1>1. IInv => (InGC => alloc_area_fresh < newptr)
  BY NewptrFacts
<1> QED BY <1>1, InvariantHolds, PTL
=============================================================================
