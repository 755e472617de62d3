------------------------ MODULE VMMemRefinementProofs ------------------------
(***************************************************************************)
(* VMMem implements ObjectStore: the client cannot tell that there is a    *)
(* collector, for every area size, stack, number of roots and program.     *)
(***************************************************************************)
EXTENDS VMMemProofs, VMMemRefinement, Induction

(***************************************************************************)
(* The steps that copy objects.                                            *)
(***************************************************************************)
\* GC_HANDLE_SLOT of a root.
LEMMA RootStep ==
    ASSUME HostContract, IInv, GcRoot
    PROVE  \E r \in Slot, w \in Word :
             /\ r = root /\ w = RootWord(root) /\ IsRoot(r) /\ Refers(w, alloc_area)
             /\ pc = "roots" /\ InGC /\ InGC'
             /\ r \in ArgSlot => r \in ptr_roots /\ is_allocated(w)
             /\ slot' = [slot EXCEPT ![r] = NewRoot(r)]
             /\ mem' = NewMem(w) /\ newptr' = NewPtr(w)
             /\ root' \in (r + 1)..(LastSlot + 1)
             /\ \A s \in (r + 1)..(root' - 1) : ~ IsRoot(s)
             /\ UNCHANGED <<pc, ptr, fld, old_start, end, roots, areas, alloc_ptr, nextid, call>>
<1>1. pc = "roots" /\ root <= LastSlot /\ InGC
  BY DEF GcRoot, InGC
<1>2. PICK r \in Slot, w \in Word : r = root /\ w = RootWord(root)
  BY <1>1, RootWordOK
<1>3. /\ IsRoot(r) /\ Refers(w, alloc_area)
      /\ r \in ArgSlot => r \in ptr_roots /\ is_allocated(w)
  BY <1>1, <1>2, RootWordOK
<1>4. SlotOK(w)
  BY <1>1, <1>3, SlotFacts
<1>5. /\ slot' = [slot EXCEPT ![r] = NewRoot(r)]
      /\ mem' = NewMem(w) /\ newptr' = NewPtr(w)
      /\ root' \in (r + 1)..(LastSlot + 1)
      /\ \A s \in (r + 1)..(root' - 1) : ~ IsRoot(s)
      /\ UNCHANGED <<pc, ptr, fld, old_start, end, roots, areas, alloc_ptr, nextid, call>>
  BY <1>1, <1>2, <1>4 DEF GcRoot
<1>6. InGC'
  BY <1>1, <1>5 DEF InGC
<1> QED BY <1>1, <1>2, <1>3, <1>5, <1>6

\* GC_HANDLE_SLOT of the first field of a copy.
LEMMA ScanStep ==
    ASSUME HostContract, IInv, GcScanField
    PROVE  \E p \in DOMAIN mem, w \in Word :
             /\ p = ptr /\ p \in ToHeads /\ w = mem[p].body[1] /\ Refers(w, alloc_area)
             /\ mem[p].type = TYPE_PAIR /\ mem[p].size = 2 /\ mem[p].numwords = 2
             /\ pc = "scan" /\ ptr < end /\ fld = 1 /\ InGC /\ InGC'
             /\ mem' = [NewMem(w) EXCEPT ![p].body = [@ EXCEPT ![1] = NewWord(w)]]
             /\ newptr' = NewPtr(w) /\ fld' = 2
             /\ UNCHANGED <<slot, pc, root, ptr, old_start, end, roots, areas, alloc_ptr, nextid, call>>
<1>1. pc = "scan" /\ ptr < end /\ fld \in ToScan /\ InGC
  BY DEF GcScanField, InGC
<1>2. PICK p \in DOMAIN mem, w \in Word : p = ptr /\ w = mem[ptr].body[1]
  BY <1>1, FieldWordOK
<1>3. /\ p \in ToHeads /\ fld = 1 /\ mem[p].type = TYPE_PAIR
      /\ mem[p].size = 2 /\ mem[p].numwords = 2 /\ Refers(w, alloc_area)
  BY <1>1, <1>2, FieldWordOK
<1>4. SlotOK(w)
  BY <1>1, <1>3, SlotFacts
<1>5. /\ mem' = [NewMem(w) EXCEPT ![p].body = [@ EXCEPT ![1] = NewWord(w)]]
      /\ newptr' = NewPtr(w) /\ fld' = 2
      /\ UNCHANGED <<slot, pc, root, ptr, old_start, end, roots, areas, alloc_ptr, nextid, call>>
  BY <1>1, <1>2, <1>3, <1>4 DEF GcScanField
<1>6. InGC'
  BY <1>1, <1>5 DEF InGC
<1> QED BY <1>1, <1>2, <1>3, <1>5, <1>6

\* The memory after the word w has been handled: as NewMem has it, but for the
\* bodies of copies.
Handled(w) ==
    /\ InGC /\ InGC' /\ Refers(w, alloc_area) /\ w \in Word
    /\ DOMAIN mem' = DOMAIN NewMem(w)
    /\ \A h \in DOMAIN mem' : /\ mem'[h].type = NewMem(w)[h].type
                              /\ mem'[h].size = NewMem(w)[h].size
                              /\ mem'[h].numwords = NewMem(w)[h].numwords
                              /\ mem'[h].id = NewMem(w)[h].id
    /\ \A h \in FromHeads : mem'[h].body = NewMem(w)[h].body
    /\ newptr' = NewPtr(w)
    /\ UNCHANGED <<areas, alloc_ptr, nextid, call>>

LEMMA RootHandled ==
    ASSUME HostContract, IInv, GcRoot
    PROVE  Handled(RootWord(root))
<1>1. PICK r \in Slot, w \in Word :
             /\ w = RootWord(root) /\ Refers(w, alloc_area)
             /\ InGC /\ InGC' /\ mem' = NewMem(w) /\ newptr' = NewPtr(w)
             /\ UNCHANGED <<areas, alloc_ptr, nextid, call>>
  BY RootStep
<1>2. Handled(w)
  BY <1>1 DEF Handled
<1> QED BY <1>1, <1>2

\* What becomes of the object that is scanned.
LEMMA ScannedObject ==
    ASSUME HostContract, IInv, GcScanField
    PROVE  LET w == mem[ptr].body[1] IN
           /\ ptr \in DOMAIN NewMem(w) /\ NewMem(w)[ptr] = mem[ptr] /\ ptr \notin FromHeads
           /\ DOMAIN mem' = DOMAIN NewMem(w)
           /\ \A h \in DOMAIN mem' : h # ptr => mem'[h] = NewMem(w)[h]
           /\ mem'[ptr].type = TYPE_PAIR /\ mem'[ptr].size = 2 /\ mem'[ptr].numwords = 2
           /\ mem'[ptr].id = mem[ptr].id
           /\ mem[ptr].body \in [1..2 -> Word]
           /\ mem'[ptr].body = [mem[ptr].body EXCEPT ![1] = NewWord(w)]
<1>1. PICK p \in DOMAIN mem, w \in Word :
             /\ p = ptr /\ p \in ToHeads /\ w = mem[p].body[1] /\ Refers(w, alloc_area)
             /\ mem[p].type = TYPE_PAIR /\ mem[p].size = 2 /\ mem[p].numwords = 2
             /\ InGC
             /\ mem' = [NewMem(w) EXCEPT ![p].body = [@ EXCEPT ![1] = NewWord(w)]]
  BY ScanStep
<1>2. p \in DOMAIN NewMem(w) /\ NewMem(w)[p] = mem[p] /\ p \notin FromHeads
  <2>1. p \notin FromHeads
    BY <1>1, HeadFacts
  <2>2. /\ DOMAIN mem \subseteq DOMAIN NewMem(w)
        /\ \A h \in DOMAIN NewMem(w) :
             \/ h \in DOMAIN mem /\ NewMem(w)[h] = mem[h]
             \/ NewMem(w)[h].numwords = 0 /\ h \in FromHeads
             \/ h \notin DOMAIN mem
    BY <1>1, NewMemTyped
  <2> QED BY <1>1, <2>1, <2>2
<1>3. DOMAIN mem' = DOMAIN NewMem(w) /\ \A h \in DOMAIN mem' : h # p => mem'[h] = NewMem(w)[h]
  BY <1>1
<1>4. mem[p].body \in [1..2 -> Word] /\ mem[p] \in Object
  BY <1>1 DEF IInv, TypeOK
<1>5. PICK b : b = [mem[p].body EXCEPT ![1] = NewWord(w)]
  OBVIOUS
<1>6. mem'[p] = [mem[p] EXCEPT !.body = b]
  BY <1>1, <1>2, <1>5
<1>7. /\ mem'[p].body = b /\ mem'[p].type = mem[p].type /\ mem'[p].id = mem[p].id
      /\ mem'[p].size = mem[p].size /\ mem'[p].numwords = mem[p].numwords
  BY ONLY <1>4, <1>6 DEF Object
<1> QED BY <1>1, <1>2, <1>3, <1>4, <1>5, <1>7

LEMMA FieldHandled ==
    ASSUME HostContract, IInv, GcScanField
    PROVE  Handled(mem[ptr].body[1])
<1>1. PICK p \in DOMAIN mem, w \in Word :
             /\ p = ptr /\ p \in ToHeads /\ w = mem[p].body[1] /\ Refers(w, alloc_area)
             /\ mem[p].type = TYPE_PAIR /\ mem[p].size = 2 /\ mem[p].numwords = 2
             /\ InGC /\ InGC' /\ newptr' = NewPtr(w)
             /\ UNCHANGED <<areas, alloc_ptr, nextid, call>>
  BY ScanStep
<1>2. /\ p \in DOMAIN NewMem(w) /\ NewMem(w)[p] = mem[p] /\ p \notin FromHeads
      /\ DOMAIN mem' = DOMAIN NewMem(w)
      /\ \A h \in DOMAIN mem' : h # p => mem'[h] = NewMem(w)[h]
      /\ mem'[p].type = TYPE_PAIR /\ mem'[p].size = 2 /\ mem'[p].numwords = 2
      /\ mem'[p].id = mem[p].id
  BY <1>1, ScannedObject
<1>3. FromHeads \subseteq DOMAIN mem'
  <2>1. DOMAIN mem \subseteq DOMAIN NewMem(w)
    BY <1>1, NewMemTyped
  <2> QED BY <1>2, <2>1 DEF FromHeads
<1>4. Handled(w)
  BY <1>1, <1>2, <1>3 DEF Handled
<1> QED BY <1>1, <1>4

\* Where the objects are then, and what they still have of before.
LEMMA HandledHeap ==
    ASSUME HostContract, IInv, NEW w, Handled(w)
    PROVE  /\ FromHeads' = FromHeads
           /\ ToHeads' = ToHeads \cup (IF Moves(w) THEN {NewHead(w)} ELSE {})
           /\ DOMAIN mem' = DOMAIN mem \cup (IF Moves(w) THEN {NewHead(w)} ELSE {})
           /\ \A h \in DOMAIN mem : /\ mem'[h].type = mem[h].type /\ mem'[h].size = mem[h].size
                                    /\ mem'[h].id = mem[h].id
           /\ \A h \in DOMAIN mem : ~ Moves(w) \/ h # Old(w) => mem'[h].numwords = mem[h].numwords
           /\ \A h \in FromHeads : ~ Moves(w) \/ h # Old(w) => mem'[h].body[1] = mem[h].body[1]
           /\ is_allocated(w) => Old(w) \in FromHeads
           /\ Moves(w) => /\ NewHead(w) \notin DOMAIN mem
                          /\ mem'[NewHead(w)].id = mem[Old(w)].id
                          /\ mem'[NewHead(w)].type = mem[Old(w)].type
                          /\ mem'[NewHead(w)].size = mem[Old(w)].size
                          /\ mem[Old(w)].numwords # 0 /\ mem'[Old(w)].numwords = 0
                          /\ is_allocated(w)
                          /\ alloc_area_fresh + NewWord(w) = NewHead(w)
                          /\ mem'[Old(w)].body[1] = NewWord(w)
           /\ is_allocated(w) /\ ~ Moves(w) => /\ mem[Old(w)].numwords = 0
                                               /\ NewWord(w) = mem[Old(w)].body[1]
<1> USE DEF areas
<1>1. InGC /\ InGC' /\ Refers(w, alloc_area) /\ w \in Word /\ alloc_area' = alloc_area
      /\ alloc_area_fresh' = alloc_area_fresh
  BY DEF Handled
<1>2. is_allocated(w) => Old(w) \in FromHeads
  <2>1. w \in Nat
    BY <1>1, SizeFacts DEF Word
  <2> QED BY <1>1, <2>1, OldObject
<1>3. \A h \in FromHeads : h \in DOMAIN mem
  BY DEF FromHeads
<1>4. CASE ~ Moves(w)
  <2>1. NewMem(w) = mem
    BY <1>1, <1>4, NewMemTyped
  <2>2. /\ DOMAIN mem' = DOMAIN mem
        /\ \A h \in DOMAIN mem : /\ mem'[h].type = mem[h].type /\ mem'[h].size = mem[h].size
                                 /\ mem'[h].id = mem[h].id /\ mem'[h].numwords = mem[h].numwords
        /\ \A h \in FromHeads : mem'[h].body = mem[h].body
    BY <2>1 DEF Handled
  <2>3. FromHeads' = FromHeads /\ ToHeads' = ToHeads
    BY <1>1, <2>2 DEF FromHeads, ToHeads, InArea, Extent
  <2>4. is_allocated(w) => mem[Old(w)].numwords = 0 /\ NewWord(w) = mem[Old(w)].body[1]
    BY <1>4 DEF Moves, NewWord
  <2> QED BY <1>2, <1>4, <2>2, <2>3, <2>4
<1>5. CASE Moves(w)
  <2>0. PICK n, o : n = NewHead(w) /\ o = Old(w)
    OBVIOUS
  <2>1. is_allocated(w) /\ mem[o].numwords # 0
    BY <1>5, <2>0 DEF Moves
  <2>2. /\ o \in FromHeads /\ n \notin DOMAIN mem
        /\ DOMAIN NewMem(w) = DOMAIN mem \cup {n}
        /\ NewMem(w)[n] = mem[o]
        /\ NewMem(w)[o] = [mem[o] EXCEPT !.numwords = 0, !.body = [mem[o].body EXCEPT ![1] = NewWord(w)]]
        /\ \A h \in DOMAIN mem : h # o => NewMem(w)[h] = mem[h]
    BY <1>1, <1>5, <2>0, NewMemFacts
  <2>3. mem[o] \in Object /\ mem[o].body \in [1..mem[o].size -> Word] /\ mem[o].size \in 1..255
    BY SMTT(30), <1>3, <2>2 DEF IInv, TypeOK, Object
  <2>4. [mem[o].body EXCEPT ![1] = NewWord(w)][1] = NewWord(w)
    <3>1. PICK m, f : m \in 1..255 /\ m = mem[o].size /\ f = mem[o].body
      BY <2>3
    <3>2. f \in [1..m -> Word]
      BY <2>3, <3>1
    <3>3. 1 \in 1..m
      BY <3>1
    <3> QED BY <3>1, <3>2, <3>3
  <2>5. PICK b : b = [mem[o].body EXCEPT ![1] = NewWord(w)]
    OBVIOUS
  <2>6. /\ NewMem(w)[o].numwords = 0 /\ NewMem(w)[o].body = b
        /\ NewMem(w)[o].type = mem[o].type /\ NewMem(w)[o].size = mem[o].size
        /\ NewMem(w)[o].id = mem[o].id
    <3>1. NewMem(w)[o] = [mem[o] EXCEPT !.numwords = 0, !.body = b]
      BY <2>2, <2>5
    <3> QED BY ONLY <2>3, <3>1 DEF Object
  <2>7. /\ DOMAIN mem' = DOMAIN mem \cup {n} /\ o \in DOMAIN mem
        /\ mem'[n].type = mem[o].type /\ mem'[n].size = mem[o].size /\ mem'[n].id = mem[o].id
        /\ mem'[o].type = mem[o].type /\ mem'[o].size = mem[o].size /\ mem'[o].id = mem[o].id
        /\ mem'[o].numwords = 0 /\ mem'[o].body = b
    BY ZenonT(60), <1>3, <2>2, <2>6 DEF Handled
  <2>8. /\ \A h \in DOMAIN mem : /\ mem'[h].type = mem[h].type /\ mem'[h].size = mem[h].size
                                 /\ mem'[h].id = mem[h].id
                                 /\ h # o => mem'[h].numwords = mem[h].numwords
        /\ \A h \in FromHeads : h # o => mem'[h].body = mem[h].body
    BY <1>3, <2>2, <2>7 DEF Handled
  <2>9. /\ n + Extent(o) = newptr /\ alloc_area_fresh < n /\ n \in Nat
        /\ newptr <= ToEnd /\ newptr \in Nat
    <3>1. w \in Nat
      BY <1>1, SizeFacts DEF Word
    <3> QED BY <1>1, <1>5, <2>0, <2>1, <3>1, CopyFits, NewptrFacts
  <2>10. alloc_area_fresh + NewWord(w) = n
    BY <1>1, <1>5, <2>0, <2>1, SlotFacts
  <2>11. \A h \in DOMAIN mem : Extent(h)' = Extent(h)
    BY <2>8 DEF Extent
  <2>12. Extent(n)' = Extent(o)
    BY <2>7 DEF Extent
  <2>13. InArea(n, alloc_area_fresh)' /\ ~ InArea(n, alloc_area)'
    <3>1. InArea(n, alloc_area_fresh)'
      BY <1>1, <2>9, <2>12 DEF InArea, ToEnd
    <3>2. ~ InArea(n, alloc_area)'
      <4>1. Extent(o) \in Nat /\ Extent(o) > 0
        BY <2>7, HeadFacts
      <4>2. n <= ToEnd
        BY <2>9, <4>1, AreaFacts DEF IInv
      <4>3. \/ alloc_area = 0 /\ alloc_area_fresh = alloc_size
            \/ alloc_area = alloc_size /\ alloc_area_fresh = 0
        BY AreaFacts DEF IInv
      <4>4. PICK e \in Nat, l \in Nat : e = Extent(o) /\ l = alloc_size
        BY <4>1, SizeFacts
      <4>5. n + e <= alloc_area_fresh + l /\ alloc_area_fresh < n /\ e > 0
        BY <2>9, <4>1, <4>4 DEF ToEnd
      <4>6. ~ (alloc_area < n /\ n + e <= alloc_area + l)
        BY <2>9, <4>3, <4>4, <4>5
      <4> QED BY <1>1, <2>12, <4>4, <4>6 DEF InArea
    <3> QED BY <3>1, <3>2
  <2>14. FromHeads' = FromHeads /\ ToHeads' = ToHeads \cup {n}
    <3>1. \A h \in DOMAIN mem : /\ InArea(h, alloc_area)' <=> InArea(h, alloc_area)
                                /\ InArea(h, alloc_area_fresh)' <=> InArea(h, alloc_area_fresh)
      BY <1>1, <2>11 DEF InArea
    <3> QED BY <2>7, <2>13, <3>1 DEF FromHeads, ToHeads
  <2> QED BY ZenonT(60), <1>5, <2>1, <2>2, <2>4, <2>5, <2>7, <2>8, <2>10, <2>14, <2>0
<1> QED BY <1>4, <1>5

\* The word that a slot or field gets leads to the copy of the object it led to.
LEMMA HandledWord ==
    ASSUME HostContract, IInv, IdsOK, NEW w, Handled(w), is_allocated(w)
    PROVE  /\ alloc_area_fresh + NewWord(w) \in ToHeads'
           /\ mem'[alloc_area_fresh + NewWord(w)].id = mem[Old(w)].id
<1>1. CASE Moves(w)
  BY <1>1, HandledHeap
<1>2. CASE ~ Moves(w)
  <2>1. /\ Old(w) \in FromHeads /\ mem[Old(w)].numwords = 0 /\ NewWord(w) = mem[Old(w)].body[1]
        /\ ToHeads' = ToHeads /\ \A h \in DOMAIN mem : mem'[h].id = mem[h].id
    BY <1>2, HandledHeap
  <2>2. /\ alloc_area_fresh + NewWord(w) \in ToHeads
        /\ mem[alloc_area_fresh + NewWord(w)].id = mem[Old(w)].id
    BY <2>1 DEF IdsOK
  <2> QED BY <2>1, <2>2 DEF ToHeads
<1> QED BY <1>1, <1>2

\* An object is copied once only.
LEMMA HandledIds ==
    ASSUME HostContract, IInv, IdsOK, NEW w, Handled(w)
    PROVE  IdsOK'
<1> DEFINE New == IF Moves(w) THEN {NewHead(w)} ELSE {}
<1>1. /\ FromHeads' = FromHeads /\ ToHeads' = ToHeads \cup New
      /\ DOMAIN mem' = DOMAIN mem \cup New
      /\ \A h \in DOMAIN mem : mem'[h].id = mem[h].id
      /\ nextid' = nextid /\ alloc_area_fresh' = alloc_area_fresh
      /\ FromHeads \subseteq DOMAIN mem /\ ToHeads \subseteq DOMAIN mem
  BY HandledHeap DEF Handled, areas, FromHeads, ToHeads
<1>2. ASSUME Moves(w)
      PROVE  /\ Old(w) \in FromHeads /\ mem[Old(w)].numwords # 0
             /\ mem'[NewHead(w)].id = mem[Old(w)].id /\ mem'[Old(w)].numwords = 0
             /\ alloc_area_fresh + mem'[Old(w)].body[1] = NewHead(w)
  BY <1>2, HandledHeap
<1>3. \A h \in DOMAIN mem' : mem'[h].id < nextid'
  BY <1>1, <1>2 DEF IdsOK
<1>4. \A g, h \in FromHeads' : mem'[g].id = mem'[h].id => g = h
  BY <1>1 DEF IdsOK
\* The object that moves now has not been copied before.
<1>5. ASSUME Moves(w), NEW g \in ToHeads PROVE mem[g].id # mem[Old(w)].id
  BY <1>2, <1>5 DEF IdsOK
<1>6. \A g, h \in ToHeads' : mem'[g].id = mem'[h].id => g = h
  BY <1>1, <1>2, <1>5 DEF IdsOK
<1>7. ASSUME NEW h \in FromHeads, mem'[h].numwords = 0
      PROVE  /\ alloc_area_fresh + mem'[h].body[1] \in ToHeads'
             /\ mem'[alloc_area_fresh + mem'[h].body[1]].id = mem'[h].id
  <2>1. CASE Moves(w) /\ h = Old(w)
    BY <1>1, <1>2, <2>1
  <2>2. CASE ~ (Moves(w) /\ h = Old(w))
    <3>1. mem'[h].body[1] = mem[h].body[1] /\ mem[h].numwords = 0
      BY <1>1, <1>7, <2>2, HandledHeap
    <3> QED BY <1>1, <3>1 DEF IdsOK
  <2> QED BY <2>1, <2>2
<1>8. ASSUME NEW g \in ToHeads'
      PROVE  \E h \in FromHeads : mem'[h].numwords = 0 /\ mem'[h].id = mem'[g].id
  <2>1. CASE g \in ToHeads
    <3>1. PICK h \in FromHeads : mem[h].numwords = 0 /\ mem[h].id = mem[g].id
      BY <2>1 DEF IdsOK
    <3>2. mem'[h].numwords = 0
      BY <1>1, <1>2, <3>1, HandledHeap
    <3> QED BY <1>1, <2>1, <3>1, <3>2
  <2>2. CASE g \notin ToHeads
    BY <1>1, <1>2, <2>2
  <2> QED BY <2>1, <2>2
<1> HIDE DEF New
<1> QED BY <1>1, <1>3, <1>4, <1>6, <1>7, <1>8 DEF IdsOK

-----------------------------------------------------------------------------
(***************************************************************************)
(* CopiesOK is inductive.                                                  *)
(***************************************************************************)
\* Outside a collection every object is in the current area, and whole.
LEMMA QuietHeap ==
    ASSUME HostContract, IInv, ~ InGC
    PROVE  /\ FromHeads = DOMAIN mem /\ ToHeads = {}
           /\ \A h \in DOMAIN mem : mem[h].numwords = mem[h].size /\ mem[h].numwords # 0
<1>1. FromHeads = DOMAIN mem /\ ToHeads = {}
  BY DEF IInv, HeapLayout
<1> QED BY <1>1, LiveObjects, HeadFacts

LEMMA HeapKept ==
    ASSUME IdsOK, UNCHANGED <<mem, areas, nextid>>
    PROVE  IdsOK' /\ FromHeads' = FromHeads /\ ToHeads' = ToHeads
<1>1. FromHeads' = FromHeads /\ ToHeads' = ToHeads
  BY DEF FromHeads, ToHeads, InArea, Extent, areas
<1> QED BY <1>1 DEF IdsOK, areas

\* A primitive returns an object.
LEMMA ReturnCopies ==
    ASSUME HostContract, IInv, CopiesOK, pc = "fill", NEW t, NEW m \in Nat, NEW b, m # 0,
           t = TYPE_PAIR \/ (t = TYPE_BIGNUM /\ m <= MaxWords), ReturnObject(t, m, b), IInv'
    PROVE  CopiesOK'
<1> USE DEF areas
<1>1. /\ DOMAIN mem' = DOMAIN mem \cup {alloc_ptr}
      /\ mem'[alloc_ptr] = [type |-> t, numwords |-> m, size |-> m, body |-> b, id |-> nextid]
      /\ \A h \in DOMAIN mem : h # alloc_ptr => mem'[h] = mem[h]
      /\ nextid' = nextid + 1 /\ pc' = "run" /\ call' = NoCall
  BY DEF ReturnObject, Return
<1>2. nextid \in Nat
  BY DEF IInv, TypeOK
<1>3. ~ InGC /\ ~ InGC' /\ pc' # "slow"
  BY <1>1 DEF InGC
<1>4. FromHeads = DOMAIN mem
  BY <1>3, QuietHeap
<1>5. /\ FromHeads' = DOMAIN mem' /\ ToHeads' = {}
      /\ \A h \in DOMAIN mem' : mem'[h].numwords # 0
  <2>1. FromHeads' = DOMAIN mem' /\ ToHeads' = {}
    BY <1>3 DEF IInv, HeapLayout
  <2>2. ASSUME NEW h \in DOMAIN mem' PROVE mem'[h].numwords # 0
    <3>1. CASE h = alloc_ptr
      BY <1>1, <3>1, SizeFacts
    <3>2. CASE h # alloc_ptr
      BY <1>1, <1>3, <3>2, QuietHeap
    <3> QED BY <3>1, <3>2
  <2> QED BY <2>1, <2>2
<1>6. \A h \in DOMAIN mem' : IF h = alloc_ptr THEN mem'[h].id = nextid
                             ELSE h \in DOMAIN mem /\ mem'[h].id = mem[h].id /\ mem[h].id < nextid
                                  /\ mem[h].id \in Nat
  <2>1. \A h \in DOMAIN mem : mem[h].id < nextid /\ mem[h].id \in Nat
    BY DEF CopiesOK, IdsOK, IInv, TypeOK, Object
  <2>2. mem'[alloc_ptr].id = nextid
    BY <1>1
  <2> QED BY <1>1, <2>1, <2>2
<1>7. \A g, h \in DOMAIN mem' : mem'[g].id = mem'[h].id => g = h
  BY <1>2, <1>4, <1>6 DEF CopiesOK, IdsOK, FromHeads
<1>8. \A h \in DOMAIN mem' : mem'[h].id < nextid'
  BY <1>1, <1>2, <1>6
<1>9. IdsOK'
  BY <1>5, <1>7, <1>8 DEF IdsOK
<1>10. LengthsOK'
  <2>1. \A h \in DOMAIN mem' : mem'[h].type = TYPE_BIGNUM => mem'[h].size <= MaxWords
    BY <1>1 DEF CopiesOK, LengthsOK, TYPE_PAIR, TYPE_BIGNUM
  <2> QED BY <1>1, <2>1 DEF LengthsOK, NoCall
<1> QED BY <1>3, <1>9, <1>10 DEF CopiesOK, CompactOK

\* Steps that neither create nor copy nor drop an object.
LEMMA KeepCopies ==
    ASSUME CopiesOK, UNCHANGED <<mem, areas, nextid>>, call' = call \/ call' = NoCall,
           pc' # "slow"
    PROVE  CopiesOK'
<1>1. IdsOK'
  BY HeapKept DEF CopiesOK
<1>2. LengthsOK'
  BY DEF CopiesOK, LengthsOK, NoCall
<1> QED BY <1>1, <1>2 DEF CopiesOK, CompactOK

LEMMA ClientCopies ==
    ASSUME HostContract, IInv, CopiesOK, ClientStep
    PROVE  CopiesOK'
<1> USE DEF heapvars, areas, gcvars
<1>1. pc = "run" /\ UNCHANGED <<mem, areas, nextid>> /\ pc' # "slow"
  BY DEF ClientStep, Assign, ReadField, Push, PushFull, Pop, PopEmpty, Register, OutOfValRoots,
         Unregister, NoValRootsLeft, Cons, NewBignum, Add, AddNotInteger, Die
<1>2. CASE call' = call
  BY <1>1, <1>2, KeepCopies
<1>3. ASSUME NEW v \in ClientWords, NEW w \in ClientWords, NEW r \in ClientRegs, Cons(v, w, r)
      PROVE  CopiesOK'
  <2>1. LengthsOK'
    BY <1>1, <1>3 DEF Cons, CopiesOK, LengthsOK
  <2> QED BY <1>1, <2>1, HeapKept DEF CopiesOK, CompactOK
<1>4. ASSUME NEW m \in 1..2, NEW r \in ClientRegs, NewBignum(m, r) PROVE CopiesOK'
  <2>1. LengthsOK'
    BY <1>1, <1>4 DEF NewBignum, CopiesOK, LengthsOK
  <2> QED BY <1>1, <2>1, HeapKept DEF CopiesOK, CompactOK
<1>5. ASSUME NEW v \in ClientWords, NEW w \in ClientWords, NEW r \in ClientRegs, Add(v, w, r)
      PROVE  CopiesOK'
  <2>1. ASSUME NEW u \in ClientWords, IsInteger(u) PROVE NumWords(u) \in 1..MaxWords
    <3>1. CASE is_fixnum(u)
      BY <3>1, SizeFacts DEF NumWords
    <3>2. CASE ~ is_fixnum(u)
      <4>1. PICK h \in DOMAIN mem : h = alloc_area + u /\ mem[h].type = TYPE_BIGNUM
        BY <2>1, <3>2 DEF IsInteger, IsBignum, HasObject, ObjectOf
      <4>2. NumWords(u) = mem[h].numwords
        BY <3>2, <4>1 DEF NumWords, ObjectOf
      <4>3. mem[h].numwords = mem[h].size /\ mem[h].size \in 1..(GcLenLimit - 1)
            /\ mem[h].size <= MaxWords
        BY <1>1, <4>1, QuietHeap, HeadFacts DEF InGC, CopiesOK, LengthsOK
      <4> QED BY <4>2, <4>3, SizeFacts
    <3> QED BY <3>1, <3>2
  <2>2. Longer(v, w) \in 1..MaxWords
    BY <1>5, <2>1 DEF Add, Longer
  <2>3. PICK n \in 1..MaxWords : n = Longer(v, w)
    BY <2>2
  <2>4. (n + 2) % 256 = n + 2
    BY SizeFacts
  <2>5. LengthsOK'
    BY <1>1, <1>5, <2>3, <2>4 DEF Add, CopiesOK, LengthsOK
  <2> QED BY <1>1, <2>5, HeapKept DEF CopiesOK, CompactOK
<1>6. \/ call' = call
      \/ \E v, w \in ClientWords, r \in ClientRegs : Cons(v, w, r) \/ Add(v, w, r)
      \/ \E m \in 1..2, r \in ClientRegs : NewBignum(m, r)
  BY DEF ClientStep, Assign, ReadField, Push, PushFull, Pop, PopEmpty, Register, OutOfValRoots,
         Unregister, NoValRootsLeft, AddNotInteger, Die
<1> QED BY <1>2, <1>3, <1>4, <1>5, <1>6

LEMMA PrimitiveCopies ==
    ASSUME HostContract, IInv, IInv', CopiesOK, PrimitiveStep
    PROVE  CopiesOK'
<1> USE DEF heapvars, areas, gcvars
<1>1. CASE AllocFast \/ AllocSlow \/ OutOfMemory \/ \E v \in Immediates : FillAddFixnum(v)
  BY <1>1, KeepCopies DEF AllocFast, AllocSlow, OutOfMemory, Die, FillAddFixnum, Return
<1>2. CASE FillCons
  <2>1. PICK t, m, b : /\ t = TYPE_PAIR /\ m = 2 /\ m \in Nat
                       /\ b = [k \in 1..2 |-> IF k = 1 THEN slot[ArgA] ELSE slot[ArgB]]
    OBVIOUS
  <2>2. pc = "fill" /\ ReturnObject(t, m, b)
    BY <1>2, <2>1 DEF FillCons
  <2>3. m # 0 /\ t = TYPE_PAIR /\ m \in Nat
    BY <2>1
  <2> QED BY <2>2, <2>3, ReturnCopies
<1>3. ASSUME NEW b \in BodyWords, FillBignum(b) PROVE CopiesOK'
  <2>1. PICK m, d : m \in 1..MaxWords /\ m = call.len /\ d = [k \in 1..call.len |-> b]
    BY <1>3 DEF FillBignum, IInv, CallOK
  <2>2. m \in Nat /\ m # 0 /\ m <= MaxWords
    BY <2>1, SizeFacts
  <2> QED BY <1>3, <2>1, <2>2, ReturnCopies DEF FillBignum
<1>4. ASSUME NEW m \in 1..MaxWords, NEW b \in BodyWords, FillAdd(m, b) PROVE CopiesOK'
  <2>1. m \in Nat /\ m # 0 /\ m <= MaxWords
    BY SizeFacts
  <2> QED BY <1>4, <2>1, ReturnCopies DEF FillAdd
<1> QED BY <1>1, <1>2, <1>3, <1>4 DEF PrimitiveStep

\* After the flip the current area holds the copies.
LEMMA FlippedHeap ==
    ASSUME HostContract, IInv, GcFlip
    PROVE  /\ DOMAIN mem' = ToHeads /\ \A h \in ToHeads : mem'[h] = mem[h]
           /\ FromHeads' = ToHeads /\ ToHeads' = {}
           /\ InGC /\ pc' = "slow" /\ alloc_area' = alloc_area_fresh
           /\ \A h \in ToHeads : Extent(h)' = Extent(h)
<1>1. /\ pc = "scan" /\ pc' = "slow"
      /\ alloc_area' = alloc_area_fresh /\ alloc_area_fresh' = alloc_area
      /\ mem' = [h \in {g \in DOMAIN mem : /\ alloc_area_fresh <= g
                                           /\ g < alloc_area_fresh + alloc_size} |-> mem[h]]
  BY DEF GcFlip
<1>2. \A h \in ToHeads : alloc_area_fresh <= h /\ h < alloc_area_fresh + alloc_size
  BY HeadFacts, AreaFacts DEF IInv, ToEnd, ToHeads
<1>3. \A h \in FromHeads : ~ (alloc_area_fresh <= h /\ h < alloc_area_fresh + alloc_size)
  <2>1. ASSUME NEW h \in FromHeads
        PROVE ~ (alloc_area_fresh <= h /\ h < alloc_area_fresh + alloc_size)
    <3>1. h \in Nat /\ alloc_area < h /\ h < alloc_area + alloc_size
      BY HeadFacts, AreaFacts DEF IInv, FromHeads
    <3>2. \/ alloc_area = 0 /\ alloc_area_fresh = alloc_size
          \/ alloc_area = alloc_size /\ alloc_area_fresh = 0
      BY AreaFacts DEF IInv
    <3> QED BY <3>1, <3>2, SizeFacts
  <2> QED BY <2>1
<1>4. DOMAIN mem' = ToHeads
  BY <1>1, <1>2, <1>3, HeadFacts DEF ToHeads
<1>5. \A h \in ToHeads : mem'[h] = mem[h] /\ Extent(h)' = Extent(h)
  BY <1>1, <1>4 DEF Extent
<1>6. FromHeads' = ToHeads
  BY <1>1, <1>4, <1>5 DEF FromHeads, ToHeads, InArea
<1>7. ToHeads' = {}
  <2>1. \A h \in ToHeads : ~ InArea(h, alloc_area)
    BY HeadFacts DEF FromHeads, ToHeads
  <2> QED BY <1>1, <1>4, <1>5, <2>1 DEF ToHeads, InArea
<1> QED BY <1>1, <1>4, <1>5, <1>6, <1>7 DEF InGC

LEMMA FlipCopies ==
    ASSUME HostContract, IInv, CopiesOK, GcFlip
    PROVE  CopiesOK'
<1>1. /\ DOMAIN mem' = ToHeads /\ \A h \in ToHeads : mem'[h] = mem[h]
      /\ FromHeads' = ToHeads /\ ToHeads' = {}
      /\ InGC /\ alloc_area' = alloc_area_fresh
      /\ \A h \in ToHeads : Extent(h)' = Extent(h) /\ h \in DOMAIN mem
  BY FlippedHeap DEF ToHeads
<1>2. nextid' = nextid /\ call' = call /\ alloc_ptr' = newptr
  BY DEF GcFlip
<1>3. \A h \in ToHeads : mem[h].numwords # 0
  <2>1. \A h \in ToHeads : mem[h].numwords = mem[h].size
    BY DEF IInv, ForwardOK
  <2> QED BY <1>1, <2>1, HeadFacts
<1>4. IdsOK'
  BY <1>1, <1>2, <1>3 DEF CopiesOK, IdsOK
<1>5. LengthsOK'
  BY <1>1, <1>2 DEF CopiesOK, LengthsOK
<1>6. CompactOK'
  BY <1>1, <1>2 DEF IInv, Tiles, CompactOK, ToEnd
<1> QED BY <1>4, <1>5, <1>6 DEF CopiesOK

LEMMA GcCopies ==
    ASSUME HostContract, IInv, CopiesOK, GcStep
    PROVE  CopiesOK'
<1> USE DEF areas
<1>1. CASE StartGC \/ GcRootsDone \/ GcNextRound \/ GcNextObject
  BY <1>1, KeepCopies DEF StartGC, GcRootsDone, GcNextRound, GcNextObject, FailAssert
<1>2. ASSUME NEW w, Handled(w) PROVE CopiesOK'
  <2>1. IdsOK'
    BY <1>2, HandledIds DEF CopiesOK
  <2>2. ASSUME NEW h \in DOMAIN mem', mem'[h].type = TYPE_BIGNUM PROVE mem'[h].size <= MaxWords
    <3>1. CASE h \in DOMAIN mem
      BY <1>2, <2>2, <3>1, HandledHeap DEF CopiesOK, LengthsOK
    <3>2. CASE h \notin DOMAIN mem
      <4>1. Moves(w) /\ h = NewHead(w)
        <5>1. DOMAIN mem' = DOMAIN mem \cup (IF Moves(w) THEN {NewHead(w)} ELSE {})
          BY <1>2, HandledHeap
        <5> QED BY <3>2, <5>1
      <4>2. Old(w) \in DOMAIN mem /\ mem'[h].size = mem[Old(w)].size /\ mem'[h].type = mem[Old(w)].type
        BY <1>2, <4>1, HandledHeap DEF FromHeads
      <4> QED BY <2>2, <4>2 DEF CopiesOK, LengthsOK
    <3> QED BY <3>1, <3>2
  <2>3. LengthsOK' /\ CompactOK'
    BY <1>2, <2>2 DEF CopiesOK, LengthsOK, CompactOK, Handled, InGC
  <2> QED BY <2>1, <2>3 DEF CopiesOK
<1>3. CASE GcRoot
  BY <1>2, <1>3, RootHandled
<1>4. CASE GcScanField
  BY <1>2, <1>4, FieldHandled
<1> QED BY <1>1, <1>3, <1>4, FlipCopies DEF GcStep

LEMMA CopiesStep ==
    ASSUME HostContract, IInv, CopiesOK, [Next]_vars
    PROVE  IInv' /\ CopiesOK'
<1>1. IInv'
  BY ClientOK, GcOK, PrimitiveOK, StutterOK DEF Next
<1>2. CASE UNCHANGED vars
  <2>1. /\ UNCHANGED <<mem, areas, nextid>> /\ alloc_area' = alloc_area /\ alloc_ptr' = alloc_ptr
        /\ mem' = mem /\ call' = call /\ pc' = pc
    BY <1>2 DEF vars, areas
  <2>2. IdsOK' /\ FromHeads' = FromHeads
    BY <2>1, HeapKept DEF CopiesOK
  <2>3. LengthsOK'
    BY <2>1 DEF CopiesOK, LengthsOK
  <2>4. CompactOK'
    BY <2>1, <2>2 DEF CopiesOK, CompactOK, Extent
  <2> QED BY <1>1, <2>2, <2>3, <2>4 DEF CopiesOK
<1> QED BY <1>1, <1>2, ClientCopies, GcCopies, PrimitiveCopies DEF Next

\* On top of IInv: which object each head is of, how long the bignums are, and
\* that a collection leaves no gaps.
THEOREM CopiesHold ==
    ASSUME HostContract
    PROVE  Spec => []CopiesOK
<1>1. Init => CopiesOK
  BY DEF Init, CopiesOK, IdsOK, LengthsOK, CompactOK, FromHeads, ToHeads, NoCall
<1>2. IInv /\ CopiesOK /\ [Next]_vars => CopiesOK'
  BY CopiesStep
<1> QED BY <1>1, <1>2, InvariantHolds, PTL DEF Spec

\* However many words refer to an object, vm_mem_gc copies it once, and the word
\* left in its old place leads to that copy.
THEOREM CopiedOnce ==
    ASSUME HostContract
    PROVE  Spec => []Forwarding
<1>1. ASSUME IInv, CopiesOK PROVE Forwarding
  BY <1>1, HeadFacts DEF Forwarding, CopiesOK, IdsOK, IInv, ForwardOK, FromHeads
<1>2. IInv /\ CopiesOK => Forwarding
  BY <1>1
<1> QED BY <1>2, InvariantHolds, CopiesHold, PTL

-----------------------------------------------------------------------------
(***************************************************************************)
(* The objects of the store, and the words that refer to them.             *)
(***************************************************************************)
\* The heads at which objects are read: the copies, and the objects of the old
\* area that have not been copied.
Latest == ToHeads \cup {h \in FromHeads : mem[h].numwords # 0}

\* Every object has one such head, the one HeadOf chooses.
LEMMA LatestHead ==
    ASSUME HostContract, IInv, IdsOK
    PROVE  /\ Latest \subseteq DOMAIN mem
           /\ \A h \in Latest : HeadOf(mem[h].id) = h
           /\ \A h \in DOMAIN mem : \E g \in Latest : mem[g].id = mem[h].id
<1>1. /\ FromHeads \subseteq DOMAIN mem /\ ToHeads \subseteq DOMAIN mem
      /\ DOMAIN mem = FromHeads \cup ToHeads
  BY HeadFacts
<1>2. \A h \in DOMAIN mem : \E g \in Latest : mem[g].id = mem[h].id
  <2>1. ASSUME NEW h \in FromHeads, mem[h].numwords = 0
        PROVE  \E g \in ToHeads : mem[g].id = mem[h].id
    BY <2>1 DEF IdsOK
  <2> QED BY <1>1, <2>1 DEF Latest
<1>3. ASSUME NEW h \in ToHeads PROVE HeadOf(mem[h].id) = h
  <2> DEFINE heads == {g \in DOMAIN mem : mem[g].id = mem[h].id}
  <2>1. heads \cap ToHeads = {h}
    BY <1>1 DEF IdsOK
  <2>2. HeadOf(mem[h].id) = CHOOSE g \in heads \cap ToHeads : TRUE
    BY <2>1 DEF HeadOf
  <2> QED BY <2>1, <2>2
<1>4. ASSUME NEW h \in FromHeads, mem[h].numwords # 0 PROVE HeadOf(mem[h].id) = h
  <2> DEFINE heads == {g \in DOMAIN mem : mem[g].id = mem[h].id}
  <2>1. \A g \in ToHeads : mem[g].id # mem[h].id
    BY <1>4 DEF IdsOK
  <2>2. heads \cap ToHeads = {}
    BY <2>1
  <2>3. heads = {h}
    BY <1>1, <2>1 DEF IdsOK
  <2>4. HeadOf(mem[h].id) = CHOOSE g \in heads : TRUE
    BY <2>2 DEF HeadOf
  <2> QED BY <2>3, <2>4
<1> QED BY <1>1, <1>2, <1>3, <1>4 DEF Latest

\* The objects by the heads at which they are read.
ReadAtHeads ==
    /\ DOMAIN AbsObjects = {mem[h].id : h \in Latest}
    /\ \A h \in Latest : AbsObjects[mem[h].id] = AbsObject(h)
    /\ \A h \in DOMAIN mem : mem[h].id \in DOMAIN AbsObjects

LEMMA ObjectsRead == HostContract /\ IInv /\ IdsOK => ReadAtHeads
<1> HAVE HostContract /\ IInv /\ IdsOK
<1>1. /\ Latest \subseteq DOMAIN mem
      /\ \A h \in Latest : HeadOf(mem[h].id) = h
      /\ \A h \in DOMAIN mem : \E g \in Latest : mem[g].id = mem[h].id
  BY LatestHead
<1>2. DOMAIN AbsObjects = {mem[h].id : h \in DOMAIN mem}
  BY DEF AbsObjects
<1>3. DOMAIN AbsObjects = {mem[h].id : h \in Latest}
  BY <1>1, <1>2
<1>4. \A h \in Latest : AbsObjects[mem[h].id] = AbsObject(h)
  BY <1>1 DEF AbsObjects
<1> QED BY <1>2, <1>3, <1>4 DEF ReadAtHeads

\* Two states have the same objects if they read the same at their heads.
LEMMA SameObjects ==
    ASSUME HostContract, IInv, IInv', IdsOK, IdsOK',
           \A h \in Latest : \E g \in Latest' : mem'[g].id = mem[h].id,
           \A h \in Latest' : \E g \in Latest : mem[g].id = mem'[h].id
                                                /\ AbsObject(h)' = AbsObject(g)
    PROVE  AbsObjects' = AbsObjects
<1>1. /\ DOMAIN AbsObjects = {mem[h].id : h \in Latest}
      /\ \A h \in Latest : AbsObjects[mem[h].id] = AbsObject(h)
  BY ObjectsRead DEF ReadAtHeads
<1>2. /\ DOMAIN AbsObjects' = {mem'[h].id : h \in Latest'}
      /\ \A h \in Latest' : AbsObjects'[mem'[h].id] = AbsObject(h)'
  <2>1. ReadAtHeads'
    BY ObjectsRead, PTL
  <2> QED BY <2>1 DEF ReadAtHeads
<1>3. DOMAIN AbsObjects' = DOMAIN AbsObjects
  BY <1>1, <1>2
<1>4. ASSUME NEW i \in DOMAIN AbsObjects PROVE AbsObjects'[i] = AbsObjects[i]
  <2>1. PICK h \in Latest' : mem'[h].id = i
    BY <1>2, <1>3
  <2>2. PICK g \in Latest : mem[g].id = i /\ AbsObject(h)' = AbsObject(g)
    BY <2>1
  <2> QED BY <1>1, <1>2, <2>1, <2>2
<1>5. AbsObjects = [i \in DOMAIN AbsObjects |-> AbsObjects[i]]
      /\ AbsObjects' = [i \in DOMAIN AbsObjects' |-> AbsObjects'[i]]
  BY DEF AbsObjects
<1> QED BY <1>3, <1>4, <1>5

\* A word keeps its meaning while its object keeps its head and its name.
LEMMA WordKept ==
    ASSUME NEW v, NEW area, Refers(v, area), \A h \in DOMAIN mem : h \in DOMAIN mem' /\ mem'[h].id = mem[h].id
    PROVE  AbsWord(v, area)' = AbsWord(v, area)
<1>1. is_allocated(v) => RefTo(area + v)' = RefTo(area + v)
  BY DEF Refers, RefTo
<1> QED BY <1>1 DEF AbsWord

\* The word that a slot or a field gets means what the word it had meant.
LEMMA WordMoved ==
    ASSUME HostContract, IInv, IdsOK, NEW w, NEW u, Handled(w), u = NewWord(w)
    PROVE  /\ AbsWord(u, alloc_area_fresh)' = AbsWord(w, alloc_area)
           /\ is_allocated(w) => RefTo(alloc_area_fresh + u)' = RefTo(Old(w))
<1>1. w \in Word /\ Refers(w, alloc_area) /\ InGC /\ UNCHANGED areas
  BY DEF Handled
<1>2. is_allocated(u) <=> is_allocated(w)
  BY <1>1, SlotFacts
<1>3. CASE is_allocated(w)
  <2>1. /\ alloc_area_fresh + u \in ToHeads' /\ mem'[alloc_area_fresh + u].id = mem[Old(w)].id
        /\ Old(w) \in DOMAIN mem
    BY <1>3, HandledWord, HandledHeap DEF FromHeads
  <2>2. RefTo(alloc_area_fresh + u)' = RefTo(Old(w))
    BY <1>1, <2>1 DEF RefTo, ToHeads, areas
  <2> QED BY <1>1, <1>2, <1>3, <2>2 DEF AbsWord, Old, areas
<1>4. CASE ~ is_allocated(w)
  <2>1. u = w
    BY <1>1, <1>4, SlotFacts
  <2> QED BY <1>4, <2>1 DEF AbsWord
<1> QED BY <1>3, <1>4

-----------------------------------------------------------------------------
(***************************************************************************)
(* The steps of the collector but the last leave the store as it is.       *)
(***************************************************************************)
\* What a variable of the store holds.
ValueOf(s) == IF s \in ArgSlot THEN AbsArg(s)
              ELSE IF IsRoot(s) THEN AbsWord(slot[s], AreaOfRoot(s))
              ELSE <<"none", 0>>

LEMMA SameValues ==
    ASSUME \A s \in Slot : ValueOf(s)' = ValueOf(s)
    PROVE  AbsValue' = AbsValue
<1>1. AbsValue = [s \in Slot |-> ValueOf(s)] /\ AbsValue' = [s \in Slot |-> ValueOf(s)']
  BY DEF AbsValue, ValueOf
<1> QED BY <1>1

\* The variables that a step of the collector does not handle.
LEMMA OthersKept ==
    ASSUME HostContract, IInv, UNCHANGED <<roots, areas, call>>,
           \A h \in DOMAIN mem : h \in DOMAIN mem' /\ mem'[h].id = mem[h].id,
           NEW s \in Slot, slot'[s] = slot[s],
           IsRoot(s) => AreaOfRoot(s)' = AreaOfRoot(s)
    PROVE  ValueOf(s)' = ValueOf(s)
<1>1. IsRoot(s)' <=> IsRoot(s)
  BY DEF roots, IsRoot
<1>2. CASE s \in ArgSlot
  <2>1. call.op = "cons" => AbsWord(slot[s], alloc_area)' = AbsWord(slot[s], alloc_area)
    <3> SUFFICES ASSUME call.op = "cons"
                 PROVE  AbsWord(slot[s], alloc_area)' = AbsWord(slot[s], alloc_area)
      OBVIOUS
    <3>1. Refers(slot[s], alloc_area)
      BY <1>2 DEF IInv, PointersOK
    <3>2. PICK v, area : v = slot[s] /\ area = alloc_area
      OBVIOUS
    <3>3. AbsWord(v, area)' = AbsWord(v, area)
      BY <3>1, <3>2, WordKept
    <3>4. AbsWord(slot[s], alloc_area)' = AbsWord(v, area)'
      BY <3>2 DEF areas, AbsWord, RefTo
    <3> QED BY <3>2, <3>3, <3>4
  <2>2. call.op = "add" /\ ~ is_fixnum(slot[s]) => RefTo(slot[s] - WordSize)' = RefTo(slot[s] - WordSize)
    BY <1>2 DEF IInv, PointersOK, RefTo
  <2>3. AbsArg(s)' = AbsArg(s)
    BY <2>1, <2>2 DEF AbsArg
  <2> QED BY <1>2, <2>3 DEF ValueOf
<1>3. CASE s \notin ArgSlot /\ IsRoot(s)
  <2>1. PICK v, area : v = slot[s] /\ area = AreaOfRoot(s)
    OBVIOUS
  <2>2. Refers(v, area)
    BY <1>3, <2>1 DEF IInv, PointersOK, WordIn
  <2>3. AbsWord(v, area)' = AbsWord(v, area)
    BY <2>2, WordKept
  <2>4. AbsWord(slot[s], AreaOfRoot(s))' = AbsWord(v, area)'
    BY <1>3, <2>1 DEF AbsWord, RefTo
  <2> QED BY <1>1, <1>3, <2>1, <2>3, <2>4 DEF ValueOf
<1>4. CASE s \notin ArgSlot /\ ~ IsRoot(s)
  BY <1>1, <1>4 DEF ValueOf
<1> QED BY <1>2, <1>3, <1>4

LEMMA PairsAndBignums ==
    ASSUME IInv, NEW h \in DOMAIN mem
    PROVE  /\ mem[h].type = TYPE_PAIR <=> ~ TYPE_IS_BINARY(mem[h].type)
           /\ mem[h].type = TYPE_BIGNUM <=> TYPE_IS_BINARY(mem[h].type)
BY DEF IInv, TypeOK, Object, TYPE_IS_BINARY, TYPE_BIGNUM, TYPE_PAIR

\* A field keeps its meaning if it is copied, or handled.
LEMMA FieldKept ==
    ASSUME HostContract, IInv, NEW g \in Latest, NEW h, NEW k \in 1..mem[g].size,
           mem'[h].type = mem[g].type, mem'[h].body[k] = mem[g].body[k],
           \/ ~ is_allocated(mem[g].body[k])
           \/ AreaOfField(h, k)' = AreaOfField(g, k),
           \A o \in DOMAIN mem : o \in DOMAIN mem' /\ mem'[o].id = mem[o].id
    PROVE  AbsField(h, k)' = AbsField(g, k)
<1>1. g \in DOMAIN mem /\ mem[g].numwords # 0
  <2>1. ASSUME g \in ToHeads PROVE mem[g].numwords = mem[g].size
    BY <2>1 DEF IInv, ForwardOK
  <2>2. g \in DOMAIN mem
    BY DEF Latest, FromHeads, ToHeads
  <2>3. mem[g].size # 0
    BY <2>2, HeadFacts
  <2> QED BY <2>1, <2>2, <2>3 DEF Latest
<1>2. CASE TYPE_IS_BINARY(mem[g].type)
  BY <1>2 DEF AbsField
<1>3. CASE ~ TYPE_IS_BINARY(mem[g].type)
  <2>1. mem[g].type = TYPE_PAIR
    BY <1>1, <1>3, PairsAndBignums
  <2>2. PICK v, area : v = mem[g].body[k] /\ area = AreaOfField(g, k)
    OBVIOUS
  <2>3. Refers(v, area)
    BY <1>1, <2>1, <2>2 DEF IInv, PointersOK
  <2>4. AbsWord(v, area)' = AbsWord(v, area)
    BY <2>3, WordKept
  <2>5. AbsWord(mem[h].body[k], AreaOfField(h, k))' = AbsWord(v, area)'
    <3>1. CASE is_allocated(v)
      BY <2>2, <3>1 DEF AbsWord, RefTo
    <3>2. CASE ~ is_allocated(v)
      BY <2>2, <3>2 DEF AbsWord
    <3> QED BY <3>1, <3>2
  <2> QED BY <1>3, <2>2, <2>4, <2>5 DEF AbsField
<1> QED BY <1>2, <1>3

LEMMA ObjectKept ==
    ASSUME NEW g, NEW h, mem'[h].type = mem[g].type, mem'[h].size = mem[g].size,
           \A k \in 1..mem[g].size : AbsField(h, k)' = AbsField(g, k)
    PROVE  AbsObject(h)' = AbsObject(g)
BY DEF AbsObject

\* Steps of the collector that copy nothing.
LEMMA PassOver ==
    ASSUME HostContract, IInv, IInv', IdsOK,
           UNCHANGED <<slot, roots, areas, alloc_ptr, mem, nextid, call>>,
           \A s \in Slot : IsRoot(s) => AreaOfRoot(s)' = AreaOfRoot(s),
           \A h \in Latest : \A k \in 1..mem[h].size :
              ~ is_allocated(mem[h].body[k]) \/ TYPE_IS_BINARY(mem[h].type)
              \/ AreaOfField(h, k)' = AreaOfField(h, k)
    PROVE  AbsValue' = AbsValue /\ AbsObjects' = AbsObjects
<1>1. IdsOK' /\ FromHeads' = FromHeads /\ ToHeads' = ToHeads
  BY HeapKept
<1>2. AbsValue' = AbsValue
  <2>1. ASSUME NEW s \in Slot PROVE ValueOf(s)' = ValueOf(s)
    BY OthersKept
  <2> QED BY <2>1, SameValues
<1>3. Latest' = Latest
  BY <1>1 DEF Latest
<1>4. ASSUME NEW h \in Latest PROVE AbsObject(h)' = AbsObject(h)
  <2>1. ASSUME NEW k \in 1..mem[h].size PROVE AbsField(h, k)' = AbsField(h, k)
    <3>1. CASE TYPE_IS_BINARY(mem[h].type)
      BY <3>1 DEF AbsField
    <3>2. CASE ~ TYPE_IS_BINARY(mem[h].type)
      BY <3>2, FieldKept
    <3> QED BY <3>1, <3>2
  <2> QED BY <2>1, ObjectKept
<1>5. AbsObjects' = AbsObjects
  BY <1>1, <1>3, <1>4, SameObjects
<1> QED BY <1>2, <1>5

LEMMA StartGCStutters ==
    ASSUME HostContract, IInv, IInv', IdsOK, StartGC
    PROVE  AbsValue' = AbsValue /\ AbsObjects' = AbsObjects
<1>1. /\ pc = "alloc" /\ pc' = "roots" /\ root' = 1
      /\ UNCHANGED <<slot, roots, areas, alloc_ptr, mem, nextid, call>>
  BY DEF StartGC
<1>2. ASSUME NEW s \in Slot PROVE AreaOfRoot(s)' = AreaOfRoot(s)
  <2>1. ~ (s < 1)
    BY DEF Slot
  <2> QED BY <1>1, <2>1 DEF AreaOfRoot, RootDone, areas
<1>3. ToHeads = {} /\ ToHeads' = {}
  <2>1. ToHeads = {}
    BY <1>1 DEF IInv, HeapLayout, InGC
  <2> QED BY <1>1, <2>1 DEF ToHeads, InArea, Extent, areas
<1>4. \A h, k : AreaOfField(h, k)' = AreaOfField(h, k)
  BY <1>1, <1>3 DEF AreaOfField, FieldDone, areas
<1> QED BY <1>1, <1>2, <1>4, PassOver

LEMMA GcRootsDoneStutters ==
    ASSUME HostContract, IInv, IInv', IdsOK, GcRootsDone
    PROVE  AbsValue' = AbsValue /\ AbsObjects' = AbsObjects
<1>1. /\ pc = "roots" /\ pc' = "scan" /\ root > LastSlot /\ root \in Nat /\ LastSlot \in Nat
      /\ old_start' = newptr /\ ptr' = newptr /\ fld' = fld /\ end' = end /\ newptr' = newptr
      /\ UNCHANGED <<slot, roots, areas, alloc_ptr, mem, nextid, call>>
  BY ConstantsOK DEF GcRootsDone, IInv, TypeOK, LastSlot, ArgB
<1>2. ASSUME NEW s \in Slot PROVE AreaOfRoot(s)' = AreaOfRoot(s)
  <2>1. s < root
    BY <1>1 DEF Slot
  <2> QED BY <1>1, <2>1 DEF AreaOfRoot, RootDone, areas
<1>3. end = ToEnd /\ fld = 1
  BY <1>1 DEF IInv, ScanOK
<1>4. ToHeads' = ToHeads
  BY <1>1 DEF ToHeads, InArea, Extent, areas
<1>5. ASSUME NEW h \in ToHeads PROVE h \in Nat /\ h < ToEnd
  <2>1. h \in Nat /\ Extent(h) \in Nat /\ Extent(h) > 0 /\ h + Extent(h) <= ToEnd
    BY HeadFacts DEF ToHeads
  <2> QED BY <2>1, AreaFacts DEF IInv
<1>6. ASSUME NEW h, NEW k \in Nat, k > 0 PROVE AreaOfField(h, k)' = AreaOfField(h, k)
  <2>1. ~ FieldDone(h, k)'
    <3> SUFFICES ASSUME h \in ToHeads PROVE ~ FieldDone(h, k)'
      BY <1>4 DEF FieldDone
    <3>1. ~ (h >= end) /\ ~ (newptr <= h /\ h < newptr) /\ ~ (k < fld)
      <4>1. newptr \in Nat /\ ToEnd \in Nat
        BY AreaFacts DEF IInv, TypeOK
      <4> QED BY <1>3, <1>5, <1>6, <4>1
    <3> QED BY <1>1, <3>1 DEF FieldDone
  <2>2. AreaOfField(h, k) = alloc_area
    BY <1>1, NoFieldDone
  <2> QED BY <1>1, <2>1, <2>2 DEF AreaOfField, areas
<1>7. \A h \in Latest : \A k \in 1..mem[h].size : k \in Nat /\ k > 0
  BY HeadFacts DEF Latest
<1> QED BY <1>1, <1>2, <1>6, <1>7, PassOver

LEMMA GcNextRoundStutters ==
    ASSUME HostContract, IInv, IInv', IdsOK, GcNextRound
    PROVE  AbsValue' = AbsValue /\ AbsObjects' = AbsObjects
<1>1. /\ pc = "scan" /\ pc' = "scan" /\ ptr >= end /\ newptr < old_start
      /\ end' = old_start /\ old_start' = newptr /\ ptr' = newptr
      /\ newptr' = newptr /\ root' = root /\ fld' = fld
      /\ UNCHANGED <<slot, roots, areas, alloc_ptr, mem, nextid, call>>
  BY DEF GcNextRound, AnotherRound
<1>2. /\ newptr \in Nat /\ old_start \in Nat /\ ptr \in Nat /\ end \in Nat
      /\ old_start <= ptr /\ ptr = end /\ fld = 1
  <2>1. /\ newptr \in Nat /\ old_start \in Nat /\ ptr \in Nat /\ end \in Nat
        /\ old_start <= ptr /\ ptr <= end /\ (ptr = end => fld = 1)
    BY <1>1, ScanFacts
  <2> QED BY <1>1, <2>1
<1>3. \A s \in Slot : AreaOfRoot(s)' = AreaOfRoot(s)
  BY <1>1 DEF AreaOfRoot, RootDone, areas
<1>4. ToHeads' = ToHeads /\ ToHeads \subseteq Nat
  <2>1. ToHeads \subseteq Nat
    BY HeadFacts DEF ToHeads
  <2> QED BY <1>1, <2>1 DEF ToHeads, InArea, Extent, areas
<1>5. ASSUME NEW h \in Latest, NEW k \in 1..mem[h].size PROVE AreaOfField(h, k)' = AreaOfField(h, k)
  <2>1. h \in ToHeads => h \in Nat
    BY <1>4
  <2>2. k \in Nat /\ k > 0
    BY HeadFacts DEF Latest
  <2>3. h \in ToHeads => ((h >= old_start \/ (newptr <= h /\ h < newptr) \/ (h = newptr /\ k < fld))
                           <=> (h >= end \/ (old_start <= h /\ h < ptr) \/ (h = ptr /\ k < fld)))
    BY <1>2, <2>1, <2>2
  <2>4. FieldDone(h, k)' <=> FieldDone(h, k)
    BY <1>1, <1>4, <2>3 DEF FieldDone, InGC
  <2> QED BY <1>1, <2>4 DEF AreaOfField, InGC, areas
<1> QED BY <1>1, <1>3, <1>5, PassOver

LEMMA GcNextObjectStutters ==
    ASSUME HostContract, IInv, IInv', IdsOK, GcNextObject
    PROVE  AbsValue' = AbsValue /\ AbsObjects' = AbsObjects
<1>1. /\ pc = "scan" /\ ptr < end /\ fld \notin ToScan
      /\ UNCHANGED <<roots, areas, alloc_ptr, nextid, call>>
  BY DEF GcNextObject
<1>2. /\ newptr \in Nat /\ old_start \in Nat /\ ptr \in Nat /\ end \in Nat
      /\ old_start <= ptr /\ fld \in Nat /\ fld >= 1
      /\ ptr \in ToHeads /\ ptr \in DOMAIN mem /\ mem[ptr].numwords = mem[ptr].size
      /\ ptr + Extent(ptr) <= end
  BY <1>1, ScanFacts
<1>3. PICK p \in DOMAIN mem, e \in Nat : p = ptr /\ e = Extent(ptr) /\ e > 0
                                         /\ e = WordSize * (mem[ptr].numwords + 1)
  BY <1>2, HeadFacts DEF WordSize
<1>4. mem[ptr].numwords # 0
  BY <1>2, HeadFacts
<1>5. /\ ptr' = p + e /\ fld' = 1 /\ pc' = pc
      /\ UNCHANGED <<slot, mem, newptr, root, old_start, end>>
  BY <1>2, <1>3, <1>4 DEF GcNextObject
<1>6. \A s \in Slot : AreaOfRoot(s)' = AreaOfRoot(s)
  BY <1>1, <1>5 DEF AreaOfRoot, RootDone, areas
<1>7. ToHeads' = ToHeads /\ ToHeads \subseteq Nat /\ \A h \in ToHeads : h \in DOMAIN mem
  <2>1. ToHeads \subseteq Nat /\ \A h \in ToHeads : h \in DOMAIN mem
    BY HeadFacts DEF ToHeads
  <2> QED BY <1>1, <1>5, <2>1 DEF ToHeads, InArea, Extent, areas
<1>8. ASSUME NEW h \in Latest, NEW k \in 1..mem[h].size,
             is_allocated(mem[h].body[k]), ~ TYPE_IS_BINARY(mem[h].type)
      PROVE  AreaOfField(h, k)' = AreaOfField(h, k)
  <2>1. /\ h \in DOMAIN mem /\ k \in Nat /\ k > 0 /\ mem[h].type = TYPE_PAIR
        /\ mem[h].size = 2
    <3>1. h \in DOMAIN mem /\ mem[h].size \in 1..(GcLenLimit - 1)
      BY HeadFacts DEF Latest
    <3>2. mem[h].type = TYPE_PAIR
      BY <1>8, <3>1, PairsAndBignums
    <3> QED BY <1>8, <3>1, <3>2, SizeFacts DEF IInv, ObjectsOK
  <2>2. k = 1
    BY <1>8, <2>1 DEF IInv, ObjectsOK
  <2>3. h = ptr => k < fld
    <3> SUFFICES ASSUME h = ptr PROVE k < fld
      OBVIOUS
    <3>1. ToScan = {1}
      BY <1>2, <1>8, <2>1 DEF ToScan, FieldsVisited
    <3> QED BY <1>1, <1>2, <2>2, <3>1
  <2>4. h # ptr => h < p \/ p + e <= h
    BY <1>3, <2>1, HeadFacts DEF IInv, HeapLayout, Extent
  <2>5. h \in ToHeads => h \in Nat
    BY <1>7
  <2>6. h \in ToHeads => ((h >= end \/ (old_start <= h /\ h < p + e) \/ (h = p + e /\ k < 1))
                           <=> (h >= end \/ (old_start <= h /\ h < ptr) \/ (h = ptr /\ k < fld)))
    BY <1>2, <1>3, <2>2, <2>3, <2>4, <2>5
  <2>7. FieldDone(h, k)' <=> FieldDone(h, k)
    BY <1>1, <1>5, <1>7, <2>6 DEF FieldDone, InGC
  <2> QED BY <1>1, <1>5, <2>7 DEF AreaOfField, InGC, areas
<1> QED BY <1>1, <1>5, <1>6, <1>8, PassOver

\* The store's objects after a step that handles the word w.
LEMMA HandledObjects ==
    ASSUME HostContract, IInv, IInv', IdsOK, NEW w, Handled(w),
           NEW n, NEW o, n = NewHead(w), o = Old(w),
           \A h \in Latest : ~ Moves(w) \/ h # o => AbsObject(h)' = AbsObject(h),
           Moves(w) => AbsObject(n)' = AbsObject(o)
    PROVE  AbsObjects' = AbsObjects
<1>1. IdsOK'
  BY HandledIds
<1>2. /\ FromHeads' = FromHeads
      /\ ToHeads' = ToHeads \cup (IF Moves(w) THEN {n} ELSE {})
      /\ \A h \in DOMAIN mem : mem'[h].id = mem[h].id
      /\ \A h \in DOMAIN mem : ~ Moves(w) \/ h # o => mem'[h].numwords = mem[h].numwords
      /\ Moves(w) => /\ mem'[n].id = mem[o].id /\ mem[o].numwords # 0 /\ mem'[o].numwords = 0
                     /\ is_allocated(w)
      /\ is_allocated(w) => o \in FromHeads
      /\ FromHeads \subseteq DOMAIN mem /\ ToHeads \subseteq DOMAIN mem
      /\ FromHeads \cap ToHeads = {}
  BY HandledHeap, HeadFacts
<1>3. CASE ~ Moves(w)
  <2>1. Latest' = Latest /\ Latest \subseteq DOMAIN mem
    BY <1>2, <1>3 DEF Latest
  <2> QED BY <1>1, <1>2, <1>3, <2>1, SameObjects
<1>4. CASE Moves(w)
  <2>1. Latest' = (Latest \ {o}) \cup {n} /\ Latest \subseteq DOMAIN mem /\ o \in Latest
    BY <1>2, <1>4 DEF Latest
  <2>2. \A h \in Latest : \E g \in Latest' : mem'[g].id = mem[h].id
    BY <1>2, <1>4, <2>1
  <2>3. \A h \in Latest' : \E g \in Latest : mem[g].id = mem'[h].id /\ AbsObject(h)' = AbsObject(g)
    BY <1>2, <1>4, <2>1
  <2> QED BY <1>1, <2>2, <2>3, SameObjects
<1> QED BY <1>3, <1>4

\* The fields of a copy are still to be visited, as those of the original were.
LEMMA CopyRead ==
    ASSUME HostContract, IInv, NEW w, Handled(w), Moves(w), NEW n, NEW o, n = NewHead(w), o = Old(w),
           UNCHANGED <<pc, ptr, old_start, end>>, mem'[n] = mem[o]
    PROVE  AbsObject(n)' = AbsObject(o)
<1>1. /\ w \in Word /\ w \in Nat /\ Refers(w, alloc_area) /\ InGC /\ UNCHANGED areas
      /\ InGC' /\ is_allocated(w)
  BY SizeFacts DEF Handled, Word, Moves
<1>2. /\ o \in FromHeads /\ o \notin ToHeads /\ o \in Latest /\ mem[o].size \in 1..(GcLenLimit - 1)
      /\ Extent(o) \in Nat /\ Extent(o) > 0
  BY <1>1, OldObject, HeadFacts DEF Latest, Moves
<1>3. n \in Nat /\ n + Extent(o) = newptr /\ newptr \in Nat /\ newptr <= ToEnd /\ ToEnd \in Nat
  BY <1>1, CopyFits, NewptrFacts, AreaFacts DEF IInv
<1>4. n < old_start /\ n < ptr /\ n < end /\ old_start \in Nat /\ ptr \in Nat /\ end \in Nat
  <2>1. CASE pc = "roots"
    BY <1>2, <1>3, <2>1 DEF IInv, ScanOK
  <2>2. CASE pc = "scan"
    <3>1. /\ old_start \in Nat /\ ptr \in Nat /\ end \in Nat
          /\ newptr <= old_start /\ old_start <= ptr /\ ptr <= end
      BY <2>2, ScanFacts
    <3> QED BY <1>2, <1>3, <3>1
  <2> QED BY <1>1, <2>1, <2>2 DEF InGC
<1>5. ASSUME NEW k \in 1..mem[o].size PROVE AbsField(n, k)' = AbsField(o, k)
  <2>1. ~ FieldDone(n, k)'
    <3>1. ~ (n >= end) /\ ~ (old_start <= n) /\ n # ptr
      BY <1>3, <1>4
    <3> QED BY <3>1 DEF FieldDone
  <2>2. AreaOfField(o, k) = alloc_area
    BY <1>2 DEF AreaOfField, FieldDone
  <2>3. AreaOfField(n, k)' = alloc_area
    BY <1>1, <2>1 DEF AreaOfField, areas
  <2>4. \A h \in DOMAIN mem : h \in DOMAIN mem' /\ mem'[h].id = mem[h].id
    BY HandledHeap
  <2> QED BY <1>2, <2>2, <2>3, <2>4, FieldKept
<1> QED BY <1>5, ObjectKept

\* What the store has in the variable that is visited next.
LEMMA RootValue ==
    ASSUME HostContract, IInv, pc = "roots", root <= LastSlot, NEW r, r = root
    PROVE  /\ ValueOf(r) = AbsWord(RootWord(r), alloc_area)
           /\ r \in ArgSlot => ~ is_fixnum(slot[r])
<1>1. /\ r \in Slot /\ IsRoot(r) /\ r \in Nat
      /\ r \in ArgSlot => r \in ptr_roots /\ is_allocated(RootWord(r))
  BY RootWordOK, SizeFacts
<1>2. AreaOfRoot(r) = alloc_area
  <2>1. ~ (r < root)
    BY <1>1
  <2> QED BY <2>1 DEF AreaOfRoot, RootDone
<1>3. CASE r \notin ArgSlot
  BY <1>1, <1>2, <1>3 DEF ValueOf, RootWord
<1>4. CASE r \in ArgSlot
  <2>1. /\ r \in ptr_roots /\ is_allocated(RootWord(r)) /\ call.op = "add"
        /\ RootWord(r) = (slot[r] - WordSize - alloc_area) % WordValues
    BY <1>1, <1>4 DEF RootWord, ALLOCATED_FROM_POINTER, OffsetFrom, IInv, CallOK
  <2>2. /\ Refers(slot[r] - WordSize - alloc_area, alloc_area)
        /\ is_allocated(slot[r] - WordSize - alloc_area)
    BY <1>1, <1>2, <1>4, <2>1 DEF IInv, PointersOK, WordIn
  <2>3. slot[r] \in Nat /\ alloc_area \in Nat /\ alloc_area % 2 = 0
    BY <1>1, AreaFacts DEF IInv, TypeOK
  <2>4. slot[r] - WordSize - alloc_area > 0 /\ slot[r] - WordSize - alloc_area < alloc_size
    BY <2>2 DEF Refers
  <2>5. slot[r] - WordSize - alloc_area \in 0..(WordValues - 1)
    BY <2>3, <2>4, SizeFacts DEF WordSize
  <2>6. RootWord(r) = slot[r] - WordSize - alloc_area
    <3>1. PICK d \in 0..(WordValues - 1) : d = slot[r] - WordSize - alloc_area
      BY <2>5
    <3>2. WordValues \in Nat /\ d < WordValues /\ d \in Nat
      BY SizeFacts
    <3>3. d % WordValues = d
      BY <3>2
    <3> QED BY <2>1, <3>1, <3>3
  <2>7. slot[r] % 2 = 0
    BY <2>2, <2>3 DEF is_allocated, WordSize
  <2>8. alloc_area + RootWord(r) = slot[r] - WordSize /\ ~ is_fixnum(slot[r])
    BY <2>3, <2>6, <2>7 DEF is_fixnum, WordSize
  <2> QED BY <1>4, <2>1, <2>8 DEF ValueOf, AbsArg, AbsWord
<1> QED BY <1>3, <1>4

LEMMA GcRootStutters ==
    ASSUME HostContract, IInv, IInv', IdsOK, GcRoot
    PROVE  AbsValue' = AbsValue /\ AbsObjects' = AbsObjects
<1>1. PICK r \in Slot, w \in Word :
             /\ r = root /\ w = RootWord(root) /\ IsRoot(r) /\ Refers(w, alloc_area)
             /\ pc = "roots" /\ InGC /\ InGC'
             /\ r \in ArgSlot => r \in ptr_roots /\ is_allocated(w)
             /\ slot' = [slot EXCEPT ![r] = NewRoot(r)]
             /\ mem' = NewMem(w) /\ newptr' = NewPtr(w)
             /\ root' \in (r + 1)..(LastSlot + 1)
             /\ \A s \in (r + 1)..(root' - 1) : ~ IsRoot(s)
             /\ UNCHANGED <<pc, ptr, fld, old_start, end, roots, areas, alloc_ptr, nextid, call>>
  BY RootStep
<1>2. Handled(w)
  BY <1>1, RootHandled
<1>3. /\ \A h \in DOMAIN mem : h \in DOMAIN mem' /\ mem'[h].id = mem[h].id
      /\ ToHeads' = ToHeads \cup (IF Moves(w) THEN {NewHead(w)} ELSE {})
      /\ Moves(w) => NewHead(w) \notin DOMAIN mem /\ is_allocated(w)
  BY <1>2, HandledHeap
<1>4. r \in Nat /\ \A s \in Slot : s \in Nat /\ s < LastSlot + 1
  BY SizeFacts, ConstantsOK DEF Slot, LastSlot, ArgB
<1>5. PICK n, o, u : n = NewHead(w) /\ o = Old(w) /\ u = NewWord(w)
  OBVIOUS
<1>6. AbsValue' = AbsValue
  <2>1. ASSUME NEW s \in Slot, s # r PROVE ValueOf(s)' = ValueOf(s)
    <3>1. IsRoot(s) => (s < root' <=> s < root)
      <4>1. PICK t \in (r + 1)..(LastSlot + 1) : t = root'
        BY <1>1
      <4>2. IsRoot(s) => ~ (s \in (r + 1)..(t - 1))
        BY <1>1, <4>1
      <4>3. s \in Nat /\ LastSlot \in Nat
        BY <1>4, ConstantsOK DEF LastSlot, ArgB
      <4>4. IsRoot(s) => (s < t <=> s < r)
        BY <1>4, <2>1, <4>2, <4>3
      <4> QED BY <1>1, <4>1, <4>4
    <3>2. IsRoot(s) => AreaOfRoot(s)' = AreaOfRoot(s)
      BY <1>1, <3>1 DEF AreaOfRoot, RootDone, areas
    <3>3. slot'[s] = slot[s]
      BY <1>1, <2>1 DEF IInv, TypeOK
    <3> QED BY <1>1, <1>3, <3>2, <3>3, OthersKept
  <2>2. ValueOf(r)' = ValueOf(r)
    <3>0. ValueOf(r) = AbsWord(w, alloc_area)
      <4>1. root <= LastSlot
        BY DEF GcRoot
      <4> QED BY <1>1, <4>1, RootValue
    <3>1. slot'[r] = NewRoot(r)
      BY <1>1 DEF IInv, TypeOK
    <3>2. AbsWord(u, alloc_area_fresh)' = AbsWord(w, alloc_area)
          /\ (is_allocated(w) => RefTo(alloc_area_fresh + u)' = RefTo(Old(w)))
      BY <1>2, <1>5, WordMoved
    <3>3. CASE r \notin ArgSlot
      <4>1. slot'[r] = u /\ w = slot[r]
        BY <1>1, <1>5, <3>1, <3>3 DEF NewRoot, RootWord
      <4>2. IsRoot(r)' /\ IsRoot(r)
        BY <1>1 DEF IsRoot, roots
      <4>3. AreaOfRoot(r) = alloc_area /\ AreaOfRoot(r)' = alloc_area_fresh'
        <5>1. ~ (r < root) /\ r < root'
          BY <1>1, <1>4
        <5> QED BY <1>1, <5>1 DEF AreaOfRoot, RootDone, areas
      <4>4. ValueOf(r)' = AbsWord(u, alloc_area_fresh)'
        BY <3>3, <4>1, <4>2, <4>3 DEF ValueOf, AbsWord
      <4> QED BY <3>0, <3>2, <4>4
    <3>4. CASE r \in ArgSlot
      <4>1. r \in ptr_roots /\ is_allocated(w) /\ call.op = "add" /\ call' = call
        BY <1>1, <3>4 DEF IInv, CallOK
      <4>2. slot'[r] = alloc_area_fresh + u + WordSize
        BY <1>1, <1>5, <3>1, <3>4 DEF NewRoot
      <4>3. u \in Nat /\ alloc_area_fresh \in Nat /\ alloc_area_fresh' = alloc_area_fresh
            /\ is_allocated(u) /\ alloc_area_fresh % 2 = 0
        BY <1>1, <1>5, <4>1, SlotFacts, AreaFacts, SizeFacts DEF IInv, Word, areas
      <4>6. ~ is_fixnum(slot[r])'
        BY <4>2, <4>3 DEF is_fixnum, is_allocated, WordSize
      <4>7. slot'[r] - WordSize = alloc_area_fresh + u
        BY <4>2, <4>3 DEF WordSize
      <4>8. ValueOf(r)' = RefTo(alloc_area_fresh + u)'
        BY <3>4, <4>1, <4>3, <4>6, <4>7 DEF ValueOf, AbsArg, RefTo
      <4> QED BY <3>0, <3>2, <4>1, <4>8 DEF AbsWord, Old
    <3> QED BY <3>3, <3>4
  <2> QED BY <2>1, <2>2, SameValues
<1>7. AbsObjects' = AbsObjects
  <2>1. ASSUME NEW h \in Latest, ~ Moves(w) \/ h # o PROVE AbsObject(h)' = AbsObject(h)
    <3>1. h \in DOMAIN mem
      BY LatestHead
    <3>2. mem'[h] = mem[h]
      <4>1. CASE Moves(w)
        BY <1>1, <1>5, <2>1, <3>1, <4>1, NewMemFacts
      <4>2. CASE ~ Moves(w)
        BY <1>1, <4>2, NewMemTyped
      <4> QED BY <4>1, <4>2
    <3>3. h \in ToHeads' <=> h \in ToHeads
      BY <1>3, <3>1
    <3>4. \A k : AreaOfField(h, k)' = AreaOfField(h, k)
      BY <1>1, <3>3 DEF AreaOfField, FieldDone, areas
    <3>5. \A k \in 1..mem[h].size : AbsField(h, k)' = AbsField(h, k)
      BY <1>3, <3>2, <3>4, FieldKept
    <3> QED BY <3>2, <3>5, ObjectKept
  <2>2. ASSUME Moves(w) PROVE AbsObject(n)' = AbsObject(o)
    <3>1. mem'[n] = mem[o]
      BY <1>1, <1>5, <2>2, NewMemFacts
    <3> QED BY <1>1, <1>2, <1>5, <2>2, <3>1, CopyRead
  <2> QED BY <1>2, <1>5, <2>1, <2>2, HandledObjects
<1> QED BY <1>6, <1>7

\* What the store has in the field that is visited next.
LEMMA ScanValue ==
    ASSUME HostContract, IInv, pc = "scan", ptr < end, fld = 1, NEW p \in DOMAIN mem, p = ptr,
           mem[p].type = TYPE_PAIR
    PROVE  AbsField(p, 1) = AbsWord(mem[p].body[1], alloc_area)
<1>1. old_start \in Nat /\ ptr \in Nat /\ end \in Nat
  BY ScanFacts
<1>2. ~ FieldDone(p, 1)
  <2>1. ~ (p >= end) /\ ~ (p < ptr) /\ ~ (1 < fld)
    BY <1>1
  <2> QED BY <2>1 DEF FieldDone
<1> QED BY <1>2, PairsAndBignums DEF AbsField, AreaOfField

LEMMA GcScanFieldStutters ==
    ASSUME HostContract, IInv, IInv', IdsOK, GcScanField
    PROVE  AbsValue' = AbsValue /\ AbsObjects' = AbsObjects
<1>1. PICK p \in DOMAIN mem, w \in Word :
             /\ p = ptr /\ p \in ToHeads /\ w = mem[p].body[1] /\ Refers(w, alloc_area)
             /\ mem[p].type = TYPE_PAIR /\ mem[p].size = 2 /\ mem[p].numwords = 2
             /\ pc = "scan" /\ ptr < end /\ fld = 1 /\ InGC /\ InGC' /\ fld' = 2
             /\ UNCHANGED <<slot, pc, root, ptr, old_start, end, roots, areas, alloc_ptr, nextid, call>>
  BY ScanStep
<1>2. Handled(w)
  BY <1>1, FieldHandled
<1>3. /\ \A h \in DOMAIN mem : h \in DOMAIN mem' /\ mem'[h].id = mem[h].id
      /\ ToHeads' = ToHeads \cup (IF Moves(w) THEN {NewHead(w)} ELSE {})
      /\ Moves(w) => NewHead(w) \notin DOMAIN mem /\ is_allocated(w)
  BY <1>2, HandledHeap
<1>4. PICK n, o, u : n = NewHead(w) /\ o = Old(w) /\ u = NewWord(w)
  OBVIOUS
<1>5. /\ p \in DOMAIN NewMem(w) /\ p \notin FromHeads
      /\ DOMAIN mem' = DOMAIN NewMem(w)
      /\ \A h \in DOMAIN mem' : h # p => mem'[h] = NewMem(w)[h]
      /\ mem'[p].type = TYPE_PAIR /\ mem'[p].size = 2
      /\ mem[p].body \in [1..2 -> Word]
      /\ mem'[p].body = [mem[p].body EXCEPT ![1] = u]
  BY <1>1, <1>4, ScannedObject
<1>6. old_start \in Nat /\ ptr \in Nat /\ end \in Nat
  BY <1>1, ScanFacts
<1>7. AbsValue' = AbsValue
  <2>1. ASSUME NEW s \in Slot PROVE ValueOf(s)' = ValueOf(s)
    <3>1. AreaOfRoot(s)' = AreaOfRoot(s)
      BY <1>1 DEF AreaOfRoot, RootDone, areas
    <3> QED BY <1>1, <1>3, <3>1, OthersKept
  <2> QED BY <2>1, SameValues
<1>8. AbsObject(p)' = AbsObject(p)
  <2>0. p \in Latest
    BY <1>1 DEF Latest
  <2>1. AbsField(p, 1)' = AbsField(p, 1)
    <3>1. AbsWord(u, alloc_area_fresh)' = AbsWord(w, alloc_area)
      BY <1>2, <1>4, WordMoved
    <3>3. FieldDone(p, 1)'
      <4>1. p \in ToHeads'
        BY <1>1, <1>3
      <4>2. p = ptr' /\ 1 < fld'
        BY <1>1
      <4> QED BY <1>1, <4>1, <4>2 DEF FieldDone
    <3>4. AbsField(p, 1) = AbsWord(w, alloc_area)
      BY <1>1, ScanValue
    <3>5. mem'[p].body[1] = u /\ ~ TYPE_IS_BINARY(mem'[p].type)
      BY <1>1, <1>5, PairsAndBignums
    <3>6. AbsField(p, 1)' = AbsWord(u, alloc_area_fresh)'
      BY <1>1, <3>3, <3>5 DEF AbsField, AreaOfField, AbsWord
    <3> QED BY <3>1, <3>4, <3>6
  <2>2. AbsField(p, 2)' = AbsField(p, 2)
    <3>1. ~ is_allocated(mem[p].body[2])
      BY <1>1 DEF IInv, ObjectsOK
    <3>2. mem'[p].body[2] = mem[p].body[2]
      BY <1>5
    <3>3. 2 \in 1..mem[p].size
      BY <1>1
    <3> QED BY <1>1, <1>3, <1>5, <2>0, <3>1, <3>2, <3>3, FieldKept
  <2>3. \A k \in 1..mem[p].size : AbsField(p, k)' = AbsField(p, k)
    <3>1. \A k \in 1..2 : k = 1 \/ k = 2
      OBVIOUS
    <3> QED BY <1>1, <2>1, <2>2, <3>1
  <2> QED BY <1>1, <1>5, <2>3, ObjectKept
<1>9. AbsObjects' = AbsObjects
  <2>1. ASSUME NEW h \in Latest, ~ Moves(w) \/ h # o, h # p PROVE AbsObject(h)' = AbsObject(h)
    <3>1. h \in DOMAIN mem
      BY LatestHead
    <3>2. mem'[h] = mem[h]
      <4>1. CASE Moves(w)
        BY ZenonT(60), <1>1, <1>3, <1>4, <1>5, <2>1, <3>1, <4>1, NewMemFacts
      <4>2. CASE ~ Moves(w)
        BY <1>1, <1>3, <1>5, <2>1, <3>1, <4>2, NewMemTyped
      <4> QED BY <4>1, <4>2
    <3>3. h \in ToHeads' <=> h \in ToHeads
      BY <1>3, <3>1
    <3>4. \A k : AreaOfField(h, k)' = AreaOfField(h, k)
      BY <1>1, <2>1, <3>3 DEF AreaOfField, FieldDone, areas
    <3>5. \A k \in 1..mem[h].size : AbsField(h, k)' = AbsField(h, k)
      BY <1>3, <3>2, <3>4, FieldKept
    <3> QED BY <3>2, <3>5, ObjectKept
  <2>2. ASSUME Moves(w) PROVE AbsObject(n)' = AbsObject(o)
    <3>1. mem'[n] = mem[o]
      <4>1. DOMAIN NewMem(w) = DOMAIN mem \cup {n} /\ NewMem(w)[n] = mem[o] /\ n \notin DOMAIN mem
        BY <1>1, <1>4, <2>2, NewMemFacts
      <4> QED BY <1>1, <1>5, <4>1
    <3> QED BY <1>1, <1>2, <1>4, <2>2, <3>1, CopyRead
  <2> QED BY <1>2, <1>4, <1>8, <2>1, <2>2, HandledObjects
<1> QED BY <1>7, <1>9

-----------------------------------------------------------------------------
(***************************************************************************)
(* What the client can reach.                                              *)
(***************************************************************************)
\* ObjectStore counts as this module does.
LEMMA StoreCardinality ==
    ASSUME NEW S
    PROVE  Store!Cardinality(S) = Cardinality(S)
BY DEF Store!Cardinality, Cardinality

\* The references in each object.
RefsOf == [i \in DOMAIN AbsObjects |-> Store!RefsIn(AbsObjects[i].body)]

\* Reachable is defined by a recursive function; it is the closure of the
\* references in the variables.
LEMMA ReachableIsClosure ==
    \E f : /\ IsClosure(f, DOMAIN AbsObjects, RefsOf)
           /\ f[0] = Store!RefsIn(AbsValue)
           /\ Store!Reachable = f[Cardinality(DOMAIN AbsObjects)]
<1> DEFINE D == DOMAIN AbsObjects
           base == Store!RefsIn(AbsValue)
           step == [x \in Nat \X SUBSET D |-> x[2] \cup UNION {RefsOf[i] : i \in x[2]}]
           W == CHOOSE w : w = [n \in Nat |->
                                  IF n = 0 THEN base
                                  ELSE w[n - 1] \cup UNION {Store!RefsIn(AbsObjects[i].body) : i \in w[n - 1]}]
<1>1. base \in SUBSET D /\ \A i \in D : RefsOf[i] \in SUBSET D
  BY DEF Store!RefsIn, RefsOf
<1>2. \A n \in Nat, x \in SUBSET D : step[<<n, x>>] \in SUBSET D
  <2> SUFFICES ASSUME NEW n \in Nat, NEW x \in SUBSET D PROVE step[<<n, x>>] \in SUBSET D
    OBVIOUS
  <2>1. step[<<n, x>>] = x \cup UNION {RefsOf[i] : i \in x}
    OBVIOUS
  <2>2. \A i \in x : RefsOf[i] \in SUBSET D
    BY <1>1
  <2> HIDE DEF step, D
  <2> QED BY <2>1, <2>2
<1>3. PICK f : IsRecursion(f, SUBSET D, base, step)
  <2> HIDE DEF step, base, D
  <2> QED BY <1>1, <1>2, NatRecursion
<1>4. /\ f \in [Nat -> SUBSET D] /\ f[0] = base
      /\ \A n \in Nat : f[n + 1] = f[n] \cup UNION {RefsOf[i] : i \in f[n]}
  <2>1. f \in [Nat -> SUBSET D] /\ f[0] = base /\ \A n \in Nat : f[n + 1] = step[<<n, f[n]>>]
    BY <1>3 DEF IsRecursion
  <2>2. \A n \in Nat : step[<<n, f[n]>>] = f[n] \cup UNION {RefsOf[i] : i \in f[n]}
    <3> SUFFICES ASSUME NEW n \in Nat
                 PROVE  step[<<n, f[n]>>] = f[n] \cup UNION {RefsOf[i] : i \in f[n]}
      OBVIOUS
    <3>1. f[n] \in SUBSET D
      BY <2>1
    <3> QED BY <3>1
  <2> QED BY <2>1, <2>2
<1> HIDE DEF step
\* The same with the objects in place of RefsOf.
<1>5. \A n \in Nat : UNION {RefsOf[i] : i \in f[n]} = UNION {Store!RefsIn(AbsObjects[i].body) : i \in f[n]}
  <2> SUFFICES ASSUME NEW n \in Nat
               PROVE  {RefsOf[i] : i \in f[n]} = {Store!RefsIn(AbsObjects[i].body) : i \in f[n]}
    OBVIOUS
  <2>1. f[n] \in SUBSET D
    BY <1>4
  <2>2. \A i \in f[n] : RefsOf[i] = Store!RefsIn(AbsObjects[i].body)
    BY <2>1 DEF RefsOf
  <2> QED BY <2>2
<1>6. f = [n \in Nat |-> IF n = 0 THEN base
                         ELSE f[n - 1] \cup UNION {Store!RefsIn(AbsObjects[i].body) : i \in f[n - 1]}]
  <2>1. ASSUME NEW n \in Nat
        PROVE  f[n] = IF n = 0 THEN base
                      ELSE f[n - 1] \cup UNION {Store!RefsIn(AbsObjects[i].body) : i \in f[n - 1]}
    <3>1. CASE n = 0
      BY <1>4, <3>1
    <3>2. CASE n # 0
      <4>1. n - 1 \in Nat /\ (n - 1) + 1 = n
        BY <3>2
      <4>2. f[n] = f[n - 1] \cup UNION {RefsOf[i] : i \in f[n - 1]}
        BY <1>4, <4>1
      <4> QED BY <1>5, <3>2, <4>1, <4>2
    <3> QED BY <3>1, <3>2
  <2>2. f = [n \in Nat |-> f[n]]
    BY <1>4
  <2> HIDE DEF base
  <2> QED BY <2>1, <2>2, Zenon
<1>7. W = [n \in Nat |-> IF n = 0 THEN base
                         ELSE W[n - 1] \cup UNION {Store!RefsIn(AbsObjects[i].body) : i \in W[n - 1]}]
  <2> HIDE DEF base
  <2> QED BY <1>6
<1>8. \A n \in Nat : W[n] = f[n]
  <2> DEFINE E == {n \in Nat : W[n] = f[n]}
  <2> HIDE DEF W, base
  <2>1. 0 \in E
    BY <1>4, <1>7
  <2>2. ASSUME NEW n \in Nat, n \in E PROVE n + 1 \in E
    <3>1. n + 1 \in Nat /\ n + 1 # 0 /\ (n + 1) - 1 = n
      OBVIOUS
    <3>2. W[n + 1] = W[n] \cup UNION {Store!RefsIn(AbsObjects[i].body) : i \in W[n]}
      BY <1>7, <3>1
    <3>3. f[n + 1] = f[n] \cup UNION {Store!RefsIn(AbsObjects[i].body) : i \in f[n]}
      BY <1>6, <3>1
    <3> QED BY <2>2, <3>1, <3>2, <3>3
  <2>3. Nat \subseteq E
    <3> HIDE DEF E
    <3> QED BY <2>1, <2>2, NatSetInduction
  <2> QED BY <2>3
<1>9. W = f
  <2> HIDE DEF W
  <2>1. W = [n \in Nat |-> W[n]]
    BY <1>7
  <2> QED BY <1>4, <1>8, <2>1
<1>10. Store!Reachable = W[Cardinality(D)]
  BY StoreCardinality DEF Store!Reachable
<1>11. IsClosure(f, D, RefsOf)
  BY <1>4 DEF IsClosure
<1> QED BY <1>4, <1>9, <1>10, <1>11

\* It has the references in the variables and in what it has, and nothing that
\* those do not make necessary.
ReachableIsLeast ==
    /\ Store!Reachable \subseteq DOMAIN AbsObjects
    /\ Store!RefsIn(AbsValue) \subseteq Store!Reachable
    /\ \A i \in Store!Reachable : Store!RefsIn(AbsObjects[i].body) \subseteq Store!Reachable
    /\ \A S : /\ Store!RefsIn(AbsValue) \subseteq S
              /\ \A i \in S : i \in DOMAIN AbsObjects => Store!RefsIn(AbsObjects[i].body) \subseteq S
              => Store!Reachable \subseteq S

LEMMA ReachableFacts == IsFiniteSet(DOMAIN AbsObjects) => ReachableIsLeast
<1> HAVE IsFiniteSet(DOMAIN AbsObjects)
<1> DEFINE D == DOMAIN AbsObjects
<1>1. PICK f : /\ IsClosure(f, D, RefsOf)
               /\ f[0] = Store!RefsIn(AbsValue)
               /\ Store!Reachable = f[Cardinality(D)]
  BY ReachableIsClosure
<1>2. Cardinality(D) \in Nat
  BY FS_CardinalityType
<1>3. \A i \in D : RefsOf[i] = Store!RefsIn(AbsObjects[i].body)
  BY DEF RefsOf
<1> HIDE DEF D
<1>4. \A i \in Store!Reachable : i \in D /\ RefsOf[i] \subseteq Store!Reachable
  <2>1. IsFiniteSet(D)
    BY DEF D
  <2> QED BY <1>1, <2>1, ClosureReached
<1>5. ASSUME NEW S, Store!RefsIn(AbsValue) \subseteq S,
             \A i \in S : i \in D => Store!RefsIn(AbsObjects[i].body) \subseteq S
      PROVE  Store!RefsIn(AbsValue) \subseteq Store!Reachable /\ Store!Reachable \subseteq S
  <2>1. \A i \in S : i \in D => RefsOf[i] \subseteq S
    BY <1>3, <1>5
  <2>2. \A n \in Nat : f[0] \subseteq f[n] /\ f[n] \subseteq S
    <3>1. PICK d, x : d = D /\ x = RefsOf
      OBVIOUS
    <3>2. IsClosure(f, d, x) /\ f[0] \subseteq S /\ IsClosed(S, d, x)
      BY <1>1, <1>5, <2>1, <3>1 DEF IsClosed
    <3> QED BY ONLY <3>2, ClosureLeast
  <2> QED BY <1>1, <1>2, <2>2
<1>6. Store!RefsIn(AbsValue) \subseteq Store!Reachable
  <2>1. Store!RefsIn(AbsValue) \subseteq D /\ \A i \in D : Store!RefsIn(AbsObjects[i].body) \subseteq D
    BY DEF Store!RefsIn, D
  <2> QED BY <1>5, <2>1
<1> QED BY <1>3, <1>4, <1>5, <1>6 DEF ReachableIsLeast, D

LEMMA SameReachable ==
    ASSUME AbsValue' = AbsValue, AbsObjects' = AbsObjects
    PROVE  Store!Reachable' = Store!Reachable
BY DEF Store!Reachable, Store!RefsIn

LEMMA FiniteHeap == HostContract /\ IInv => IsFiniteSet(DOMAIN mem) /\ IsFiniteSet(DOMAIN AbsObjects)
<1> HAVE HostContract /\ IInv
<1>1. PICK l \in Nat : l = alloc_size
  BY SizeFacts
<1>2. DOMAIN mem \subseteq 0..(2 * l)
  <2> SUFFICES ASSUME NEW h \in DOMAIN mem PROVE h \in 0..(2 * l)
    OBVIOUS
  <2>1. h \in Nat /\ Extent(h) \in Nat
    BY HeadFacts
  <2>2. \/ alloc_area < h /\ h + Extent(h) <= alloc_area + l
        \/ alloc_area_fresh < h /\ h + Extent(h) <= alloc_area_fresh + l
    BY <1>1 DEF IInv, HeapLayout, FromHeads, ToHeads, InArea
  <2>3. alloc_area \in {0, l} /\ alloc_area_fresh \in {0, l}
    BY <1>1, AreaFacts DEF IInv
  <2> QED BY <1>1, <2>1, <2>2, <2>3
<1>3. IsFiniteSet(0..(2 * l))
  BY <1>1, FS_Interval
<1>4. IsFiniteSet(DOMAIN mem)
  BY <1>2, <1>3, FS_Subset
<1>5. IsFiniteSet({mem[h].id : h \in DOMAIN mem})
  <2>1. PICK M : M = DOMAIN mem
    OBVIOUS
  <2>2. PICK T : T = {mem[h].id : h \in M}
    OBVIOUS
  <2>3. PICK f : f = [h \in M |-> mem[h].id]
    OBVIOUS
  <2>4. f \in Surjection(M, T)
    BY <2>2, <2>3 DEF Surjection
  <2>5. IsFiniteSet(M)
    BY <1>4, <2>1
  <2> QED BY <2>1, <2>2, <2>4, <2>5, FS_Surjection
<1>6. DOMAIN AbsObjects = {mem[h].id : h \in DOMAIN mem}
  BY DEF AbsObjects
<1> QED BY <1>4, <1>5, <1>6

LEMMA ReachableHolds == HostContract /\ IInv => ReachableIsLeast
BY FiniteHeap, ReachableFacts

\* A reference the variables or a reachable object hold is reachable.
LEMMA ReferenceReached ==
    ASSUME HostContract, IInv, NEW i \in DOMAIN AbsObjects,
           \/ \E s \in Slot : ValueOf(s) = <<"ref", i>>
           \/ \E j \in Store!Reachable :
                \E k \in DOMAIN AbsObjects[j].body : AbsObjects[j].body[k] = <<"ref", i>>
    PROVE  i \in Store!Reachable
<1>1. /\ Store!RefsIn(AbsValue) \subseteq Store!Reachable
      /\ \A j \in Store!Reachable : Store!RefsIn(AbsObjects[j].body) \subseteq Store!Reachable
  BY ReachableHolds DEF ReachableIsLeast
<1>2. CASE \E s \in Slot : ValueOf(s) = <<"ref", i>>
  <2>1. AbsValue = [s \in Slot |-> ValueOf(s)]
    BY DEF AbsValue, ValueOf
  <2>2. i \in Store!RefsIn(AbsValue)
    BY <1>2, <2>1 DEF Store!RefsIn, Store!Ref
  <2> QED BY <1>1, <2>2
<1>3. ASSUME NEW j \in Store!Reachable, NEW k \in DOMAIN AbsObjects[j].body,
             AbsObjects[j].body[k] = <<"ref", i>>
      PROVE  i \in Store!Reachable
  <2>1. i \in Store!RefsIn(AbsObjects[j].body)
    BY <1>3 DEF Store!RefsIn, Store!Ref
  <2> QED BY <1>1, <2>1
<1> QED BY <1>2, <1>3

\* What a step of the collector copies can be reached.
LEMMA RootReached ==
    ASSUME HostContract, IInv, IdsOK, GcRoot, NEW w, w = RootWord(root), is_allocated(w), NEW o, o = Old(w)
    PROVE  mem[o].id \in Store!Reachable
<1>1. /\ pc = "roots" /\ root <= LastSlot /\ root \in Slot /\ w \in Word /\ Refers(w, alloc_area)
  BY RootWordOK DEF GcRoot
<1>2. ValueOf(root) = AbsWord(w, alloc_area)
  BY <1>1, RootValue
<1>3. o \in DOMAIN mem
  BY <1>1 DEF Refers, Old
<1>4. ValueOf(root) = <<"ref", mem[o].id>>
  BY <1>2, <1>3 DEF AbsWord, RefTo, Old
<1>5. mem[o].id \in DOMAIN AbsObjects
  BY <1>3, ObjectsRead DEF ReadAtHeads
<1> QED BY <1>1, <1>4, <1>5, ReferenceReached

LEMMA FieldReached ==
    ASSUME HostContract, IInv, IdsOK, GcScanField, NEW w, w = mem[ptr].body[1], is_allocated(w),
           NEW o, o = Old(w), mem[ptr].id \in Store!Reachable
    PROVE  mem[o].id \in Store!Reachable
<1>1. PICK p \in DOMAIN mem : /\ p = ptr /\ p \in ToHeads /\ mem[p].type = TYPE_PAIR /\ mem[p].size = 2
                              /\ pc = "scan" /\ ptr < end /\ fld = 1 /\ Refers(w, alloc_area)
  BY ScanStep
<1>2. AbsField(p, 1) = AbsWord(w, alloc_area)
  BY <1>1, ScanValue
<1>3. o \in DOMAIN mem
  BY <1>1 DEF Refers, Old
<1>4. AbsField(p, 1) = <<"ref", mem[o].id>>
  BY <1>2, <1>3 DEF AbsWord, RefTo, Old
<1>5. mem[o].id \in DOMAIN AbsObjects /\ AbsObjects[mem[p].id] = AbsObject(p)
  BY <1>1, <1>3, ObjectsRead DEF ReadAtHeads, Latest
<1>6. 1 \in DOMAIN AbsObject(p).body /\ AbsObject(p).body[1] = AbsField(p, 1)
  BY <1>1 DEF AbsObject
<1> QED BY <1>1, <1>4, <1>5, <1>6, ReferenceReached

LEMMA HandledReach ==
    ASSUME HostContract, IInv, IdsOK, ReachOK, NEW w, Handled(w), NEW o, o = Old(w), pc' # "slow",
           Store!Reachable' = Store!Reachable, is_allocated(w) => mem[o].id \in Store!Reachable
    PROVE  ReachOK'
<1>1. /\ ToHeads' = ToHeads \cup (IF Moves(w) THEN {NewHead(w)} ELSE {})
      /\ \A h \in DOMAIN mem : mem'[h].id = mem[h].id
      /\ Moves(w) => mem'[NewHead(w)].id = mem[o].id /\ is_allocated(w)
      /\ ToHeads \subseteq DOMAIN mem
  BY HandledHeap, HeadFacts
<1>2. \A h \in ToHeads : mem[h].id \in Store!Reachable
  BY DEF ReachOK, Handled
<1>3. \A h \in ToHeads' : mem'[h].id \in Store!Reachable
  BY <1>1, <1>2
<1> QED BY <1>3 DEF ReachOK

-----------------------------------------------------------------------------
(***************************************************************************)
(* The flip drops exactly what cannot be reached.                          *)
(***************************************************************************)
\* A word that refers to an object relative to the new area refers to a copy.
LEMMA NewObject ==
    ASSUME HostContract, IInv, NEW w, w \in Int, is_allocated(w), Refers(w, alloc_area_fresh)
    PROVE  alloc_area_fresh + w \in ToHeads
<1>1. w > 0 /\ w < alloc_size /\ alloc_area_fresh + w \in DOMAIN mem
  BY DEF Refers
<1>2. alloc_area_fresh + w \notin FromHeads
  <2>1. SUFFICES ASSUME alloc_area_fresh + w \in FromHeads PROVE FALSE
    OBVIOUS
  <2>2. PICK h \in DOMAIN mem : h = alloc_area_fresh + w
    BY <1>1
  <2>3. /\ alloc_area < h /\ h + Extent(h) <= alloc_area + alloc_size
        /\ Extent(h) \in Nat /\ Extent(h) > 0 /\ h \in Nat
    BY <2>1, <2>2, HeadFacts DEF FromHeads, InArea
  <2>4. /\ alloc_area \in Nat /\ alloc_area_fresh \in Nat /\ alloc_size \in Nat
        /\ \/ alloc_area = 0 /\ alloc_area_fresh = alloc_size
           \/ alloc_area = alloc_size /\ alloc_area_fresh = 0
    BY AreaFacts DEF IInv
  <2> QED BY <1>1, <2>2, <2>3, <2>4
<1> QED BY <1>1, <1>2, HeadFacts

\* When the scan is done every field has been visited, and leads to a copy.
LEMMA FieldsVisitedAll ==
    ASSUME HostContract, IInv, GcFlip, NEW h \in ToHeads, NEW k \in 1..mem[h].size
    PROVE  /\ AreaOfField(h, k) = alloc_area_fresh
           /\ mem[h].type = TYPE_PAIR /\ is_allocated(mem[h].body[k]) =>
                alloc_area_fresh + mem[h].body[k] \in ToHeads
<1>1. pc = "scan" /\ InGC /\ ptr >= end /\ ~ (newptr < old_start)
  BY DEF GcFlip, InGC, AnotherRound
<1>2. /\ newptr \in Nat /\ old_start \in Nat /\ ptr \in Nat /\ end \in Nat
      /\ newptr <= old_start /\ ptr <= end
  BY <1>1, ScanFacts
<1>3. h \in Nat /\ newptr <= h /\ h \in DOMAIN mem
  BY <1>1, HeadFacts DEF IInv, Tiles
<1>4. h >= end \/ (old_start <= h /\ h < ptr)
  BY <1>1, <1>2, <1>3
<1>5. AreaOfField(h, k) = alloc_area_fresh
  BY <1>1, <1>4 DEF AreaOfField, FieldDone
<1>6. ASSUME mem[h].type = TYPE_PAIR, is_allocated(mem[h].body[k])
      PROVE  alloc_area_fresh + mem[h].body[k] \in ToHeads
  <2>1. mem[h].numwords # 0
    <3>1. mem[h].numwords = mem[h].size
      BY DEF IInv, ForwardOK
    <3> QED BY <1>3, <3>1, HeadFacts
  <2>2. Refers(mem[h].body[k], alloc_area_fresh)
    BY <1>3, <1>5, <1>6, <2>1 DEF IInv, PointersOK
  <2>3. mem[h].body[k] \in Int
    <3>1. PICK m, f : m = mem[h].size /\ f = mem[h].body
      OBVIOUS
    <3>2. f \in [1..m -> Word] /\ k \in 1..m
      BY <1>3, <3>1 DEF IInv, TypeOK
    <3>3. f[k] \in Word
      BY <3>2
    <3> QED BY <3>1, <3>3, SizeFacts DEF Word
  <2> QED BY <1>6, <2>2, <2>3, NewObject
<1> QED BY <1>5, <1>6

\* And so has every root.
LEMMA RootsVisitedAll ==
    ASSUME HostContract, IInv, GcFlip, NEW s \in Slot
    PROVE  /\ IsRoot(s) => AreaOfRoot(s) = alloc_area_fresh
           /\ IsRoot(s) /\ s \notin ArgSlot /\ is_allocated(slot[s]) => alloc_area_fresh + slot[s] \in ToHeads
           /\ s \in ArgSlot /\ call.op = "cons" => ~ is_allocated(slot[s])
           /\ s \in ArgSlot /\ call.op = "add" /\ ~ is_fixnum(slot[s]) => slot[s] - WordSize \in ToHeads
<1>1. pc = "scan"
  BY DEF GcFlip
<1>2. AreaOfRoot(s) = alloc_area_fresh
  BY <1>1 DEF AreaOfRoot, RootDone
<1>3. IsRoot(s) => /\ Refers(WordIn(s, alloc_area_fresh), alloc_area_fresh)
                   /\ s \in ptr_roots => is_allocated(WordIn(s, alloc_area_fresh))
  BY <1>2 DEF IInv, PointersOK
<1>4. slot[s] \in Nat /\ alloc_area_fresh \in Nat
  BY AreaFacts DEF IInv, TypeOK
<1>5. ASSUME IsRoot(s), s \notin ArgSlot, is_allocated(slot[s])
      PROVE  alloc_area_fresh + slot[s] \in ToHeads
  <2>1. WordIn(s, alloc_area_fresh) = slot[s] /\ slot[s] \in Int
    BY <1>4, <1>5 DEF WordIn
  <2> QED BY <1>3, <1>5, <2>1, NewObject
<1>6. s \in ArgSlot /\ call.op = "cons" => ~ is_allocated(slot[s])
  BY <1>1 DEF IInv, CallOK, ArgSlot
<1>7. ASSUME s \in ArgSlot, call.op = "add", ~ is_fixnum(slot[s])
      PROVE  slot[s] - WordSize \in ToHeads
  <2>1. s \in ptr_roots /\ IsRoot(s)
    BY <1>7 DEF IInv, CallOK, IsRoot
  <2>2. PICK d \in Int : d = slot[s] - WordSize - alloc_area_fresh
    BY <1>4 DEF WordSize
  <2>3. Refers(d, alloc_area_fresh) /\ is_allocated(d)
    BY <1>3, <1>7, <2>1, <2>2 DEF WordIn
  <2>4. alloc_area_fresh + d \in ToHeads
    BY <2>3, NewObject
  <2>5. alloc_area_fresh + d = slot[s] - WordSize
    BY <1>4, <2>2 DEF WordSize
  <2> QED BY <2>4, <2>5
<1> QED BY <1>2, <1>5, <1>6, <1>7

\* The references the store has then are references to copies.
LEMMA CopiedReferences ==
    ASSUME HostContract, IInv, GcFlip, NEW i
    PROVE  /\ \A s \in Slot : ValueOf(s) = <<"ref", i>> => \E g \in ToHeads : mem[g].id = i
           /\ \A h \in ToHeads : \A k \in 1..mem[h].size :
                AbsField(h, k) = <<"ref", i>> => \E g \in ToHeads : mem[g].id = i
<1>1. ToHeads \subseteq DOMAIN mem
  BY HeadFacts
<1>2. ASSUME NEW g \in ToHeads, RefTo(g) = <<"ref", i>> PROVE mem[g].id = i
  BY <1>1, <1>2 DEF RefTo
<1>3. ASSUME NEW s \in Slot, ValueOf(s) = <<"ref", i>> PROVE \E g \in ToHeads : mem[g].id = i
  <2>1. /\ IsRoot(s) => AreaOfRoot(s) = alloc_area_fresh
        /\ IsRoot(s) /\ s \notin ArgSlot /\ is_allocated(slot[s]) => alloc_area_fresh + slot[s] \in ToHeads
        /\ s \in ArgSlot /\ call.op = "cons" => ~ is_allocated(slot[s])
        /\ s \in ArgSlot /\ call.op = "add" /\ ~ is_fixnum(slot[s]) => slot[s] - WordSize \in ToHeads
    BY RootsVisitedAll
  <2>2. CASE s \in ArgSlot
    <3>1. ValueOf(s) = AbsArg(s)
      BY <2>2 DEF ValueOf
    <3>2. call.op = "add" /\ ~ is_fixnum(slot[s]) /\ RefTo(slot[s] - WordSize) = <<"ref", i>>
      BY <1>3, <2>1, <2>2, <3>1 DEF AbsArg, AbsWord
    <3> QED BY <1>2, <2>1, <2>2, <3>2
  <2>3. CASE s \notin ArgSlot
    <3>1. IsRoot(s) /\ AbsWord(slot[s], alloc_area_fresh) = <<"ref", i>>
      BY <1>3, <2>1, <2>3 DEF ValueOf
    <3>2. is_allocated(slot[s]) /\ RefTo(alloc_area_fresh + slot[s]) = <<"ref", i>>
      BY <3>1 DEF AbsWord
    <3> QED BY <1>2, <2>1, <2>3, <3>1, <3>2
  <2> QED BY <2>2, <2>3
<1>4. ASSUME NEW h \in ToHeads, NEW k \in 1..mem[h].size, AbsField(h, k) = <<"ref", i>>
      PROVE  \E g \in ToHeads : mem[g].id = i
  <2>1. /\ AreaOfField(h, k) = alloc_area_fresh
        /\ mem[h].type = TYPE_PAIR /\ is_allocated(mem[h].body[k]) =>
                alloc_area_fresh + mem[h].body[k] \in ToHeads
    BY FieldsVisitedAll
  <2>2. ~ TYPE_IS_BINARY(mem[h].type) /\ AbsWord(mem[h].body[k], alloc_area_fresh) = <<"ref", i>>
    BY <1>4, <2>1 DEF AbsField
  <2>3. is_allocated(mem[h].body[k]) /\ RefTo(alloc_area_fresh + mem[h].body[k]) = <<"ref", i>>
    BY <2>2 DEF AbsWord
  <2>4. mem[h].type = TYPE_PAIR
    BY <1>1, <2>2, PairsAndBignums
  <2> QED BY <1>2, <2>1, <2>3, <2>4
<1> QED BY <1>3, <1>4

LEMMA CopiesAreReachable ==
    ASSUME HostContract, IInv, IdsOK, ReachOK, GcFlip
    PROVE  Store!Reachable = {mem[h].id : h \in ToHeads}
<1> DEFINE S == {mem[h].id : h \in ToHeads}
<1>1. S \subseteq Store!Reachable
  BY DEF ReachOK, GcFlip, InGC
<1>2. \A h \in ToHeads : AbsObjects[mem[h].id] = AbsObject(h) /\ mem[h].id \in DOMAIN AbsObjects
  BY ObjectsRead DEF ReadAtHeads, Latest, ToHeads
<1>3. Store!RefsIn(AbsValue) \subseteq S
  <2>1. SUFFICES ASSUME NEW i \in Store!RefsIn(AbsValue) PROVE i \in S
    OBVIOUS
  <2>2. PICK s \in Slot : ValueOf(s) = <<"ref", i>>
    <3>1. AbsValue = [s \in Slot |-> ValueOf(s)]
      BY DEF AbsValue, ValueOf
    <3> QED BY <2>1, <3>1 DEF Store!RefsIn, Store!Ref
  <2> QED BY <2>2, CopiedReferences
<1>4. ASSUME NEW i \in S PROVE Store!RefsIn(AbsObjects[i].body) \subseteq S
  <2>1. PICK h \in ToHeads : i = mem[h].id
    OBVIOUS
  <2>2. SUFFICES ASSUME NEW j \in Store!RefsIn(AbsObjects[i].body) PROVE j \in S
    OBVIOUS
  <2>3. AbsObjects[i].body = [k \in 1..mem[h].size |-> AbsField(h, k)]
    <3>1. AbsObject(h).body = [k \in 1..mem[h].size |-> AbsField(h, k)]
      BY DEF AbsObject
    <3> QED BY <1>2, <2>1, <3>1
  <2>4. PICK k \in 1..mem[h].size : AbsField(h, k) = <<"ref", j>>
    BY <2>2, <2>3 DEF Store!RefsIn, Store!Ref
  <2> QED BY <2>4, CopiedReferences
<1>5. Store!Reachable \subseteq S
  <2> HIDE DEF S
  <2> QED BY <1>3, <1>4, ReachableHolds DEF ReachableIsLeast
<1> QED BY <1>1, <1>5

\* The flip changes the area, not what the client reads there.
LEMMA FlippedValues ==
    ASSUME HostContract, IInv, GcFlip
    PROVE  AbsValue' = AbsValue
<1>1. /\ DOMAIN mem' = ToHeads /\ \A h \in ToHeads : mem'[h] = mem[h]
      /\ pc' = "slow" /\ alloc_area' = alloc_area_fresh
      /\ UNCHANGED <<slot, roots, call>> /\ ToHeads \subseteq DOMAIN mem
  BY FlippedHeap, HeadFacts DEF GcFlip
<1>2. ASSUME NEW h \in ToHeads PROVE RefTo(h)' = RefTo(h)
  BY <1>1 DEF RefTo
<1>3. ASSUME NEW s \in Slot PROVE ValueOf(s)' = ValueOf(s)
  <2>1. /\ IsRoot(s) => AreaOfRoot(s) = alloc_area_fresh
        /\ IsRoot(s) /\ s \notin ArgSlot /\ is_allocated(slot[s]) => alloc_area_fresh + slot[s] \in ToHeads
        /\ s \in ArgSlot /\ call.op = "cons" => ~ is_allocated(slot[s])
        /\ s \in ArgSlot /\ call.op = "add" /\ ~ is_fixnum(slot[s]) => slot[s] - WordSize \in ToHeads
    BY RootsVisitedAll
  <2>2. /\ IsRoot(s)' <=> IsRoot(s)
        /\ AreaOfRoot(s)' = alloc_area_fresh
    BY <1>1 DEF IsRoot, roots, AreaOfRoot, RootDone
  <2>3. CASE s \in ArgSlot
    <3>1. call.op = "cons" => AbsWord(slot[s], alloc_area)' = AbsWord(slot[s], alloc_area)
      BY <1>1, <2>1, <2>3 DEF AbsWord
    <3>2. call.op = "add" /\ ~ is_fixnum(slot[s]) => RefTo(slot[s] - WordSize)' = RefTo(slot[s] - WordSize)
      <4> SUFFICES ASSUME call.op = "add", ~ is_fixnum(slot[s])
                   PROVE  RefTo(slot[s] - WordSize)' = RefTo(slot[s] - WordSize)
        OBVIOUS
      <4>1. PICK h \in ToHeads : h = slot[s] - WordSize
        BY <2>1, <2>3
      <4>2. RefTo(slot[s] - WordSize)' = RefTo(h)'
        BY <1>1, <4>1 DEF RefTo
      <4> QED BY <1>2, <4>1, <4>2
    <3> QED BY <1>1, <2>3, <3>1, <3>2 DEF ValueOf, AbsArg
  <2>4. CASE s \notin ArgSlot /\ IsRoot(s)
    <3>1. CASE is_allocated(slot[s])
      <4>1. PICK h \in ToHeads : h = alloc_area_fresh + slot[s]
        BY <2>1, <2>4, <3>1
      <4>2. AbsWord(slot[s], AreaOfRoot(s)) = RefTo(h)
        BY <2>1, <2>4, <3>1, <4>1 DEF AbsWord
      <4>3. AbsWord(slot[s], AreaOfRoot(s))' = RefTo(h)'
        BY <1>1, <2>2, <3>1, <4>1 DEF AbsWord, RefTo
      <4> QED BY <1>2, <2>2, <2>4, <4>2, <4>3 DEF ValueOf
    <3>2. CASE ~ is_allocated(slot[s])
      BY <1>1, <2>2, <2>4, <3>2 DEF ValueOf, AbsWord
    <3> QED BY <3>1, <3>2
  <2>5. CASE s \notin ArgSlot /\ ~ IsRoot(s)
    BY <2>2, <2>5 DEF ValueOf
  <2> QED BY <2>3, <2>4, <2>5
<1> QED BY <1>3, SameValues

\* The objects after the flip are those that can be reached, unchanged.
LEMMA FlippedObjects ==
    ASSUME HostContract, IInv, IInv', CopiesOK, CopiesOK', ReachOK, GcFlip
    PROVE  AbsObjects' = [i \in Store!Reachable |-> AbsObjects[i]]
<1>1. /\ DOMAIN mem' = ToHeads /\ \A h \in ToHeads : mem'[h] = mem[h]
      /\ FromHeads' = ToHeads /\ ToHeads' = {}
      /\ pc' = "slow" /\ alloc_area' = alloc_area_fresh /\ ToHeads \subseteq DOMAIN mem
  BY FlippedHeap, HeadFacts DEF GcFlip
<1>2. Latest' = ToHeads
  <2>1. \A h \in ToHeads : mem[h].numwords = mem[h].size /\ mem[h].size # 0
    BY <1>1, HeadFacts DEF IInv, ForwardOK
  <2> QED BY <1>1, <2>1 DEF Latest
<1>3. ASSUME NEW h \in ToHeads PROVE AbsObject(h)' = AbsObject(h)
  <2>1. ASSUME NEW k \in 1..mem[h].size PROVE AbsField(h, k)' = AbsField(h, k)
    <3>1. /\ AreaOfField(h, k) = alloc_area_fresh
          /\ mem[h].type = TYPE_PAIR /\ is_allocated(mem[h].body[k]) =>
                  alloc_area_fresh + mem[h].body[k] \in ToHeads
      BY FieldsVisitedAll
    <3>2. AreaOfField(h, k)' = alloc_area_fresh
      BY <1>1 DEF AreaOfField, InGC
    <3>3. CASE TYPE_IS_BINARY(mem[h].type)
      BY <1>1, <3>3 DEF AbsField
    <3>4. CASE ~ TYPE_IS_BINARY(mem[h].type)
      <4>1. mem[h].type = TYPE_PAIR
        BY <1>1, <3>4, PairsAndBignums
      <4>2. PICK v : v = mem[h].body[k]
        OBVIOUS
      <4>3. AbsField(h, k) = AbsWord(v, alloc_area_fresh)
        BY <3>1, <3>4, <4>2 DEF AbsField
      <4>4. CASE is_allocated(v)
        <5>1. PICK g \in ToHeads : g = alloc_area_fresh + v
          BY <3>1, <4>1, <4>2, <4>4
        <5>2. AbsField(h, k)' = RefTo(g)'
          BY <1>1, <3>2, <3>4, <4>2, <4>4, <5>1 DEF AbsField, AbsWord, RefTo
        <5>3. RefTo(g)' = RefTo(g)
          BY <1>1 DEF RefTo
        <5> QED BY <4>3, <4>4, <5>1, <5>2, <5>3 DEF AbsWord
      <4>5. CASE ~ is_allocated(v)
        BY <1>1, <3>4, <4>2, <4>3, <4>5 DEF AbsField, AbsWord
      <4> QED BY <4>4, <4>5
    <3> QED BY <3>3, <3>4
  <2> QED BY <1>1, <2>1, ObjectKept
<1>4. Store!Reachable = {mem[h].id : h \in ToHeads}
  BY CopiesAreReachable DEF CopiesOK
<1>5. \A h \in ToHeads : AbsObjects[mem[h].id] = AbsObject(h)
  BY ObjectsRead DEF ReadAtHeads, Latest, CopiesOK
<1>6. /\ DOMAIN AbsObjects' = {mem'[h].id : h \in Latest'}
      /\ \A h \in Latest' : AbsObjects'[mem'[h].id] = AbsObject(h)'
  <2>1. ReadAtHeads'
    BY ObjectsRead, PTL DEF CopiesOK
  <2> QED BY <2>1 DEF ReadAtHeads
<1>7. DOMAIN AbsObjects' = Store!Reachable
  BY <1>1, <1>2, <1>4, <1>6
<1>8. ASSUME NEW i \in Store!Reachable PROVE AbsObjects'[i] = AbsObjects[i]
  <2>1. PICK h \in ToHeads : mem[h].id = i
    BY <1>4
  <2> QED BY <1>1, <1>2, <1>3, <1>5, <1>6, <2>1
<1>9. AbsObjects' = [i \in DOMAIN AbsObjects' |-> AbsObjects'[i]]
  BY DEF AbsObjects
<1> QED BY <1>7, <1>8, <1>9

LEMMA FlippedReach ==
    ASSUME HostContract, IInv, IInv', CopiesOK, CopiesOK', ReachOK, GcFlip
    PROVE  ReachOK'
<1>1. /\ AbsValue' = AbsValue
      /\ AbsObjects' = [i \in Store!Reachable |-> AbsObjects[i]]
  BY FlippedValues, FlippedObjects
<1>2. ReachableIsLeast /\ ReachableIsLeast'
  BY ReachableHolds, PTL
<1>3. PICK R : R = Store!Reachable
  OBVIOUS
<1>4. PICK S : S = Store!Reachable'
  OBVIOUS
<1>5. DOMAIN AbsObjects' = R /\ \A i \in R : AbsObjects'[i] = AbsObjects[i]
  BY <1>1, <1>3
<1>6. /\ R \subseteq DOMAIN AbsObjects /\ Store!RefsIn(AbsValue) \subseteq R
      /\ \A i \in R : Store!RefsIn(AbsObjects[i].body) \subseteq R
  BY <1>2, <1>3 DEF ReachableIsLeast
<1>7. /\ S \subseteq R /\ Store!RefsIn(AbsValue)' \subseteq S
      /\ \A i \in S : Store!RefsIn(AbsObjects[i].body)' \subseteq S
  BY <1>2, <1>4, <1>5 DEF ReachableIsLeast
<1>8. Store!RefsIn(AbsValue) \subseteq S
  <2>1. \A i \in Store!RefsIn(AbsValue) : i \in Store!RefsIn(AbsValue)'
    BY <1>1, <1>5, <1>6 DEF Store!RefsIn
  <2> QED BY <1>7, <2>1
<1>9. ASSUME NEW i \in S PROVE Store!RefsIn(AbsObjects[i].body) \subseteq S
  <2>1. \A j \in Store!RefsIn(AbsObjects[i].body) : j \in Store!RefsIn(AbsObjects[i].body)'
    BY <1>5, <1>6, <1>7 DEF Store!RefsIn
  <2> QED BY <1>7, <2>1
<1>10. R \subseteq S
  BY <1>2, <1>3, <1>8, <1>9 DEF ReachableIsLeast
<1>11. R = {mem[h].id : h \in ToHeads}
  BY <1>3, CopiesAreReachable DEF CopiesOK
<1>12. /\ DOMAIN mem' = ToHeads /\ \A h \in ToHeads : mem'[h] = mem[h]
       /\ ~ InGC'
  BY FlippedHeap DEF InGC
<1>13. \A h \in DOMAIN mem' : mem'[h].id \in Store!Reachable'
  BY <1>4, <1>10, <1>11, <1>12
<1> QED BY <1>12, <1>13 DEF ReachOK

-----------------------------------------------------------------------------
(***************************************************************************)
(* The collector: its steps leave the store as it is, or collect.          *)
(***************************************************************************)
LEMMA GcStutters ==
    ASSUME HostContract, IInv, IInv', CopiesOK, GcStep, ~ GcFlip
    PROVE  AbsValue' = AbsValue /\ AbsObjects' = AbsObjects
BY StartGCStutters, GcRootStutters, GcRootsDoneStutters, GcScanFieldStutters, GcNextObjectStutters,
   GcNextRoundStutters DEF GcStep, CopiesOK

LEMMA VarsKept ==
    ASSUME UNCHANGED vars
    PROVE  AbsValue' = AbsValue /\ AbsObjects' = AbsObjects /\ AbsRequest' = AbsRequest /\ nextid' = nextid
<1> USE DEF vars, roots, areas, gcvars
<1>1. FromHeads' = FromHeads /\ ToHeads' = ToHeads
  BY DEF FromHeads, ToHeads, InArea, Extent
<1>2. AbsValue' = AbsValue
  BY DEF AbsValue, AbsArg, AbsWord, RefTo, IsRoot, AreaOfRoot, RootDone
<1>5. AbsObjects' = AbsObjects
  BY <1>1 DEF AbsObjects, HeadOf, AbsObject, AbsField, AbsWord, RefTo, AreaOfField, FieldDone, InGC
<1>6. AbsRequest' = AbsRequest /\ nextid' = nextid
  BY DEF AbsRequest
<1> QED BY <1>2, <1>5, <1>6

\* What has been copied can be reached.
LEMMA ReachStep ==
    ASSUME HostContract, IInv, IInv', CopiesOK, CopiesOK', ReachOK, [Next]_vars
    PROVE  ReachOK'
<1>1. ASSUME ~ InGC', pc' # "slow" PROVE ReachOK'
  BY <1>1 DEF ReachOK
<1>2. CASE UNCHANGED vars
  <2>1. Store!Reachable' = Store!Reachable
    BY <1>2, VarsKept, SameReachable
  <2>2. mem' = mem /\ ToHeads' = ToHeads /\ pc' = pc
    BY <1>2 DEF vars, areas, ToHeads, InArea, Extent
  <2> QED BY <2>1, <2>2 DEF ReachOK, InGC
<1>3. CASE ClientStep
  <2>1. pc' \in {"run", "die", "alloc"}
    BY <1>3 DEF ClientStep, Assign, ReadField, Push, PushFull, Pop, PopEmpty, Register,
       OutOfValRoots, Unregister, NoValRootsLeft, Cons, NewBignum, Add, AddNotInteger, Die
  <2> QED BY <1>1, <2>1 DEF InGC
<1>4. CASE PrimitiveStep
  <2>1. pc' \in {"run", "die", "fill"}
    BY <1>4 DEF PrimitiveStep, AllocFast, AllocSlow, OutOfMemory, FillCons, FillBignum, FillAdd,
       FillAddFixnum, ReturnObject, Return, Die
  <2> QED BY <1>1, <2>1 DEF InGC
<1>5. CASE GcFlip
  BY <1>5, FlippedReach
<1>6. CASE GcStep /\ ~ GcFlip
  <2>1. Store!Reachable' = Store!Reachable
    BY <1>6, GcStutters, SameReachable
  <2>2. pc' # "slow"
    BY <1>6 DEF GcStep, StartGC, GcRoot, GcRootsDone, GcScanField, GcNextObject, GcNextRound, FailAssert
  <2>3. CASE StartGC
    <3>1. ToHeads' = {}
      <4>1. ToHeads = {}
        BY <2>3 DEF IInv, HeapLayout, InGC, StartGC
      <4> QED BY <2>3, <4>1 DEF StartGC, ToHeads, InArea, Extent, areas
    <3> QED BY <2>2, <3>1 DEF ReachOK
  <2>4. CASE GcRoot
    <3>1. PICK w, o : w = RootWord(root) /\ o = Old(w)
      OBVIOUS
    <3> QED BY <2>1, <2>2, <2>4, <3>1, RootHandled, RootReached, HandledReach DEF CopiesOK
  <2>5. CASE GcScanField
    <3>1. PICK w, o : w = mem[ptr].body[1] /\ o = Old(w)
      OBVIOUS
    <3>2. mem[ptr].id \in Store!Reachable
      BY <2>5, ScanStep DEF ReachOK
    <3> QED BY <2>1, <2>2, <2>5, <3>1, <3>2, FieldHandled, FieldReached, HandledReach DEF CopiesOK
  <2>6. CASE GcRootsDone \/ GcNextObject \/ GcNextRound
    <3>1. InGC /\ mem' = mem /\ ToHeads' = ToHeads
      BY <2>6 DEF GcRootsDone, GcNextObject, GcNextRound, FailAssert, InGC, areas, ToHeads, InArea, Extent
    <3> QED BY <2>1, <2>2, <3>1 DEF ReachOK
  <2> QED BY <1>6, <2>3, <2>4, <2>5, <2>6 DEF GcStep
<1> QED BY <1>2, <1>3, <1>4, <1>5, <1>6 DEF Next

\* During a collection only what the client can reach is copied, and after it
\* nothing else is left.
THEOREM OnlyReachableKept ==
    ASSUME HostContract
    PROVE  Spec => []ReachOK
<1>1. Init => ReachOK
  BY DEF Init, ReachOK, InGC
<1>2. IInv /\ IInv' /\ CopiesOK /\ CopiesOK' /\ ReachOK /\ [Next]_vars => ReachOK'
  BY ReachStep
<1> QED BY <1>1, <1>2, InvariantHolds, CopiesHold, PTL DEF Spec

-----------------------------------------------------------------------------
(***************************************************************************)
(* Out of memory: what can be reached fills the area.                      *)
(***************************************************************************)
\* The words an object takes, as numbers of words from alloc_area_base.
Cells(h) == (h \div 2)..((h \div 2) + mem[h].size)

LEMMA CellFacts ==
    ASSUME HostContract, IInv, NEW h \in DOMAIN mem
    PROVE  /\ h \in Nat /\ h \div 2 \in Nat /\ h = 2 * (h \div 2)
           /\ mem[h].size \in Nat /\ Extent(h) = 2 * (mem[h].size + 1)
           /\ IsFiniteSet(Cells(h)) /\ Cardinality(Cells(h)) = mem[h].size + 1
<1>1. h \in Nat /\ h % 2 = 0 /\ mem[h].size \in Nat /\ Extent(h) = 2 * (mem[h].size + 1)
  BY HeadFacts, SizeFacts DEF IInv, ObjectsOK
<1>2. h \div 2 \in Nat /\ h = 2 * (h \div 2)
  BY <1>1
<1>3. PICK a \in Nat, m \in Nat : a = h \div 2 /\ m = mem[h].size
  BY <1>1, <1>2
<1>4. Cells(h) = a..(a + m)
  BY <1>3 DEF Cells
<1>5. IsFiniteSet(a..(a + m)) /\ Cardinality(a..(a + m)) = m + 1
  <2>1. /\ IsFiniteSet(a..(a + m))
        /\ Cardinality(a..(a + m)) = IF a > a + m THEN 0 ELSE (a + m) - a + 1
    BY FS_Interval
  <2> QED BY <2>1
<1> QED BY <1>1, <1>2, <1>3, <1>4, <1>5

LEMMA CellsDisjoint ==
    ASSUME HostContract, IInv, NEW g \in DOMAIN mem, NEW h \in DOMAIN mem, g # h
    PROVE  Cells(g) \cap Cells(h) = {}
<1>1. ASSUME NEW k \in DOMAIN mem, NEW l \in DOMAIN mem, k < l PROVE Cells(k) \cap Cells(l) = {}
  <2>1. k + Extent(k) <= l
    BY <1>1 DEF IInv, HeapLayout
  <2>2. PICK a \in Nat, b \in Nat, m \in Nat, n \in Nat :
           a = k \div 2 /\ b = l \div 2 /\ m = mem[k].size /\ n = mem[l].size
    BY CellFacts
  <2>3. a + m < b
    <3>1. k = 2 * a /\ l = 2 * b /\ Extent(k) = 2 * (m + 1)
      BY <2>2, CellFacts
    <3> QED BY <2>1, <3>1
  <2>4. (a..(a + m)) \cap (b..(b + n)) = {}
    BY <2>3
  <2> QED BY <2>2, <2>4 DEF Cells
<1>2. g \in Nat /\ h \in Nat
  BY CellFacts
<1>3. g < h \/ h < g
  BY <1>2
<1> QED BY <1>1, <1>3

\* After a collection the objects take all words from alloc_ptr to the end.
LEMMA HeapCells ==
    ASSUME HostContract, IInv, CompactOK, pc = "slow"
    PROVE  /\ UNION {Cells(h) : h \in DOMAIN mem} =
                (alloc_ptr \div 2)..((alloc_area + alloc_size) \div 2 - 1)
           /\ alloc_ptr \in Nat /\ alloc_ptr = 2 * (alloc_ptr \div 2)
           /\ alloc_area + alloc_size \in Nat
           /\ alloc_area + alloc_size = 2 * ((alloc_area + alloc_size) \div 2)
           /\ alloc_ptr <= alloc_area + alloc_size
<1>1. PICK E : E = alloc_area + alloc_size
  OBVIOUS
<1>2. /\ alloc_ptr \in Nat /\ alloc_ptr % 2 = 0 /\ alloc_ptr <= E
      /\ E \in Nat /\ E % 2 = 0
  <2>1. alloc_area \in Nat /\ alloc_area % 2 = 0 /\ alloc_size \in Nat /\ alloc_size % 2 = 0
    BY AreaFacts, SizeFacts DEF IInv
  <2> QED BY <1>1, <2>1 DEF IInv, TypeOK, AllocOK
<1>3. PICK lo \in Nat, hi \in Nat : /\ lo = alloc_ptr \div 2 /\ hi = E \div 2
                                    /\ alloc_ptr = 2 * lo /\ E = 2 * hi
  BY <1>2
<1>4. /\ FromHeads = DOMAIN mem
      /\ \A h \in DOMAIN mem : alloc_ptr <= h /\ h + Extent(h) <= E
      /\ alloc_ptr \in DOMAIN mem \cup {E}
      /\ \A h \in DOMAIN mem : h + Extent(h) \in DOMAIN mem \cup {E}
  <2>1. FromHeads = DOMAIN mem
    BY QuietHeap DEF InGC
  <2>2. \A h \in FromHeads : alloc_ptr <= h /\ h + Extent(h) <= E
    BY <1>1 DEF IInv, HeapLayout, FromHeads, InArea
  <2> QED BY <1>1, <2>1, <2>2 DEF CompactOK
<1>5. ASSUME NEW h \in DOMAIN mem, NEW x \in Cells(h) PROVE x \in lo..(hi - 1)
  <2>1. PICK a \in Nat, m \in Nat : /\ a = h \div 2 /\ m = mem[h].size /\ h = 2 * a
                                    /\ Extent(h) = 2 * (m + 1)
    BY CellFacts
  <2>2. x \in a..(a + m)
    BY <1>5, <2>1 DEF Cells
  <2>3. 2 * lo <= 2 * a /\ 2 * a + 2 * (m + 1) <= 2 * hi
    BY <1>3, <1>4, <2>1
  <2> QED BY <2>2, <2>3
<1>6. ASSUME NEW x \in lo..(hi - 1) PROVE \E h \in DOMAIN mem : x \in Cells(h)
  <2> DEFINE Below == {d \in Nat : \E h \in DOMAIN mem : h <= 2 * x /\ d = 2 * x - h}
  <2>1. alloc_ptr \in DOMAIN mem
    <3>1. alloc_ptr # E
      BY <1>3
    <3> QED BY <1>4, <3>1
  <2>2. Below # {}
    <3>1. alloc_ptr <= 2 * x /\ 2 * x - alloc_ptr \in Nat
      BY <1>3
    <3> QED BY <2>1, <3>1
  <2>3. PICK d \in Below : \A k \in Below : d <= k
    <3>1. Below \subseteq Nat
      OBVIOUS
    <3> HIDE DEF Below
    <3> QED BY <2>2, <3>1, LeastNat
  <2>4. PICK h \in DOMAIN mem : h <= 2 * x /\ d = 2 * x - h
    OBVIOUS
  <2>5. PICK a \in Nat, m \in Nat : /\ a = h \div 2 /\ m = mem[h].size /\ h = 2 * a
                                    /\ Extent(h) = 2 * (m + 1)
    BY CellFacts
  <2>6. CASE 2 * x < h + Extent(h)
    <3>1. x \in a..(a + m)
      BY <2>4, <2>5, <2>6
    <3> QED BY <2>5, <3>1 DEF Cells
  <2>7. CASE ~ (2 * x < h + Extent(h))
    <3>1. PICK n \in Nat : n = h + Extent(h)
      BY <2>5
    <3>2. n <= 2 * x /\ n > h /\ n # E
      <4>1. n = 2 * a + 2 * (m + 1) /\ ~ (2 * x < n)
        BY <2>5, <2>7, <3>1
      <4>2. 2 * x < E
        BY <1>3
      <4>3. x \in Nat
        BY <1>3
      <4>4. n <= 2 * x
        BY ONLY <4>1, <4>3, n \in Nat
      <4>5. n > h
        <5>1. n = 2 * a + 2 * (m + 1) /\ h = 2 * a
          BY <2>5, <4>1
        <5> QED BY ONLY <5>1, a \in Nat, m \in Nat
      <4>6. n # E
        BY ONLY <1>2, <4>2, <4>3, <4>4, n \in Nat
      <4> QED BY <4>4, <4>5, <4>6
    <3>3. n \in DOMAIN mem
      BY <1>4, <3>1, <3>2
    <3>4. 2 * x - n \in Nat /\ 2 * x - n < d
      BY <2>4, <2>5, <3>2
    <3>5. 2 * x - n \in Below
      BY <3>2, <3>3, <3>4
    <3> HIDE DEF Below
    <3>6. d <= 2 * x - n
      BY <2>3, <3>5
    <3>7. d \in Nat
      BY <2>4, <2>5
    <3> QED BY <3>4, <3>6, <3>7
  <2> QED BY <2>6, <2>7
<1>7. UNION {Cells(h) : h \in DOMAIN mem} = lo..(hi - 1)
  BY <1>5, <1>6
<1> QED BY <1>1, <1>2, <1>3, <1>7

\* The room that what can be reached takes is what the collection left.
LEMMA WordsInHeap ==
    ASSUME HostContract, IInv, CopiesOK, ReachOK, pc = "slow"
    PROVE  /\ Store!WordsIn(Store!Reachable) \in Nat
           /\ 2 * Store!WordsIn(Store!Reachable) = (alloc_area + alloc_size) - alloc_ptr
<1>1. /\ FromHeads = DOMAIN mem /\ ToHeads = {} /\ Latest = DOMAIN mem
  <2>1. FromHeads = DOMAIN mem /\ ToHeads = {} /\ \A h \in DOMAIN mem : mem[h].numwords # 0
    BY QuietHeap DEF InGC
  <2> QED BY <2>1 DEF Latest
<1>2. PICK R : R = Store!Reachable
  OBVIOUS
<1>3. /\ R = {mem[h].id : h \in DOMAIN mem} /\ IsFiniteSet(R)
      /\ \A h \in DOMAIN mem : AbsObjects[mem[h].id] = AbsObject(h)
  <2>1. /\ DOMAIN AbsObjects = {mem[h].id : h \in DOMAIN mem}
        /\ \A h \in DOMAIN mem : AbsObjects[mem[h].id] = AbsObject(h)
    BY <1>1, ObjectsRead DEF ReadAtHeads, CopiesOK
  <2>2. R \subseteq DOMAIN AbsObjects
    BY <1>2, ReachableHolds DEF ReachableIsLeast
  <2>3. \A h \in DOMAIN mem : mem[h].id \in R
    BY <1>2 DEF ReachOK
  <2>4. R = DOMAIN AbsObjects
    BY <2>1, <2>2, <2>3
  <2> QED BY <2>1, <2>4, FiniteHeap
<1>4. PICK head : head = [i \in R |-> HeadOf(i)]
  OBVIOUS
<1>5. /\ \A i \in R : head[i] \in DOMAIN mem /\ mem[head[i]].id = i
      /\ \A h \in DOMAIN mem : head[mem[h].id] = h
  <2>1. \A h \in DOMAIN mem : HeadOf(mem[h].id) = h /\ mem[h].id \in R
    BY <1>1, <1>3, LatestHead DEF CopiesOK
  <2> QED BY <1>3, <1>4, <2>1
<1>6. PICK size : size = [i \in R |-> mem[head[i]].size + 1]
  OBVIOUS
<1>7. \A i \in R : Store!SizeOf(i) = size[i]
  <2> SUFFICES ASSUME NEW i \in R PROVE Store!SizeOf(i) = size[i]
    OBVIOUS
  <2>1. AbsObjects[i] = AbsObject(head[i])
    BY <1>3, <1>5
  <2>2. PICK m \in Nat : m = mem[head[i]].size
    BY <1>5, CellFacts
  <2>3. DOMAIN AbsObjects[i].body = 1..m
    BY <2>1, <2>2 DEF AbsObject
  <2>4. Cardinality(1..m) = m
    <3>1. Cardinality(1..m) = IF 1 > m THEN 0 ELSE m - 1 + 1
      BY FS_Interval
    <3> QED BY <3>1
  <2>5. Store!SizeOf(i) = 1 + m
    BY <2>3, <2>4, StoreCardinality DEF Store!SizeOf
  <2> QED BY <1>6, <2>2, <2>5
<1>8. PICK g : g = [S \in SUBSET R |-> Cardinality(UNION {Cells(head[i]) : i \in S})]
  OBVIOUS
<1>9. g[{}] = 0
  <2>1. UNION {Cells(head[i]) : i \in {}} = {}
    OBVIOUS
  <2> QED BY <1>8, <2>1, FS_EmptySet
<1>10. ASSUME NEW S \in SUBSET R, NEW i \in S PROVE g[S] = size[i] + g[S \ {i}]
  <2>1. PICK A : A = UNION {Cells(head[j]) : j \in S}
    OBVIOUS
  <2>2. PICK B : B = UNION {Cells(head[j]) : j \in S \ {i}}
    OBVIOUS
  <2>3. PICK C : C = Cells(head[i])
    OBVIOUS
  <2>4. A = C \cup B
    BY <2>1, <2>2, <2>3
  <2>5. C \cap B = {}
    <3>1. \A j \in S \ {i} : C \cap Cells(head[j]) = {}
      BY <1>5, <2>3, CellsDisjoint
    <3> QED BY <2>2, <3>1
  <2>6. IsFiniteSet(C) /\ Cardinality(C) = size[i] /\ size[i] \in Nat
    BY <1>5, <1>6, <2>3, CellFacts
  <2>7. IsFiniteSet(B)
    <3>1. B \subseteq UNION {Cells(h) : h \in DOMAIN mem}
      BY <1>5, <2>2
    <3>2. UNION {Cells(h) : h \in DOMAIN mem} =
                (alloc_ptr \div 2)..((alloc_area + alloc_size) \div 2 - 1)
          /\ alloc_ptr \in Nat /\ alloc_area + alloc_size \in Nat
      BY HeapCells DEF CopiesOK
    <3>3. PICK a \in Int, b \in Int : a = alloc_ptr \div 2 /\ b = (alloc_area + alloc_size) \div 2 - 1
      BY <3>2
    <3>4. IsFiniteSet(a..b)
      BY FS_Interval
    <3> QED BY <3>1, <3>2, <3>3, <3>4, FS_Subset
  <2>8. Cardinality(A) = Cardinality(C) + Cardinality(B)
    <3>1. Cardinality(C \cup B) = Cardinality(C) + Cardinality(B) - Cardinality(C \cap B)
      BY <2>6, <2>7, FS_Union
    <3>2. Cardinality(C \cap B) = 0 /\ Cardinality(B) \in Nat
      BY <2>5, <2>7, FS_EmptySet, FS_CardinalityType
    <3> QED BY <2>4, <2>6, <3>1, <3>2
  <2>9. g[S] = Cardinality(A) /\ g[S \ {i}] = Cardinality(B)
    BY <1>8, <2>1, <2>2
  <2> QED BY <2>6, <2>8, <2>9
<1>11. Store!WordsIn(R) = g[R]
  <2> DEFINE total == CHOOSE t : t = [S \in SUBSET R |->
                          IF S = {} THEN 0
                          ELSE LET i == CHOOSE j \in S : TRUE IN Store!SizeOf(i) + t[S \ {i}]]
  <2>1. g = [S \in SUBSET R |->
                IF S = {} THEN 0
                ELSE LET i == CHOOSE j \in S : TRUE IN Store!SizeOf(i) + g[S \ {i}]]
    <3>1. ASSUME NEW S \in SUBSET R
          PROVE  g[S] = IF S = {} THEN 0
                        ELSE LET i == CHOOSE j \in S : TRUE IN Store!SizeOf(i) + g[S \ {i}]
      <4>1. CASE S = {}
        BY <1>9, <4>1
      <4>2. CASE S # {}
        <5>1. PICK i \in S : i = CHOOSE j \in S : TRUE
          BY <4>2
        <5>2. g[S] = size[i] + g[S \ {i}] /\ size[i] = Store!SizeOf(i)
          BY <1>7, <1>10
        <5> QED BY <4>2, <5>1, <5>2
      <4> QED BY <4>1, <4>2
    <3>2. g = [S \in SUBSET R |-> g[S]]
      BY <1>8
    <3> QED BY <3>1, <3>2, Zenon
  <2>2. total = [S \in SUBSET R |->
                IF S = {} THEN 0
                ELSE LET i == CHOOSE j \in S : TRUE IN Store!SizeOf(i) + total[S \ {i}]]
    BY <2>1
  <2>3. Store!WordsIn(R) = total[R]
    BY DEF Store!WordsIn
  <2> HIDE DEF total
  <2>4. PICK t : t = total
    OBVIOUS
  <2>5. t = [S \in SUBSET R |->
                IF S = {} THEN 0
                ELSE size[CHOOSE j \in S : TRUE] + t[S \ {CHOOSE j \in S : TRUE}]]
    <3>1. ASSUME NEW S \in SUBSET R
          PROVE  t[S] = IF S = {} THEN 0
                        ELSE size[CHOOSE j \in S : TRUE] + t[S \ {CHOOSE j \in S : TRUE}]
      <4>1. CASE S = {}
        BY <2>2, <2>4, <4>1
      <4>2. CASE S # {}
        <5>1. PICK i \in S : i = CHOOSE j \in S : TRUE
          BY <4>2
        <5>2. t[S] = Store!SizeOf(i) + t[S \ {i}]
          BY <2>2, <2>4, <4>2, <5>1
        <5> QED BY <1>7, <4>2, <5>1, <5>2
      <4> QED BY <4>1, <4>2
    <3>2. t = [S \in SUBSET R |-> t[S]]
      BY <2>2, <2>4
    <3> QED BY <3>1, <3>2, Zenon
  <2>6. IsSum(t, R, size)
    BY ONLY <2>5 DEF IsSum
  <2>7. IsMeasure(g, R, size)
    BY ONLY <1>9, <1>10 DEF IsMeasure
  <2>8. t[R] = g[R]
    BY ONLY <1>3, <2>6, <2>7, SumIsMeasure
  <2> QED BY <2>3, <2>4, <2>8
<1>12. g[R] \in Nat /\ 2 * g[R] = (alloc_area + alloc_size) - alloc_ptr
  <2>1. UNION {Cells(head[i]) : i \in R} = UNION {Cells(h) : h \in DOMAIN mem}
    BY <1>3, <1>5
  <2>2. PICK lo, hi : lo = alloc_ptr \div 2 /\ hi = (alloc_area + alloc_size) \div 2
    OBVIOUS
  <2>3. /\ UNION {Cells(h) : h \in DOMAIN mem} = lo..(hi - 1)
        /\ alloc_ptr \in Nat /\ alloc_ptr = 2 * lo
        /\ alloc_area + alloc_size \in Nat
        /\ alloc_area + alloc_size = 2 * hi
        /\ alloc_ptr <= alloc_area + alloc_size
    BY <2>2, HeapCells DEF CopiesOK
  <2>4. lo \in Nat /\ hi \in Nat /\ lo <= hi
    BY <2>2, <2>3
  <2>5. Cardinality(lo..(hi - 1)) = hi - lo
    <3>1. hi - 1 \in Int /\ lo \in Int
      BY <2>4
    <3>2. Cardinality(lo..(hi - 1)) = IF lo > hi - 1 THEN 0 ELSE (hi - 1) - lo + 1
      BY <3>1, FS_Interval
    <3> QED BY <2>4, <3>2
  <2>6. g[R] = hi - lo
    BY <1>8, <2>1, <2>3, <2>5
  <2>7. PICK p \in Nat, e \in Nat : p = alloc_ptr /\ e = alloc_area + alloc_size
    BY <2>3
  <2>8. p = 2 * lo /\ e = 2 * hi
    BY <2>3, <2>7
  <2>9. g[R] \in Nat /\ 2 * g[R] = e - p
    BY ONLY <2>4, <2>6, <2>8
  <2> QED BY <2>7, <2>9, Zenon
<1> QED BY <1>2, <1>11, <1>12

-----------------------------------------------------------------------------
(***************************************************************************)
(* The client's steps are steps of the store.                              *)
(***************************************************************************)
\* The word of a root slot as the client sees it.
RootAbs(s) == IF IsRoot(s) THEN AbsWord(slot[s], alloc_area) ELSE Store!None

\* The state a client step starts from and the one it leads to.
LEMMA ClientRead ==
    ASSUME HostContract, IInv, pc = "run", UNCHANGED heapvars, pc' \in {"run", "die", "alloc"}
    PROVE  /\ AbsObjects' = AbsObjects /\ nextid' = nextid
           /\ AbsRequest = Store!Idle
           /\ pc' = "run" => AbsRequest' = Store!Idle
           /\ AbsValue = [s \in Slot |-> ValueOf(s)]
           /\ AbsValue' = [s \in Slot |-> ValueOf(s)']
           /\ \A s \in Slot : ValueOf(s) = IF s \in ArgSlot THEN Store!None ELSE RootAbs(s)
           /\ \A s \in Slot \ ArgSlot :
                ValueOf(s)' = IF IsRoot(s)' THEN AbsWord(slot'[s], alloc_area) ELSE Store!None
           /\ call' = NoCall => \A s \in ArgSlot : ValueOf(s)' = Store!None
<1>1. ptr_roots = {} /\ call = NoCall /\ ~ InGC /\ ~ InGC'
  BY RunFacts DEF InGC
<1>2. alloc_area' = alloc_area /\ alloc_area_fresh' = alloc_area_fresh /\ mem' = mem /\ nextid' = nextid
  BY DEF heapvars, areas
<1>3. FromHeads' = FromHeads /\ ToHeads' = ToHeads
  BY <1>2 DEF FromHeads, ToHeads, InArea, Extent
<1>4. AbsObjects' = AbsObjects
  <2>1. \A i : HeadOf(i)' = HeadOf(i)
    BY <1>2, <1>3 DEF HeadOf
  <2>2. ASSUME NEW i PROVE AbsObject(HeadOf(i))' = AbsObject(HeadOf(i))
    BY <1>1, <1>2, <2>1 DEF AbsObject, AbsField, AbsWord, RefTo, AreaOfField
  <2>3. {mem'[h].id : h \in DOMAIN mem'} = {mem[h].id : h \in DOMAIN mem}
    BY <1>2
  <2> QED BY <2>2, <2>3 DEF AbsObjects
<1>5. /\ AbsRequest = Store!Idle
      /\ pc' = "run" => AbsRequest' = Store!Idle
  BY DEF AbsRequest, Store!Idle
<1>6. /\ AbsValue = [s \in Slot |-> ValueOf(s)]
      /\ AbsValue' = [s \in Slot |-> ValueOf(s)']
  BY DEF AbsValue, ValueOf
<1>7. \A s \in Slot : AreaOfRoot(s) = alloc_area /\ AreaOfRoot(s)' = alloc_area
  BY <1>1, <1>2 DEF AreaOfRoot, RootDone, InGC
<1>8. \A s \in Slot : ValueOf(s) = IF s \in ArgSlot THEN Store!None ELSE RootAbs(s)
  BY <1>1, <1>7 DEF ValueOf, AbsArg, NoCall, RootAbs, Store!None
<1>9. \A s \in Slot \ ArgSlot :
         ValueOf(s)' = IF IsRoot(s)' THEN AbsWord(slot'[s], alloc_area) ELSE Store!None
  <2> SUFFICES ASSUME NEW s \in Slot \ ArgSlot
               PROVE  ValueOf(s)' = IF IsRoot(s)' THEN AbsWord(slot'[s], alloc_area) ELSE Store!None
    OBVIOUS
  <2>1. AbsWord(slot[s], AreaOfRoot(s))' = AbsWord(slot'[s], alloc_area)
    BY <1>2, <1>7 DEF AbsWord, RefTo
  <2> QED BY <2>1 DEF ValueOf, Store!None
<1>10. call' = NoCall => \A s \in ArgSlot : ValueOf(s)' = Store!None
  BY DEF ValueOf, AbsArg, NoCall, Store!None
<1> QED BY <1>2, <1>4, <1>5, <1>6, <1>8, <1>9, <1>10

\* What the client has in its hands is what the store says it holds.
LEMMA HeldWords ==
    ASSUME HostContract, IInv, pc = "run", NEW v \in ClientWords
    PROVE  AbsWord(v, alloc_area) \in Store!Held
<1>1. CASE v \in Immediates
  <2>1. ~ is_allocated(v)
    BY <1>1, ConstantsOK DEF ConstantsOK
  <2> QED BY <1>1, <2>1 DEF AbsWord, Store!Held, Store!Imm
<1>2. CASE v \notin Immediates
  <2>1. PICK s \in Slot : Client(s) /\ v = slot[s]
    BY <1>2 DEF ClientWords
  <2>2. AbsValue[s] = AbsWord(v, alloc_area)
    <3>1. s \notin ArgSlot /\ IsRoot(s) /\ ~ RootDone(s)
      BY <2>1 DEF Client, RootDone
    <3> QED BY <2>1, <3>1 DEF AbsValue, AreaOfRoot
  <2>3. s \in Store!Client
    BY <2>1 DEF Store!Client, Client, ArgSlot
  <2>4. AbsWord(v, alloc_area) # Store!None
    BY DEF AbsWord, RefTo, Store!None
  <2> QED BY <2>2, <2>3, <2>4 DEF Store!Held
<1> QED BY <1>1, <1>2

\* Slots of the store's client, and values that change in one slot.
LEMMA ClientSlots ==
    /\ Store!Client = Slot \ ArgSlot
    /\ \A s \in Writable : s \in Store!Client /\ IsRoot(s)
    /\ \A r \in ClientRegs : r \in Store!Client /\ \A n \in Nat : r # ArgB + n
    /\ \A n \in 1..stacklen : ArgB + n \in Store!Client
    /\ \A n \in 0..(VM_NUM_VAL_ROOTS - 1) : 5 + n \in Store!Client
<1>1. Store!Client = Slot \ ArgSlot
  BY DEF Store!Client, ArgSlot
<1>2. \A r \in ClientRegs, n \in Nat : r # ArgB + n
  BY SlotRanges, ConstantsOK DEF ConstantsOK, RegSlot, ArgB
<1> QED BY <1>1, <1>2, SlotRanges DEF Writable, Client

LEMMA SetStep ==
    ASSUME HostContract, IInv, pc = "run", pc' = "run", UNCHANGED <<heapvars, call, ptr_roots>>,
           NEW s \in Store!Client, NEW v \in ClientWords, slot' = [slot EXCEPT ![s] = v],
           IsRoot(s)', \A t \in Slot : t # s => (IsRoot(t)' <=> IsRoot(t))
    PROVE  Store!StoreNext
<1>1. PICK a : a = AbsWord(v, alloc_area)
  OBVIOUS
<1>2. a \in Store!Held
  BY <1>1, HeldWords
<1>3. /\ AbsObjects' = AbsObjects /\ nextid' = nextid /\ AbsRequest = Store!Idle /\ AbsRequest' = Store!Idle
      /\ call' = NoCall
  BY ClientRead, RunFacts
<1>4. slot \in [Slot -> Word] /\ s \in Slot /\ s \notin ArgSlot
  BY RunFacts, ClientSlots
<1>5. ASSUME NEW t \in Slot PROVE ValueOf(t)' = IF t = s THEN a ELSE ValueOf(t)
  <2>1. CASE t = s
    BY <1>1, <1>4, <2>1, ClientRead
  <2>2. CASE t # s /\ t \notin ArgSlot
    BY <1>4, <2>2, ClientRead DEF RootAbs
  <2>3. CASE t # s /\ t \in ArgSlot
    BY <1>3, <2>3, ClientRead
  <2> QED BY <2>1, <2>2, <2>3
<1>6. AbsValue' = [AbsValue EXCEPT ![s] = a]
  <2>1. AbsValue = [t \in Slot |-> ValueOf(t)] /\ AbsValue' = [t \in Slot |-> ValueOf(t)']
    BY ClientRead
  <2> QED BY <1>5, <2>1
<1>7. Store!Set(s, a)
  BY <1>3, <1>6 DEF Store!Set
<1> QED BY <1>2, <1>7 DEF Store!StoreNext

LEMMA AssignSteps ==
    ASSUME HostContract, IInv, NEW s \in Writable, NEW v \in ClientWords, Assign(s, v)
    PROVE  Store!StoreNext
<1>1. s \in Store!Client /\ IsRoot(s)
  BY ClientSlots
<1>2. \A t \in Slot : IsRoot(t)' <=> IsRoot(t)
  BY DEF Assign, IsRoot, roots
<1> QED BY <1>1, <1>2, SetStep DEF Assign, roots, Writable

LEMMA PushSteps ==
    ASSUME HostContract, IInv, NEW v \in ClientWords, Push(v)
    PROVE  Store!StoreNext
<1>1. PICK n \in Nat : n = sp /\ n < stacklen
  BY DEF Push, IInv, TypeOK
<1>2. PICK s : s = ArgB + n + 1
  OBVIOUS
<1>3. s \in Store!Client /\ s \in StackSlot /\ ArgB + (n + 1) = s
  <2>1. n + 1 \in 1..stacklen /\ ArgB \in Nat
    BY <1>1, ConstantsOK DEF ConstantsOK, ArgB
  <2> QED BY <1>2, <2>1, ClientSlots, SlotRanges
<1>4. sp' = n + 1
  BY <1>1 DEF Push
<1>5. IsRoot(s)' /\ \A t \in Slot : t # s => (IsRoot(t)' <=> IsRoot(t))
  <2>1. \A t \in StackSlot : t # s => (t <= ArgB + sp' <=> t <= ArgB + sp)
    BY <1>1, <1>3, <1>4, ConstantsOK DEF ConstantsOK, StackSlot, ArgB
  <2>2. s <= ArgB + sp'
    BY <1>1, <1>3, <1>4, ConstantsOK DEF ConstantsOK, ArgB
  <2> QED BY <1>3, <2>1, <2>2 DEF IsRoot, Push
<1> QED BY <1>1, <1>2, <1>3, <1>5, SetStep DEF Push

LEMMA RegisterSteps ==
    ASSUME HostContract, IInv, NEW v \in ClientWords, Register(v)
    PROVE  Store!StoreNext
<1>1. PICK n \in Nat : n = num_val_roots /\ n < VM_NUM_VAL_ROOTS - 1
  BY DEF Register, IInv, TypeOK
<1>2. PICK s : s = 5 + n
  OBVIOUS
<1>3. s \in Store!Client /\ s \in ValSlot
  <2>1. n \in 0..(VM_NUM_VAL_ROOTS - 1)
    BY <1>1, ConstantsOK DEF ConstantsOK
  <2> QED BY <1>2, <2>1, ClientSlots, SlotRanges
<1>4. num_val_roots' = n + 1
  BY <1>1 DEF Register
<1>5. IsRoot(s)' /\ \A t \in Slot : t # s => (IsRoot(t)' <=> IsRoot(t))
  <2>1. \A t \in ValSlot : t # s => (t <= 4 + num_val_roots' <=> t <= 4 + num_val_roots)
    BY <1>1, <1>2, <1>4, ConstantsOK DEF ConstantsOK, ValSlot
  <2>2. s <= 4 + num_val_roots'
    BY <1>1, <1>2, <1>4
  <2> QED BY <1>3, <2>1, <2>2 DEF IsRoot, Register
<1> QED BY <1>1, <1>2, <1>3, <1>5, SetStep DEF Register

LEMMA PopSteps ==
    ASSUME HostContract, IInv, NEW r \in ClientRegs, Pop(r)
    PROVE  Store!StoreNext
<1>1. PICK n \in Nat : n = sp /\ n > 0 /\ n <= stacklen
  BY DEF Pop, IInv, TypeOK
<1>2. PICK y : y = ArgB + n
  OBVIOUS
<1>3. /\ y \in Store!Client /\ r \in Store!Client /\ r # y /\ y \in StackSlot /\ IsRoot(y) /\ IsRoot(r)
      /\ r \in RegSlot /\ y \in Slot \ ArgSlot /\ r \in Slot \ ArgSlot /\ y \notin RegSlot /\ y \notin ValSlot
  <2>1. n \in 1..stacklen
    BY <1>1, ConstantsOK DEF ConstantsOK
  <2>2. y \in Store!Client /\ r \in Store!Client /\ r # y /\ y \in StackSlot /\ r \in RegSlot
    BY <1>1, <1>2, <2>1, ClientSlots, SlotRanges
  <2>3. y <= ArgB + sp
    BY <1>1, <1>2, ConstantsOK DEF ConstantsOK, ArgB
  <2>4. y \notin RegSlot /\ y \notin ValSlot
    BY <1>1, <1>2, ConstantsOK DEF ConstantsOK, RegSlot, ValSlot, ArgB
  <2> QED BY <2>2, <2>3, <2>4, ClientSlots DEF IsRoot
<1>4. sp' = n - 1 /\ ptr_roots' = {} /\ ptr_roots = {}
  BY <1>1, RunFacts DEF Pop
<1>5. ~ IsRoot(y)' /\ \A t \in Slot : t # y => (IsRoot(t)' <=> IsRoot(t))
  <2>1. \A t \in StackSlot : t # y => (t <= ArgB + sp' <=> t <= ArgB + sp)
    BY <1>1, <1>2, <1>4, ConstantsOK DEF ConstantsOK, StackSlot, ArgB
  <2>2. ~ (y <= ArgB + sp')
    BY <1>1, <1>2, <1>4, ConstantsOK DEF ConstantsOK, ArgB
  <2> QED BY <1>3, <1>4, <2>1, <2>2 DEF IsRoot, Pop
<1>6. /\ AbsObjects' = AbsObjects /\ nextid' = nextid /\ AbsRequest = Store!Idle /\ AbsRequest' = Store!Idle
      /\ call' = NoCall
  BY ClientRead, RunFacts DEF Pop
<1>7. slot \in [Slot -> Word] /\ slot' = [slot EXCEPT ![r] = slot[y], ![y] = UNINITIALIZED]
  BY <1>1, <1>2, RunFacts DEF Pop
<1>8. ASSUME NEW t \in Slot
      PROVE  ValueOf(t)' = IF t = y THEN Store!None ELSE IF t = r THEN ValueOf(y) ELSE ValueOf(t)
  <2>1. CASE t = y
    BY <1>3, <1>5, <2>1, ClientRead DEF Pop
  <2>2. CASE t = r
    BY <1>3, <1>5, <1>7, <2>2, ClientRead DEF Pop, RootAbs
  <2>3. CASE t # r /\ t # y /\ t \notin ArgSlot
    BY <1>5, <1>7, <2>3, ClientRead DEF Pop, RootAbs
  <2>4. CASE t # r /\ t # y /\ t \in ArgSlot
    BY <1>6, <2>4, ClientRead DEF Pop
  <2> QED BY <2>1, <2>2, <2>3, <2>4
<1>9. AbsValue' = [AbsValue EXCEPT ![r] = AbsValue[y], ![y] = Store!None]
  <2>1. AbsValue = [t \in Slot |-> ValueOf(t)] /\ AbsValue' = [t \in Slot |-> ValueOf(t)']
    BY ClientRead DEF Pop
  <2> QED BY <1>3, <1>8, <2>1
<1>10. Store!Move(r, y)
  BY <1>6, <1>9 DEF Store!Move
<1> QED BY <1>3, <1>10 DEF Store!StoreNext

LEMMA UnregisterSteps ==
    ASSUME HostContract, IInv, NEW n \in 1..VM_NUM_VAL_ROOTS, Unregister(n)
    PROVE  Store!StoreNext
<1>1. PICK m \in Nat : m = num_val_roots' /\ m <= num_val_roots /\ num_val_roots \in Nat
  BY DEF Unregister, IInv, TypeOK
<1>2. PICK X : X = {s \in ValSlot : s > 4 + m}
  OBVIOUS
<1>3. X \in SUBSET Store!Client
  BY <1>2, ClientSlots, SlotRanges
<1>4. /\ AbsObjects' = AbsObjects /\ nextid' = nextid /\ AbsRequest = Store!Idle /\ AbsRequest' = Store!Idle
      /\ call' = NoCall /\ ptr_roots = {} /\ ptr_roots' = {}
  BY ClientRead, RunFacts DEF Unregister
<1>5. \A t \in Slot : IsRoot(t)' <=> (IsRoot(t) /\ t \notin X)
  <2>1. \A t \in ValSlot : t <= 4 + m <=> (t <= 4 + num_val_roots /\ t \notin X)
    <3> SUFFICES ASSUME NEW t \in ValSlot
                 PROVE  t <= 4 + m <=> (t <= 4 + num_val_roots /\ t \notin X)
      OBVIOUS
    <3>1. t \notin X <=> ~ (t > 4 + m)
      BY <1>2
    <3>2. t \in Nat
      BY ConstantsOK DEF ConstantsOK, ValSlot
    <3>3. PICK k \in Nat : k = num_val_roots /\ m <= k
      BY <1>1
    <3>4. ~ (t > 4 + m) => t <= 4 + k
      BY ONLY <3>2, <3>3, m \in Nat
    <3>5. ~ (t > 4 + m) <=> t <= 4 + m
      BY ONLY <3>2, m \in Nat
    <3> QED BY ONLY <3>1, <3>3, <3>4, <3>5
  <2>2. \A t \in X : t \in ValSlot /\ t \notin RegSlot /\ t \notin StackSlot
    BY <1>2, ConstantsOK DEF ConstantsOK, ValSlot, RegSlot, StackSlot, ArgB
  <2> QED BY <1>1, <1>4, <2>1, <2>2 DEF IsRoot, Unregister
<1>6. slot' = [s \in Slot |-> IF s \in X THEN UNINITIALIZED ELSE slot[s]]
  BY <1>1, <1>2 DEF Unregister
<1>7. ASSUME NEW t \in Slot PROVE ValueOf(t)' = IF t \in X THEN Store!None ELSE ValueOf(t)
  <2>1. CASE t \in X
    BY <1>3, <1>5, <2>1, ClientRead, ClientSlots DEF Unregister
  <2>2. CASE t \notin X /\ t \notin ArgSlot
    BY <1>5, <1>6, <2>2, ClientRead DEF Unregister, RootAbs
  <2>3. CASE t \notin X /\ t \in ArgSlot
    BY <1>4, <2>3, ClientRead DEF Unregister
  <2> QED BY <2>1, <2>2, <2>3
<1>8. AbsValue' = [t \in Slot |-> IF t \in X THEN Store!None ELSE AbsValue[t]]
  <2>1. AbsValue = [t \in Slot |-> ValueOf(t)] /\ AbsValue' = [t \in Slot |-> ValueOf(t)']
    BY ClientRead DEF Unregister
  <2> QED BY <1>7, <2>1
<1>9. Store!Drop(X)
  BY <1>4, <1>8 DEF Store!Drop
<1> QED BY <1>3, <1>9 DEF Store!StoreNext

\* Outside a collection the store has the objects that are in the heap.
LEMMA QuietObjects ==
    ASSUME HostContract, IInv, IdsOK, ~ InGC
    PROVE  /\ Latest = DOMAIN mem
           /\ DOMAIN AbsObjects = {mem[h].id : h \in DOMAIN mem}
           /\ \A h \in DOMAIN mem : AbsObjects[mem[h].id] = AbsObject(h)
<1>1. Latest = DOMAIN mem
  BY QuietHeap DEF Latest
<1> QED BY <1>1, ObjectsRead DEF ReadAtHeads

LEMMA ReadFieldSteps ==
    ASSUME HostContract, IInv, IdsOK, NEW s \in Writable, NEW t \in Slot, NEW k \in 1..2,
           Client(t), ReadField(s, t, k)
    PROVE  Store!StoreNext
<1>1. PICK h : h = alloc_area + slot[t]
  OBVIOUS
<1>2. /\ h \in DOMAIN mem /\ mem[h].type = TYPE_PAIR /\ is_allocated(slot[t])
      /\ slot' = [slot EXCEPT ![s] = mem[h].body[k]]
  BY <1>1 DEF ReadField, IsPair, HasObject, ObjectOf
<1>3. mem[h].size = 2
  BY <1>2 DEF IInv, ObjectsOK
<1>4. pc = "run" /\ ~ InGC
  BY RunFacts DEF ReadField
<1>5. PICK i : i = mem[h].id
  OBVIOUS
<1>6. i \in DOMAIN AbsObjects /\ AbsObjects[i] = AbsObject(h)
  BY <1>2, <1>4, <1>5, QuietObjects
<1>7. AbsObjects[i].type = "pair" /\ AbsObjects[i].body[k] = AbsWord(mem[h].body[k], alloc_area)
  <2>1. AbsField(h, k) = AbsWord(mem[h].body[k], alloc_area)
    BY <1>2, <1>4, PairsAndBignums DEF AbsField, AreaOfField
  <2> QED BY <1>2, <1>3, <1>6, <2>1 DEF AbsObject
<1>8. s \in Store!Client /\ t \in Store!Client /\ IsRoot(s) /\ IsRoot(t) /\ s \in Slot /\ s \notin ArgSlot /\ t \notin ArgSlot
  BY ClientSlots DEF Client, Writable
<1>9. AbsValue[t] = Store!Ref(i)
  <2>1. AbsValue[t] = AbsWord(slot[t], alloc_area)
    BY <1>4, <1>8, ClientRead DEF RootAbs, ReadField
  <2>2. AbsWord(slot[t], alloc_area) = <<"ref", mem[h].id>>
    BY <1>1, <1>2 DEF AbsWord, RefTo
  <2> QED BY <1>5, <2>1, <2>2 DEF Store!Ref
<1>10. /\ AbsObjects' = AbsObjects /\ nextid' = nextid /\ AbsRequest = Store!Idle /\ AbsRequest' = Store!Idle
       /\ call' = NoCall /\ slot \in [Slot -> Word]
  BY ClientRead, RunFacts DEF ReadField
<1>11. ASSUME NEW u \in Slot PROVE ValueOf(u)' = IF u = s THEN AbsWord(mem[h].body[k], alloc_area) ELSE ValueOf(u)
  <2>1. IsRoot(u)' <=> IsRoot(u)
    BY DEF ReadField, IsRoot, roots
  <2>2. CASE u = s
    BY <1>2, <1>8, <1>10, <2>1, <2>2, ClientRead DEF ReadField
  <2>3. CASE u # s /\ u \notin ArgSlot
    BY <1>2, <1>10, <2>1, <2>3, ClientRead DEF ReadField, RootAbs
  <2>4. CASE u # s /\ u \in ArgSlot
    BY <1>10, <2>4, ClientRead DEF ReadField
  <2> QED BY <2>2, <2>3, <2>4
<1>12. AbsValue' = [AbsValue EXCEPT ![s] = AbsObjects[i].body[k]]
  <2>1. AbsValue = [u \in Slot |-> ValueOf(u)] /\ AbsValue' = [u \in Slot |-> ValueOf(u)']
    BY ClientRead DEF ReadField
  <2> QED BY <1>7, <1>11, <2>1
<1>13. Store!Select(s, t, k)
  BY <1>6, <1>7, <1>9, <1>10, <1>12 DEF Store!Select
<1> QED BY <1>8, <1>13 DEF Store!StoreNext

LEMMA StopSteps ==
    ASSUME HostContract, IInv, pc = "run", Die
    PROVE  Store!StoreNext
<1>1. /\ AbsObjects' = AbsObjects /\ nextid' = nextid /\ AbsRequest = Store!Idle
      /\ call = NoCall /\ call' = NoCall
  BY ClientRead, RunFacts DEF Die
<1>2. AbsRequest' = Store!Stopped
  BY <1>1 DEF AbsRequest, Die, NoCall, Store!Stopped
<1>3. ASSUME NEW u \in Slot PROVE ValueOf(u)' = ValueOf(u)
  <2>1. (IsRoot(u)' <=> IsRoot(u)) /\ slot' = slot
    BY DEF Die, IsRoot, roots
  <2>2. CASE u \notin ArgSlot
    BY <2>1, <2>2, ClientRead DEF Die, RootAbs
  <2>3. CASE u \in ArgSlot
    BY <1>1, <2>3, ClientRead DEF Die
  <2> QED BY <2>2, <2>3
<1>4. AbsValue' = AbsValue
  BY <1>3, SameValues
<1>5. Store!Stop
  BY <1>1, <1>2, <1>4 DEF Store!Stop
<1> QED BY <1>5 DEF Store!StoreNext

\* A primitive is called: its arguments become values of the store.
LEMMA RequestRead ==
    ASSUME HostContract, IInv, pc = "run", pc' = "alloc", UNCHANGED <<heapvars, num_val_roots, sp>>,
           ptr_roots' \subseteq ArgSlot, \A s \in Slot \ ArgSlot : slot'[s] = slot[s],
           NEW a, NEW b, AbsArg(ArgA)' = a, AbsArg(ArgB)' = b, NEW c, call' = c
    PROVE  /\ AbsObjects' = AbsObjects /\ nextid' = nextid /\ AbsRequest = Store!Idle
           /\ AbsRequest' = c
           /\ AbsValue' = [AbsValue EXCEPT ![ArgA] = a, ![ArgB] = b]
           /\ AbsValue[ArgA] = Store!None /\ AbsValue[ArgB] = Store!None
<1>1. AbsObjects' = AbsObjects /\ nextid' = nextid /\ AbsRequest = Store!Idle
  BY ClientRead
<1>2. AbsRequest' = c
  BY DEF AbsRequest
<1>3. \A s \in Slot \ ArgSlot : IsRoot(s)' <=> IsRoot(s)
  BY RunFacts DEF IsRoot
<1>4. ASSUME NEW s \in Slot PROVE ValueOf(s)' = IF s = ArgA THEN a ELSE IF s = ArgB THEN b ELSE ValueOf(s)
  <2>1. CASE s \in ArgSlot
    BY <2>1 DEF ValueOf, ArgSlot
  <2>2. CASE s \notin ArgSlot
    BY <1>3, <2>2, ClientRead DEF RootAbs, ArgSlot
  <2> QED BY <2>1, <2>2
<1>5. AbsValue = [s \in Slot |-> ValueOf(s)] /\ AbsValue' = [s \in Slot |-> ValueOf(s)']
  BY ClientRead
<1>6. AbsValue' = [AbsValue EXCEPT ![ArgA] = a, ![ArgB] = b]
  BY <1>4, <1>5, SlotRanges
<1>7. ArgA \in Slot /\ ArgB \in Slot /\ ArgA \in ArgSlot /\ ArgB \in ArgSlot
  BY SlotRanges DEF ArgSlot
<1>8. AbsValue[ArgA] = Store!None /\ AbsValue[ArgB] = Store!None
  BY <1>5, <1>7, ClientRead
<1> QED BY <1>1, <1>2, <1>6, <1>8

LEMMA ConsSteps ==
    ASSUME HostContract, IInv, NEW v \in ClientWords, NEW w \in ClientWords, NEW r \in ClientRegs,
           Cons(v, w, r)
    PROVE  Store!StoreNext
<1>1. PICK a, b, c : /\ a = AbsWord(v, alloc_area) /\ b = AbsWord(w, alloc_area)
                     /\ c = [op |-> "cons", n |-> 3, len |-> 2, dst |-> r]
  OBVIOUS
<1>2. /\ a \in Store!Held /\ b \in Store!Held /\ r \in Store!Client
  BY <1>1, HeldWords, ClientSlots DEF Cons
<1>3. slot \in [Slot -> Word] /\ slot' = [slot EXCEPT ![ArgA] = v, ![ArgB] = w]
  BY RunFacts DEF Cons
<1>4. slot'[ArgA] = v /\ slot'[ArgB] = w /\ \A s \in Slot \ ArgSlot : slot'[s] = slot[s]
  BY <1>3, SlotRanges DEF ArgSlot
<1>5. AbsArg(ArgA)' = a /\ AbsArg(ArgB)' = b
  <2>1. alloc_area' = alloc_area /\ mem' = mem /\ call'.op = "cons"
    BY DEF Cons, heapvars, areas
  <2>2. AbsWord(slot[ArgA], alloc_area)' = a /\ AbsWord(slot[ArgB], alloc_area)' = b
    BY <1>1, <1>4, <2>1 DEF AbsWord, RefTo
  <2> QED BY <2>1, <2>2 DEF AbsArg
<1>6. ptr_roots' \subseteq ArgSlot
  BY RunFacts DEF Cons, roots
<1>7. /\ AbsObjects' = AbsObjects /\ nextid' = nextid /\ AbsRequest = Store!Idle
      /\ AbsRequest' = c
      /\ AbsValue' = [AbsValue EXCEPT ![ArgA] = a, ![ArgB] = b]
  BY <1>1, <1>4, <1>5, <1>6, RequestRead DEF Cons, roots
<1>8. Store!Request("cons", a, b, 3, 2, r)
  BY <1>1, <1>7 DEF Store!Request
<1> QED BY <1>2, <1>8 DEF Store!StoreNext

LEMMA NewBignumSteps ==
    ASSUME HostContract, IInv, NEW m \in 1..2, NEW r \in ClientRegs, NewBignum(m, r)
    PROVE  Store!StoreNext
<1>1. PICK c : c = [op |-> "bignum", n |-> m + 1, len |-> m, dst |-> r]
  OBVIOUS
<1>2. AbsArg(ArgA)' = Store!None /\ AbsArg(ArgB)' = Store!None
  BY DEF AbsArg, NewBignum, Store!None
<1>3. ptr_roots' \subseteq ArgSlot
  BY RunFacts DEF NewBignum, roots
<1>4. /\ AbsObjects' = AbsObjects /\ nextid' = nextid /\ AbsRequest = Store!Idle
      /\ AbsRequest' = c
      /\ AbsValue' = [AbsValue EXCEPT ![ArgA] = Store!None, ![ArgB] = Store!None]
  BY <1>1, <1>2, <1>3, RequestRead DEF NewBignum, roots
<1>5. Store!Request("bignum", Store!None, Store!None, m + 1, m, r)
  BY <1>1, <1>4 DEF Store!Request
<1>6. r \in Store!Client
  BY ClientSlots
<1> QED BY <1>5, <1>6 DEF Store!StoreNext

\* An operand of a sum is the integer, whether passed in place or by address.
LEMMA OperandRead ==
    ASSUME HostContract, IInv, pc = "run", NEW v \in ClientWords, IsInteger(v),
           NEW s \in ArgSlot, slot'[s] = Operand(v), call'.op = "add", UNCHANGED heapvars
    PROVE  AbsArg(s)' = AbsWord(v, alloc_area)
<1>1. v \in Nat /\ alloc_area \in Nat /\ alloc_area % 2 = 0
  BY ClientWordsOK, AreaFacts DEF IInv
<1>2. CASE is_fixnum(v)
  <2>1. Operand(v) = v /\ ~ is_allocated(v)
    BY <1>1, <1>2 DEF Operand, is_fixnum, is_allocated
  <2> QED BY <1>2, <2>1 DEF AbsArg, AbsWord
<1>3. CASE ~ is_fixnum(v)
  <2>1. PICK p \in Nat : p = Operand(v)
    BY OperandOK
  <2>2. p - WordSize - alloc_area = v /\ is_allocated(v)
    BY <1>3, <2>1, OperandOK
  <2>3. p - WordSize = alloc_area + v /\ p % 2 = 0
    BY <1>1, <2>2 DEF is_allocated, WordSize
  <2>4. ~ is_fixnum(p)
    BY <2>3 DEF is_fixnum
  <2> QED BY <2>1, <2>2, <2>3, <2>4 DEF AbsArg, AbsWord, RefTo, heapvars, areas
<1> QED BY <1>2, <1>3

LEMMA AddSteps ==
    ASSUME HostContract, IInv, LengthsOK', NEW v \in ClientWords, NEW w \in ClientWords,
           NEW r \in ClientRegs, Add(v, w, r)
    PROVE  Store!StoreNext
<1>1. PICK a, b, m, c : /\ a = AbsWord(v, alloc_area) /\ b = AbsWord(w, alloc_area)
                        /\ m = Longer(v, w) /\ c = call'
  OBVIOUS
<1>2. /\ a \in Store!Held /\ b \in Store!Held /\ r \in Store!Client
  BY <1>1, HeldWords, ClientSlots DEF Add
<1>3. m \in 1..MaxWords /\ c = [op |-> "add", n |-> m + 2, len |-> m, dst |-> r]
  <2>1. c = [op |-> "add", n |-> (m + 2) % 256, len |-> m, dst |-> r]
    BY <1>1 DEF Add
  <2>2. c.n = c.len + 2 /\ c.len \in 1..MaxWords
    BY <1>1, <2>1 DEF LengthsOK
  <2> QED BY <2>1, <2>2
<1>4. slot \in [Slot -> Word] /\ slot' = [slot EXCEPT ![ArgA] = Operand(v), ![ArgB] = Operand(w)]
  BY RunFacts DEF Add
<1>5. slot'[ArgA] = Operand(v) /\ slot'[ArgB] = Operand(w) /\ \A s \in Slot \ ArgSlot : slot'[s] = slot[s]
  BY <1>4, SlotRanges DEF ArgSlot
<1>6. AbsArg(ArgA)' = a /\ AbsArg(ArgB)' = b
  BY <1>1, <1>5, OperandRead DEF Add, ArgSlot
<1>7. ptr_roots' \subseteq ArgSlot
  BY DEF Add, MovingArgs
<1>8. /\ AbsObjects' = AbsObjects /\ nextid' = nextid /\ AbsRequest = Store!Idle
      /\ AbsRequest' = c
      /\ AbsValue' = [AbsValue EXCEPT ![ArgA] = a, ![ArgB] = b]
  <2>1. pc = "run" /\ pc' = "alloc" /\ UNCHANGED <<heapvars, num_val_roots, sp>> /\ call' = c
    BY <1>1 DEF Add
  <2>2. \A s \in Slot \ ArgSlot : slot'[s] = slot[s]
    BY <1>5
  <2> HIDE DEF Add
  <2> QED BY ONLY HostContract, IInv, <1>6, <1>7, <2>1, <2>2, RequestRead
<1>9. Store!Request("add", a, b, m + 2, m, r)
  BY <1>3, <1>8 DEF Store!Request
<1> QED BY <1>2, <1>3, <1>9 DEF Store!StoreNext

LEMMA ClientSteps ==
    ASSUME HostContract, IInv, CopiesOK, CopiesOK', ClientStep
    PROVE  Store!StoreNext
BY AssignSteps, ReadFieldSteps, PushSteps, PopSteps, RegisterSteps, UnregisterSteps, ConsSteps,
   NewBignumSteps, AddSteps, StopSteps
   DEF ClientStep, PushFull, PopEmpty, OutOfValRoots, NoValRootsLeft, AddNotInteger, CopiesOK

-----------------------------------------------------------------------------
(***************************************************************************)
(* The primitives: allocation leaves the store as it is, the stores at     *)
(* their end answer the client's request.                                  *)
(***************************************************************************)
LEMMA PendingCall ==
    ASSUME IInv, pc \in {"alloc", "slow", "fill"}
    PROVE  AbsRequest = call /\ call.op \in {"cons", "bignum", "add"}
BY DEF AbsRequest, IInv, CallOK

\* Outside a collection the store depends on the slots and the objects only.
LEMMA QuietKept ==
    ASSUME HostContract, IInv, IInv', IdsOK, ~ InGC, ~ InGC', UNCHANGED <<slot, roots, areas, mem, nextid, call>>
    PROVE  AbsValue' = AbsValue /\ AbsObjects' = AbsObjects
<1>1. FromHeads' = FromHeads /\ ToHeads' = ToHeads
  BY HeapKept
<1>2. \A s \in Slot : AreaOfRoot(s)' = AreaOfRoot(s)
  BY DEF AreaOfRoot, RootDone, InGC, areas
<1>3. ASSUME NEW s \in Slot PROVE ValueOf(s)' = ValueOf(s)
  BY <1>2, OthersKept
<1>4. AbsValue' = AbsValue
  BY <1>3, SameValues
<1>5. AbsObjects' = AbsObjects
  <2>1. mem' = mem /\ alloc_area' = alloc_area
    BY DEF areas
  <2>2. ~ InGC /\ ~ InGC'
    OBVIOUS
  <2>3. \A h, k : AreaOfField(h, k)' = AreaOfField(h, k)
    BY ONLY <2>1, <2>2 DEF AreaOfField
  <2>4. \A h, k : AbsField(h, k)' = AbsField(h, k)
    BY ONLY <2>1, <2>3 DEF AbsField, AbsWord, RefTo
  <2>5. \A h : AbsObject(h)' = AbsObject(h)
    BY ONLY <2>1, <2>4 DEF AbsObject
  <2>6. \A i : HeadOf(i)' = HeadOf(i)
    BY ONLY <1>1, <2>1 DEF HeadOf
  <2> QED BY ONLY <2>1, <2>5, <2>6 DEF AbsObjects
<1> QED BY <1>4, <1>5

LEMMA AllocStutters ==
    ASSUME HostContract, IInv, IInv', IdsOK, AllocFast \/ AllocSlow
    PROVE  UNCHANGED <<AbsValue, AbsObjects, nextid, AbsRequest>>
<1>1. /\ pc \in {"alloc", "slow"} /\ pc' = "fill" /\ UNCHANGED <<slot, roots, areas, mem, nextid, call>>
      /\ call' = call /\ nextid' = nextid
  BY DEF AllocFast, AllocSlow
<1>2. AbsRequest' = AbsRequest
  BY <1>1 DEF AbsRequest
<1> QED BY <1>1, <1>2, QuietKept DEF InGC

\* An allocation fails after a collection only: what can be reached then fills
\* the area, so that not even the words after its first one suffice.
LEMMA OutOfMemorySteps ==
    ASSUME HostContract, IInv, IInv', CopiesOK, ReachOK, OutOfMemory
    PROVE  Store!StoreNext
<1>1. /\ pc = "slow" /\ pc' = "die" /\ UNCHANGED <<slot, roots, areas, mem, nextid, call>>
      /\ call' = call /\ nextid' = nextid /\ ~ Fits(call.n)
  BY DEF OutOfMemory, Die, heapvars
<1>2. AbsValue' = AbsValue /\ AbsObjects' = AbsObjects
  BY <1>1, QuietKept DEF InGC, CopiesOK
<1>3. AbsRequest = call /\ call.op \in {"cons", "bignum", "add"}
  BY <1>1, PendingCall
<1>4. AbsRequest' = Store!Failed
  BY <1>1, <1>3 DEF AbsRequest, Store!Failed
<1>5. Store!WordsIn(Store!Reachable) + call.n > numheapwords - 1
  <2>1. PICK x, p, n, a, k : /\ x = Store!WordsIn(Store!Reachable) /\ p = alloc_ptr /\ n = call.n
                             /\ a = alloc_area /\ k = numheapwords
    OBVIOUS
  <2>2. 2 * x = (a + 2 * k) - p
    BY <1>1, <2>1, WordsInHeap DEF alloc_size, WordSize
  <2>3. p \in Nat /\ n \in Nat /\ a \in Nat /\ k \in Nat
    BY <1>1, <2>1, CallFacts, ConstantsOK DEF ConstantsOK
  <2>4. ~ (p - 2 * n > a)
    BY <1>1, <2>1 DEF Fits, WordSize
  <2>5. x \in Nat
    BY <1>1, <2>1, WordsInHeap
  <2> QED BY <2>1, <2>2, <2>3, <2>4, <2>5
<1>6. Store!Fail
  BY <1>1, <1>2, <1>3, <1>4, <1>5 DEF Store!Fail, Store!Pending
<1> QED BY <1>6 DEF Store!StoreNext

\* The variables when a primitive returns a word.
LEMMA ReturnRead ==
    ASSUME HostContract, IInv, IInv', LengthsOK, pc = "fill", NEW w, Return(w), ptr_roots' = {},
           \A h \in DOMAIN mem : h \in DOMAIN mem' /\ mem'[h].id = mem[h].id
    PROVE  /\ AbsRequest = call /\ AbsRequest' = Store!Idle
           /\ AbsValue' = [AbsValue EXCEPT ![ArgA] = Store!None, ![ArgB] = Store!None,
                                           ![call.dst] = AbsWord(w, alloc_area)']
<1>1. AbsRequest = call /\ call.op \in {"cons", "bignum", "add"}
  BY PendingCall
<1>2. AbsRequest' = Store!Idle
  BY DEF AbsRequest, Return, Store!Idle
<1>3. PICK r, a : r = call.dst /\ a = AbsWord(w, alloc_area)'
  OBVIOUS
<1>4. r \in RegSlot /\ r \in Slot /\ r \notin ArgSlot
  BY <1>1, <1>3, SlotRanges DEF LengthsOK
<1>5. ~ InGC /\ ~ InGC' /\ alloc_area' = alloc_area /\ call' = NoCall
  BY DEF InGC, Return, areas
<1>6. \A s \in Slot : AreaOfRoot(s) = alloc_area /\ AreaOfRoot(s)' = alloc_area
  BY <1>5 DEF AreaOfRoot, RootDone, InGC
<1>7. \A s \in Slot \ ArgSlot : IsRoot(s)' <=> IsRoot(s)
  BY DEF IsRoot, Return, IInv, TypeOK
<1>8. slot' = [slot EXCEPT ![ArgA] = UNINITIALIZED, ![ArgB] = UNINITIALIZED, ![r] = w]
      /\ DOMAIN slot = Slot
  BY <1>3 DEF Return, IInv, TypeOK
<1>9. ASSUME NEW s \in Slot
      PROVE  ValueOf(s)' = IF s = r THEN a ELSE IF s \in ArgSlot THEN Store!None ELSE ValueOf(s)
  <2>1. CASE s = r
    <3>1. slot'[s] = w
      BY <1>4, <1>8, <2>1
    <3>2. IsRoot(s)' /\ s \notin ArgSlot
      BY <1>4, <2>1 DEF IsRoot
    <3>3. AbsWord(slot[s], AreaOfRoot(s))' = a
      BY <1>3, <1>5, <1>6, <3>1 DEF AbsWord, RefTo
    <3> QED BY <2>1, <3>2, <3>3 DEF ValueOf
  <2>2. CASE s \in ArgSlot
    BY <1>4, <1>5, <2>2 DEF ValueOf, AbsArg, NoCall, Store!None
  <2>3. CASE s # r /\ s \notin ArgSlot /\ IsRoot(s)
    <3>1. PICK v, area : v = slot[s] /\ area = alloc_area
      OBVIOUS
    <3>2. Refers(v, area)
      <4>1. s \notin ptr_roots
        BY <2>3 DEF IInv, TypeOK
      <4> QED BY <1>6, <2>3, <3>1, <4>1 DEF IInv, PointersOK, WordIn
    <3>3. AbsWord(v, area)' = AbsWord(v, area)
      BY <3>2, WordKept
    <3>4. slot'[s] = v
      BY <1>8, <2>3, <3>1 DEF ArgSlot
    <3>5. AbsWord(slot[s], AreaOfRoot(s))' = AbsWord(v, area)'
      BY <1>5, <1>6, <3>1, <3>4 DEF AbsWord, RefTo
    <3>6. AbsWord(slot[s], AreaOfRoot(s)) = AbsWord(v, area)
      BY <1>6, <3>1
    <3> QED BY <1>7, <2>3, <3>3, <3>5, <3>6 DEF ValueOf
  <2>4. CASE s # r /\ s \notin ArgSlot /\ ~ IsRoot(s)
    BY <1>7, <2>4 DEF ValueOf
  <2> QED BY <2>1, <2>2, <2>3, <2>4
<1>10. AbsValue = [s \in Slot |-> ValueOf(s)] /\ AbsValue' = [s \in Slot |-> ValueOf(s)']
  BY DEF AbsValue, ValueOf
<1>11. AbsValue' = [AbsValue EXCEPT ![ArgA] = Store!None, ![ArgB] = Store!None, ![r] = a]
  BY <1>4, <1>9, <1>10, SlotRanges DEF ArgSlot
<1> QED BY <1>1, <1>2, <1>3, <1>11

\* The object a primitive makes gets the next name, the others stay.
LEMMA ReturnObjectRead ==
    ASSUME HostContract, IInv, IInv', CopiesOK, CopiesOK', pc = "fill", NEW t, NEW m \in Nat, NEW b,
           ReturnObject(t, m, b), ptr_roots' = {}
    PROVE  /\ AbsRequest = call /\ AbsRequest' = Store!Idle
           /\ AbsValue' = [AbsValue EXCEPT ![ArgA] = Store!None, ![ArgB] = Store!None,
                                           ![call.dst] = Store!Ref(nextid)]
           /\ AbsObjects' = [i \in DOMAIN AbsObjects \cup {nextid} |->
                               IF i = nextid THEN AbsObject(alloc_ptr)' ELSE AbsObjects[i]]
           /\ nextid' = nextid + 1
           /\ mem'[alloc_ptr] = [type |-> t, numwords |-> m, size |-> m, body |-> b, id |-> nextid]
           /\ alloc_ptr' = alloc_ptr /\ alloc_area' = alloc_area /\ ~ InGC'
           /\ \A h \in DOMAIN mem : h \in DOMAIN mem' /\ mem'[h].id = mem[h].id
<1>1. PICK w, p : w = ALLOCATED_FROM_POINTER(alloc_ptr) /\ p = alloc_ptr
  OBVIOUS
<1>2. /\ DOMAIN mem' = DOMAIN mem \cup {p}
      /\ mem'[p] = [type |-> t, numwords |-> m, size |-> m, body |-> b, id |-> nextid]
      /\ \A h \in DOMAIN mem : h # p => mem'[h] = mem[h]
      /\ nextid' = nextid + 1 /\ Return(w) /\ alloc_area' = alloc_area /\ alloc_ptr' = p
      /\ pc' = "run" /\ alloc_area_fresh' = alloc_area_fresh
  BY <1>1 DEF ReturnObject, Return, areas
<1>3. ~ InGC /\ ~ InGC'
  BY <1>2 DEF InGC
<1>4. p \in Nat /\ p \notin DOMAIN mem /\ is_allocated(w) /\ alloc_area + w = p
  <2>1. PICK a, n, z, q : a = alloc_area /\ n = call.n /\ z = alloc_size /\ q = p - a
    OBVIOUS
  <2>2. /\ p \in Nat /\ n \in Nat /\ n > 1 /\ a \in Nat /\ z \in Nat /\ z <= WordValues
        /\ p % 2 = 0 /\ a % 2 = 0 /\ a < p /\ p + 2 * n <= a + z
    BY <1>1, <2>1, CallFacts, SizeFacts, AreaFacts DEF IInv, AllocOK, WordSize
  <2>3. q \in Nat /\ q < z /\ q % 2 = 0 /\ a + q = p
    BY <2>1, <2>2
  <2>4. w = q
    <3>1. w = q % WordValues
      BY <1>1, <2>1 DEF ALLOCATED_FROM_POINTER, OffsetFrom
    <3> QED BY <2>2, <2>3, <3>1, SizeFacts
  <2>5. \A h \in DOMAIN mem : p + 2 * n <= h
    BY <1>1, <1>3, <2>1, QuietHeap DEF IInv, HeapLayout, WordSize
  <2>6. p \notin DOMAIN mem
    BY <2>2, <2>5
  <2> QED BY <2>1, <2>2, <2>3, <2>4, <2>6 DEF is_allocated
<1>5. \A h \in DOMAIN mem : h \in DOMAIN mem' /\ mem'[h] = mem[h] /\ mem'[h].id = mem[h].id
  BY <1>2, <1>4
<1>6. AbsWord(w, alloc_area)' = Store!Ref(nextid)
  BY <1>2, <1>4 DEF AbsWord, RefTo, Store!Ref
<1>7. /\ AbsRequest = call /\ AbsRequest' = Store!Idle
      /\ AbsValue' = [AbsValue EXCEPT ![ArgA] = Store!None, ![ArgB] = Store!None,
                                      ![call.dst] = Store!Ref(nextid)]
  BY <1>2, <1>5, <1>6, ReturnRead DEF CopiesOK
<1>8. /\ Latest = DOMAIN mem
      /\ DOMAIN AbsObjects = {mem[h].id : h \in DOMAIN mem}
      /\ \A h \in DOMAIN mem : AbsObjects[mem[h].id] = AbsObject(h)
  BY <1>3, QuietObjects DEF CopiesOK
<1>9. /\ DOMAIN AbsObjects' = {mem'[h].id : h \in DOMAIN mem'}
      /\ \A h \in DOMAIN mem' : AbsObjects'[mem'[h].id] = AbsObject(h)'
  <2>1. HostContract /\ IInv /\ IdsOK => ReadAtHeads
    BY ObjectsRead
  <2>2. ReadAtHeads'
    <3>1. IInv' /\ IdsOK'
      BY DEF CopiesOK
    <3> QED BY <3>1, ObjectsRead, PTL
  <2>3. Latest' = DOMAIN mem'
    <3>1. FromHeads' = DOMAIN mem' /\ ToHeads' = {}
      BY <1>3 DEF IInv, HeapLayout
    <3>2. \A h \in FromHeads' : mem'[h].numwords # 0
      <4>1. \A h \in FromHeads' : mem'[h].numwords = mem'[h].size
        BY <1>3 DEF IInv, ForwardOK
      <4>2. \A h \in DOMAIN mem' : mem'[h].size \in 1..255
        <5>1. \A h \in DOMAIN mem' : mem'[h] \in Object
          BY DEF CopiesOK, IInv, TypeOK
        <5> QED BY ONLY <5>1 DEF Object
      <4> QED BY <3>1, <4>1, <4>2
    <3> QED BY <3>1, <3>2 DEF Latest
  <2> QED BY <2>2, <2>3 DEF ReadAtHeads
<1>10. ASSUME NEW h \in DOMAIN mem PROVE AbsObject(h)' = AbsObject(h)
  <2>1. ASSUME NEW k \in 1..mem[h].size PROVE AbsField(h, k)' = AbsField(h, k)
    <3>1. AreaOfField(h, k)' = AreaOfField(h, k)
      BY <1>2, <1>3 DEF AreaOfField
    <3> QED BY <1>5, <1>8, <3>1, FieldKept
  <2> QED BY <1>5, <2>1, ObjectKept
<1>11. DOMAIN AbsObjects' = DOMAIN AbsObjects \cup {nextid}
  BY <1>2, <1>5, <1>8, <1>9
<1>12. ASSUME NEW i \in DOMAIN AbsObjects'
       PROVE  AbsObjects'[i] = IF i = nextid THEN AbsObject(alloc_ptr)' ELSE AbsObjects[i]
  <2>1. CASE i = nextid
    <3>1. p \in DOMAIN mem' /\ mem'[p].id = nextid
      BY <1>2
    <3>2. AbsObject(p)' = AbsObject(alloc_ptr)'
      BY <1>1, <1>2 DEF AbsObject, AbsField, AreaOfField, FieldDone
    <3> QED BY <1>9, <2>1, <3>1, <3>2
  <2>2. CASE i # nextid
    <3>1. PICK h \in DOMAIN mem : i = mem[h].id
      BY <1>8, <1>11, <2>2
    <3> QED BY <1>5, <1>8, <1>9, <1>10, <2>2, <3>1
  <2> QED BY <2>1, <2>2
<1>13. AbsObjects' = [i \in DOMAIN AbsObjects' |-> AbsObjects'[i]]
  BY DEF AbsObjects
<1>14. AbsObjects' = [i \in DOMAIN AbsObjects \cup {nextid} |->
                        IF i = nextid THEN AbsObject(alloc_ptr)' ELSE AbsObjects[i]]
  BY <1>11, <1>12, <1>13
<1> QED BY <1>1, <1>2, <1>3, <1>5, <1>7, <1>14

\* The store's object, and where the client finds it.
LEMMA CreateStep ==
    ASSUME HostContract, IInv, IInv', CopiesOK, CopiesOK', pc = "fill", NEW t, NEW m \in Nat, NEW b,
           ReturnObject(t, m, b), ptr_roots' = {}, NEW type, NEW body,
           AbsObject(alloc_ptr)' = [type |-> type, body |-> body]
    PROVE  /\ Store!Create(type, body) /\ AbsRequest = call
BY ReturnObjectRead DEF Store!Create, Store!Answer

LEMMA FillConsSteps ==
    ASSUME HostContract, IInv, IInv', CopiesOK, CopiesOK', FillCons
    PROVE  Store!StoreNext
<1>1. PICK b, m, t : /\ b = [k \in 1..2 |-> IF k = 1 THEN slot[ArgA] ELSE slot[ArgB]]
                     /\ m = 2 /\ m \in Nat /\ t = TYPE_PAIR
  OBVIOUS
<1>2. pc = "fill" /\ call.op = "cons" /\ ReturnObject(t, m, b) /\ ptr_roots' = {}
  BY <1>1 DEF FillCons, IInv, CallOK
<1>3. PICK x, y : x = AbsValue[ArgA] /\ y = AbsValue[ArgB]
  OBVIOUS
<1>4. /\ mem'[alloc_ptr] = [type |-> t, numwords |-> m, size |-> m, body |-> b, id |-> nextid]
      /\ alloc_ptr' = alloc_ptr /\ alloc_area' = alloc_area /\ ~ InGC'
      /\ \A h \in DOMAIN mem : h \in DOMAIN mem' /\ mem'[h].id = mem[h].id
  BY <1>1, <1>2, ReturnObjectRead
<1>5. \A s \in ArgSlot : AbsValue[s] = AbsWord(slot[s], alloc_area) /\ Refers(slot[s], alloc_area)
  BY <1>2, SlotRanges DEF AbsValue, AbsArg, IInv, PointersOK
<1>6. PICK u, v, area : u = slot[ArgA] /\ v = slot[ArgB] /\ area = alloc_area
  OBVIOUS
<1>7. AbsWord(u, area)' = x /\ AbsWord(v, area)' = y
  <2>1. x = AbsWord(u, area) /\ y = AbsWord(v, area) /\ Refers(u, area) /\ Refers(v, area)
    BY <1>3, <1>5, <1>6 DEF ArgSlot
  <2> QED BY <1>4, <2>1, WordKept
<1>8. AbsObject(alloc_ptr)' = [type |-> "pair", body |-> <<x, y>>]
  <2>1. PICK p : p = alloc_ptr
    OBVIOUS
  <2>2. AbsField(p, 1)' = x /\ AbsField(p, 2)' = y
    <3>1. /\ mem'[p].type = TYPE_PAIR /\ mem'[p].body[1] = u /\ mem'[p].body[2] = v
          /\ \A k : AreaOfField(p, k)' = area
      BY <1>1, <1>4, <1>6, <2>1 DEF AreaOfField
    <3>2. ~ TYPE_IS_BINARY(mem'[p].type)
      BY <3>1 DEF TYPE_IS_BINARY, TYPE_PAIR
    <3>3. AbsField(p, 1)' = AbsWord(u, area)' /\ AbsField(p, 2)' = AbsWord(v, area)'
      BY <3>1, <3>2 DEF AbsField, AbsWord, RefTo
    <3> QED BY <1>7, <3>3
  <2>3. mem'[p].size = 2 /\ mem'[p].type = TYPE_PAIR
    BY <1>1, <1>4, <2>1
  <2>4. [k \in 1..2 |-> AbsField(p, k)'] = <<x, y>>
    BY <2>2
  <2>5. AbsObject(p)' = [type |-> "pair", body |-> <<x, y>>]
    BY <2>3, <2>4 DEF AbsObject
  <2> QED BY <1>4, <2>1, <2>5 DEF AbsObject, AbsField, AreaOfField, FieldDone
<1>9. Store!Create("pair", <<x, y>>) /\ AbsRequest = call
  BY <1>1, <1>2, <1>8, CreateStep
<1>10. Store!CreatePair
  BY <1>2, <1>3, <1>9 DEF Store!CreatePair
<1> QED BY <1>10 DEF Store!StoreNext

\* A bignum is read as its digits.
LEMMA BignumSteps ==
    ASSUME HostContract, IInv, IInv', CopiesOK, CopiesOK', pc = "fill", NEW m \in 1..MaxWords,
           NEW d \in BodyWords, ReturnObject(TYPE_BIGNUM, m, [k \in 1..m |-> d]), ptr_roots' = {},
           \/ call.op = "bignum" /\ m = call.len
           \/ call.op = "add" /\ m <= call.len + 1
    PROVE  Store!StoreNext
<1>1. PICK b, t : b = [k \in 1..m |-> d] /\ t = TYPE_BIGNUM
  OBVIOUS
<1>2. m \in Nat /\ m \in 1..(MaxWords + 1)
  BY ConstantsOK DEF ConstantsOK
<1>3. ReturnObject(t, m, b)
  BY <1>1
<1>4. /\ mem'[alloc_ptr] = [type |-> t, numwords |-> m, size |-> m, body |-> b, id |-> nextid]
      /\ alloc_ptr' = alloc_ptr
  BY <1>2, <1>3, ReturnObjectRead
<1>5. AbsObject(alloc_ptr)' = [type |-> "bignum", body |-> [k \in 1..m |-> Store!Digits(d)]]
  <2>1. /\ mem'[alloc_ptr'].type = TYPE_BIGNUM /\ mem'[alloc_ptr'].size = m
        /\ \A k \in 1..m : mem'[alloc_ptr'].body[k] = d
    BY <1>1, <1>4
  <2>2. TYPE_IS_BINARY(mem'[alloc_ptr'].type) /\ mem'[alloc_ptr'].type # TYPE_PAIR
    BY <2>1 DEF TYPE_IS_BINARY, TYPE_BIGNUM, TYPE_PAIR
  <2>3. \A k \in 1..m : AbsField(alloc_ptr, k)' = Store!Digits(d)
    BY <2>1, <2>2 DEF AbsField, Store!Digits
  <2> QED BY <2>1, <2>2, <2>3 DEF AbsObject
<1>6. Store!Create("bignum", [k \in 1..m |-> Store!Digits(d)]) /\ AbsRequest = call
  BY <1>2, <1>3, <1>5, CreateStep
<1>7. Store!CreateBignum(m, d)
  BY <1>6 DEF Store!CreateBignum
<1> QED BY <1>2, <1>7 DEF Store!StoreNext

LEMMA FillBignumSteps ==
    ASSUME HostContract, IInv, IInv', CopiesOK, CopiesOK', NEW d \in BodyWords, FillBignum(d)
    PROVE  Store!StoreNext
<1>1. PICK m : m = call.len
  OBVIOUS
<1>2. /\ pc = "fill" /\ call.op = "bignum" /\ ptr_roots' = {}
      /\ ReturnObject(TYPE_BIGNUM, m, [k \in 1..m |-> d])
  BY <1>1 DEF FillBignum, IInv, CallOK
<1>3. m \in 1..MaxWords
  BY <1>1, <1>2 DEF IInv, CallOK
<1> QED BY <1>1, <1>2, <1>3, BignumSteps

LEMMA FillAddSteps ==
    ASSUME HostContract, IInv, IInv', CopiesOK, CopiesOK', NEW m \in 1..MaxWords, NEW d \in BodyWords,
           FillAdd(m, d)
    PROVE  Store!StoreNext
BY BignumSteps DEF FillAdd, PtrRootsAfterAdd

LEMMA FillAddFixnumSteps ==
    ASSUME HostContract, IInv, IInv', CopiesOK, NEW v \in Immediates, FillAddFixnum(v)
    PROVE  Store!StoreNext
<1>1. pc = "fill" /\ call.op = "add" /\ Return(v) /\ ptr_roots' = {} /\ mem' = mem /\ nextid' = nextid
      /\ alloc_area' = alloc_area /\ alloc_area_fresh' = alloc_area_fresh
  BY DEF FillAddFixnum, PtrRootsAfterAdd, Return, areas
<1>2. ~ InGC /\ ~ InGC'
  BY <1>1 DEF InGC, Return
<1>3. /\ AbsRequest = call /\ AbsRequest' = Store!Idle
      /\ AbsValue' = [AbsValue EXCEPT ![ArgA] = Store!None, ![ArgB] = Store!None,
                                      ![call.dst] = AbsWord(v, alloc_area)']
  BY <1>1, ReturnRead DEF CopiesOK
<1>4. AbsWord(v, alloc_area)' = Store!Imm(v)
  BY ConstantsOK DEF ConstantsOK, AbsWord, Store!Imm
<1>5. AbsObjects' = AbsObjects
  <2>1. FromHeads' = FromHeads /\ ToHeads' = ToHeads
    BY <1>1 DEF FromHeads, ToHeads, InArea, Extent
  <2>2. \A h, k : AreaOfField(h, k)' = AreaOfField(h, k)
    BY ONLY <1>1, <1>2 DEF AreaOfField
  <2>3. \A h, k : AbsField(h, k)' = AbsField(h, k)
    BY ONLY <1>1, <2>2 DEF AbsField, AbsWord, RefTo
  <2>4. \A h : AbsObject(h)' = AbsObject(h)
    BY ONLY <1>1, <2>3 DEF AbsObject
  <2>5. \A i : HeadOf(i)' = HeadOf(i)
    BY ONLY <1>1, <2>1 DEF HeadOf
  <2> QED BY ONLY <1>1, <2>4, <2>5 DEF AbsObjects
<1>6. Store!AnswerFixnum(v)
  BY <1>1, <1>3, <1>4, <1>5 DEF Store!AnswerFixnum, Store!Answer
<1> QED BY <1>6 DEF Store!StoreNext

\* Every step of a primitive answers the request, fails it, or is not seen.
LEMMA PrimitiveSteps ==
    ASSUME HostContract, IInv, IInv', CopiesOK, CopiesOK', ReachOK, PrimitiveStep
    PROVE  Store!StoreNext \/ UNCHANGED <<AbsValue, AbsObjects, nextid, AbsRequest>>
BY AllocStutters, OutOfMemorySteps, FillConsSteps, FillBignumSteps, FillAddSteps, FillAddFixnumSteps
   DEF PrimitiveStep, CopiesOK

\* The collector is not seen, but for the objects it drops when it flips.
LEMMA GcSteps ==
    ASSUME HostContract, IInv, IInv', CopiesOK, CopiesOK', ReachOK, GcStep
    PROVE  Store!StoreNext \/ UNCHANGED <<AbsValue, AbsObjects, nextid, AbsRequest>>
<1>1. /\ pc \in {"alloc", "roots", "scan"} /\ pc' \in {"roots", "scan", "slow"}
      /\ call' = call /\ nextid' = nextid
  <2>1. pc' # "assert"
    BY DEF IInv, NoAssertFails
  <2> QED BY <2>1 DEF GcStep, StartGC, GcRoot, GcRootsDone, GcScanField, GcNextObject, GcNextRound, GcFlip,
             FailAssert
<1>2. AbsRequest = call /\ AbsRequest' = call /\ call.op \in {"cons", "bignum", "add"}
  BY <1>1 DEF AbsRequest, IInv, CallOK
<1>3. CASE GcFlip
  <2>1. AbsValue' = AbsValue /\ AbsObjects' = [i \in Store!Reachable |-> AbsObjects[i]]
    BY <1>3, FlippedValues, FlippedObjects DEF CopiesOK
  <2>2. Store!Collect
    BY <1>1, <1>2, <2>1 DEF Store!Collect, Store!Pending
  <2> QED BY <2>2 DEF Store!StoreNext
<1>4. CASE ~ GcFlip
  BY <1>1, <1>2, <1>4, GcStutters
<1> QED BY <1>3, <1>4

\* The client cannot tell that there is a collector: vm_mem_gc, the allocator
\* and the primitives implement a store of objects that never move, whatever
\* the sizes of the area, the stack and the root arrays.
THEOREM StoreImplemented ==
    ASSUME HostContract
    PROVE  Spec => ImplementsObjectStore
<1>1. Init => Store!StoreInit
  <2> SUFFICES ASSUME Init PROVE Store!StoreInit
    OBVIOUS
  <2>1. AbsObjects = [i \in {} |-> Store!None]
    BY DEF Init, AbsObjects
  <2>2. AbsRequest = Store!Idle
    BY DEF Init, AbsRequest, Store!Idle
  <2>3. AbsValue = [s \in Slot |-> IF s \in RegSlot THEN Store!Imm(UNINITIALIZED) ELSE Store!None]
    <3>1. ASSUME NEW s \in Slot
          PROVE  AbsValue[s] = IF s \in RegSlot THEN Store!Imm(UNINITIALIZED) ELSE Store!None
      <4>1. IsRoot(s) <=> s \in RegSlot
        BY ConstantsOK DEF Init, IsRoot, ConstantsOK, ValSlot, StackSlot, ArgB
      <4>2. s \in RegSlot => s \notin ArgSlot
        BY SlotRanges
      <4>3. ~ is_allocated(UNINITIALIZED)
        BY ConstantsOK DEF ConstantsOK
      <4>4. s \in ArgSlot => AbsArg(s) = Store!None
        BY DEF Init, AbsArg, NoCall, Store!None
      <4>5. s \notin ArgSlot /\ IsRoot(s) => AbsWord(slot[s], AreaOfRoot(s)) = Store!Imm(UNINITIALIZED)
        BY <4>3 DEF Init, AbsWord, Store!Imm
      <4> QED BY <4>1, <4>2, <4>4, <4>5 DEF AbsValue, Store!None
    <3> QED BY <3>1 DEF AbsValue
  <2>4. nextid = 0 /\ UNINITIALIZED \in Immediates
    BY ConstantsOK DEF Init, ConstantsOK
  <2> QED BY <2>1, <2>2, <2>3, <2>4 DEF Store!StoreInit
<1>2. /\ IInv /\ IInv' /\ CopiesOK /\ CopiesOK' /\ ReachOK /\ [Next]_vars
      => [Store!StoreNext]_(Store!store)
  <2> SUFFICES ASSUME IInv, IInv', CopiesOK, CopiesOK', ReachOK, [Next]_vars
               PROVE  Store!StoreNext \/ UNCHANGED Store!store
    OBVIOUS
  <2>1. UNCHANGED <<AbsValue, AbsObjects, nextid, AbsRequest>> => UNCHANGED Store!store
    BY DEF Store!store
  <2>2. CASE UNCHANGED vars
    BY <2>1, <2>2, VarsKept
  <2> QED BY <2>1, <2>2, ClientSteps, PrimitiveSteps, GcSteps DEF Next
<1> QED BY <1>1, <1>2, InvariantHolds, CopiesHold, OnlyReachableKept, PTL
    DEF Spec, ImplementsObjectStore, Store!StoreSpec
=============================================================================
