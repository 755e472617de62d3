------------------------------ MODULE VMMemInv ------------------------------
(***************************************************************************)
(* The inductive invariant of VMMem: what holds at every step of the       *)
(* collector, the allocator and the primitives.  VMMemProofs proves that   *)
(* it is inductive and that it implies the safety properties.              *)
(***************************************************************************)
EXTENDS VMMem, FiniteSets

ToEnd == alloc_area_fresh + alloc_size

\* Heads are word-aligned, pairs have two fields of which the last is an
\* immediate, and no object is too long for the collector.
ObjectsOK ==
    \A h \in DOMAIN mem :
        /\ h % 2 = 0
        /\ mem[h].size < GcLenLimit
        /\ mem[h].type = TYPE_PAIR => /\ mem[h].size = 2
                                      /\ ~ is_allocated(mem[h].body[2])

\* Old objects are whole or forwarded to a copy, copies are whole; nothing is
\* forwarded outside a collection.
ForwardOK ==
    /\ \A h \in ToHeads : mem[h].numwords = mem[h].size
    /\ \A h \in FromHeads :
         \/ mem[h].numwords = mem[h].size
         \/ /\ InGC
            /\ mem[h].numwords = 0
            /\ is_allocated(mem[h].body[1])
            /\ Refers(mem[h].body[1], alloc_area_fresh)

\* The copies fill the new area from newptr to its end without a gap.
Tiles ==
    InGC =>
        /\ newptr \in ToHeads \cup {ToEnd}
        /\ \A h \in ToHeads : /\ newptr <= h
                              /\ h + Extent(h) \in ToHeads \cup {ToEnd}

\* The scan: [old_start, ptr) and everything from end on has been visited,
\* what lies below old_start is left to the next round.
ScanOK ==
    /\ pc = "roots" => /\ ptr = ToEnd /\ old_start = ToEnd /\ end = ToEnd
                       /\ fld = 1
                       /\ root \in 1..(LastSlot + 1)
                       /\ root <= LastSlot => IsRoot(root)
    /\ pc = "scan" => /\ {ptr, old_start, end} \subseteq ToHeads \cup {ToEnd}
                      /\ newptr <= old_start
                      /\ old_start <= ptr
                      /\ ptr <= end
                      /\ fld >= 1
                      /\ ptr = end => fld = 1

\* The bytes of the old area whose objects have been copied.
Bytes(h) == h..(h + Extent(h) - 1)
Moved == {h \in FromHeads : mem[h].numwords = 0}
MovedBytes == UNION {Bytes(h) : h \in Moved}

\* The copies take as much room as the objects they were copied from: this is
\* why the new area cannot overflow and its first word stays free.
SpaceOK == InGC => Cardinality(MovedBytes) = ToEnd - newptr

\* The allocation pointer, and the words it has just passed.
AllocOK ==
    /\ alloc_ptr % 2 = 0
    /\ alloc_area < alloc_ptr
    /\ alloc_ptr <= alloc_area + alloc_size
    /\ pc = "fill" => alloc_ptr + WordSize * call.n <= alloc_area + alloc_size

\* The running primitive: how much it asked for, that the arguments of a CONS
\* that collects are immediate, and that those of a sum are registered.
CallOK ==
    /\ pc \in {"alloc", "roots", "scan", "slow", "fill"} =>
         \/ call.op = "cons" /\ call.n = 3
         \/ /\ call.op = "bignum"
            /\ call.n = call.len + 1 /\ call.len \in 1..MaxWords
         \/ call.op = "add" /\ call.n = call.len + 2
    /\ call.op = "cons" =>
         /\ ~ is_allocated(slot[ArgB])
         /\ is_allocated(slot[ArgA]) => \/ pc = "alloc" /\ Fits(3)
                                        \/ pc = "fill"
    /\ call.op = "add" => \A s \in ArgSlot : is_fixnum(slot[s]) \/ s \in ptr_roots
    /\ ptr_roots # {} => call.op = "add"
    /\ pc = "run" => call = NoCall

IInv == /\ TypeOK /\ NoAssertFails /\ HeapLayout /\ PointersOK
        /\ ObjectsOK /\ ForwardOK /\ Tiles /\ ScanOK /\ SpaceOK /\ AllocOK
        /\ CallOK

-----------------------------------------------------------------------------
(***************************************************************************)
(* What is inductive on top of IInv: which objects the copies are of, and  *)
(* how much room objects take.                                             *)
(***************************************************************************)
\* An object has one head in each area at most; the copies are of the objects
\* that forward to them.
IdsOK ==
    /\ \A h \in DOMAIN mem : mem[h].id < nextid
    /\ \A g, h \in FromHeads : mem[g].id = mem[h].id => g = h
    /\ \A g, h \in ToHeads : mem[g].id = mem[h].id => g = h
    /\ \A h \in FromHeads : mem[h].numwords = 0 =>
         LET copy == alloc_area_fresh + mem[h].body[1]
         IN  copy \in ToHeads /\ mem[copy].id = mem[h].id
    /\ \A g \in ToHeads : \E h \in FromHeads :
         mem[h].numwords = 0 /\ mem[h].id = mem[g].id

\* A bignum has MaxWords words at most, and the sum of two one more.
LengthsOK ==
    /\ \A h \in DOMAIN mem : mem[h].type = TYPE_BIGNUM => mem[h].size <= MaxWords
    /\ call.op = "add" => call.n = call.len + 2 /\ call.len \in 1..MaxWords
    /\ call.op = "bignum" => call.n = call.len + 1 /\ call.len \in 1..2
    /\ call.op = "cons" => call.n = 3 /\ call.len = 2
    /\ call.op # "none" => call.dst \in ClientRegs

\* After a collection the objects fill the area from alloc_ptr to its end.
CompactOK ==
    pc = "slow" =>
        /\ alloc_ptr \in FromHeads \cup {alloc_area + alloc_size}
        /\ \A h \in FromHeads : h + Extent(h) \in FromHeads \cup {alloc_area + alloc_size}

CopiesOK == IdsOK /\ LengthsOK /\ CompactOK
=============================================================================
