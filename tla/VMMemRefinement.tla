--------------------------- MODULE VMMemRefinement ---------------------------
(***************************************************************************)
(* VMMem implements ObjectStore.  The mapping reads every word in the area *)
(* it refers to at that moment: while the collector runs, words it has     *)
(* visited refer to the new area, the others to the old one, so that each  *)
(* of its steps but the last leaves the store unchanged, and the last one, *)
(* the flip, drops exactly the unreachable objects.                        *)
(***************************************************************************)
EXTENDS VMMem

\* The object whose head is at h, under the name it was created with.
RefTo(h) == IF h \in DOMAIN mem THEN <<"ref", mem[h].id>> ELSE <<"wild", h>>
AbsWord(w, area) == IF is_allocated(w) THEN RefTo(area + w) ELSE <<"imm", w>>

AbsArg(s) ==
    CASE call.op = "cons" -> AbsWord(slot[s], alloc_area)
      [] call.op = "add" -> IF is_fixnum(slot[s]) THEN <<"imm", slot[s]>>
                            ELSE RefTo(slot[s] - WordSize)
      [] OTHER -> <<"none", 0>>

AbsValue == [s \in Slot |->
               IF s \in ArgSlot THEN AbsArg(s)
               ELSE IF IsRoot(s) THEN AbsWord(slot[s], AreaOfRoot(s))
               ELSE <<"none", 0>>]

\* A copied object is read in its copy.
HeadOf(i) == LET heads == {h \in DOMAIN mem : mem[h].id = i}
             IN  IF heads \cap ToHeads # {} THEN CHOOSE h \in heads \cap ToHeads : TRUE
                                            ELSE CHOOSE h \in heads : TRUE
AbsField(h, k) == IF TYPE_IS_BINARY(mem[h].type) THEN <<"digit", mem[h].body[k]>>
                  ELSE AbsWord(mem[h].body[k], AreaOfField(h, k))
AbsObject(h) == [type |-> IF mem[h].type = TYPE_PAIR THEN "pair" ELSE "bignum",
                 body |-> [k \in 1..mem[h].size |-> AbsField(h, k)]]
AbsObjects == [i \in {mem[h].id : h \in DOMAIN mem} |-> AbsObject(HeadOf(i))]

AbsRequest ==
    CASE pc = "run" -> [op |-> "none", n |-> 0, len |-> 0, dst |-> 0]
      [] pc = "die" -> [op |-> IF call.op = "none" THEN "stopped" ELSE "failed",
                        n |-> 0, len |-> 0, dst |-> 0]
      [] pc = "assert" -> [op |-> "crashed", n |-> 0, len |-> 0, dst |-> 0]
      [] OTHER -> call

Store == INSTANCE ObjectStore WITH
    Variable <- Slot,
    Permanent <- RegSlot,
    Immediate <- Immediates,
    Digit <- BodyWords,
    MaxDigits <- MaxWords,
    Capacity <- numheapwords - 1,
    value <- AbsValue,
    objects <- AbsObjects,
    created <- nextid,
    request <- AbsRequest

\* The collector copies only what the client can reach, and drops the rest.
ReachOK ==
    /\ InGC => \A h \in ToHeads : mem[h].id \in Store!Reachable
    /\ pc = "slow" => \A h \in DOMAIN mem : mem[h].id \in Store!Reachable

\* The client cannot tell that there is a collector: every step of the
\* allocator, of the primitives and of vm_mem_gc is a step of the object store
\* or changes nothing in it.
ImplementsObjectStore == Store!StoreSpec
=============================================================================
