------------------------------ MODULE VMProofs ------------------------------
(***************************************************************************)
(* The interpreter keeps every value it can still use where the collector  *)
(* finds it, and its arithmetic opcodes compute what they should, for      *)
(* every stack length, fixnum range and program of SafeCode.               *)
(***************************************************************************)
EXTENDS VMCall, TLAPS

(***************************************************************************)
(* Values.                                                                 *)
(***************************************************************************)
\* A two's complement number is in range, whatever it was made from.
LEMMA WrapRange ==
    ASSUME NEW n \in Int, NEW half \in Nat \ {0}
    PROVE  Wrap(n, half) \in -half..(half - 1)
<1>1. PICK m \in Nat : m = 2 * half /\ m > 0
  OBVIOUS
<1>2. PICK k \in Int : k = n + half
  OBVIOUS
<1>3. k % m \in 0..(m - 1)
  BY <1>1
<1> QED BY <1>1, <1>2, <1>3 DEF Wrap

\* A number in range stays what it is.
LEMMA WrapExact ==
    ASSUME NEW half \in Nat \ {0}, NEW n \in -half..(half - 1)
    PROVE  Wrap(n, half) = n
<1>1. PICK m \in Nat : m = 2 * half /\ m > 0
  OBVIOUS
<1>2. PICK k \in Nat : k = n + half /\ k < m
  BY <1>1
<1>3. k % m = k
  BY <1>1, <1>2
<1> QED BY <1>1, <1>2, <1>3 DEF Wrap

LEMMA Constants ==
    /\ MaxSP \in Nat /\ stacklen \in Nat /\ stacklen <= MaxSP /\ FixRange \in Nat \ {0} /\ 8 * FixRange \in Nat \ {0}
    /\ Slots = 0..(stacklen - 1)
BY VMConstants DEF VMConstants, Slots

LEMMA WordsInRange ==
    ASSUME NEW n \in Int
    PROVE  SignedWord(n) \in -(8 * FixRange)..(8 * FixRange - 1)
BY Constants, WrapRange DEF SignedWord

\* What the interpreter makes is live: fixnums, return addresses, the results
\* of arithmetic.
LEMMA FixnumsLive ==
    ASSUME NEW n \in Int
    PROVE  FIX(n) \in Live /\ is_fixnum(FIX(n))
<1>1. Wrap(n, FixRange) \in -FixRange..(FixRange - 1)
  BY Constants, WrapRange
<1>2. PICK k \in Int : k = Wrap(n, FixRange) /\ -FixRange <= k /\ k < FixRange
  BY <1>1, Constants
<1> QED BY <1>2 DEF FIX, Live, Fitting, Value, IsInteger, is_fixnum, InFixRange

LEMMA ResultsLive ==
    ASSUME NEW n \in Int
    PROVE  ToScm(n) \in Live
<1>1. CASE InFixRange(n)
  BY <1>1, FixnumsLive DEF ToScm
<1>2. CASE ~ InFixRange(n)
  BY <1>2 DEF ToScm, Live, Fitting, Value, IsInteger, is_fixnum
<1> QED BY <1>1, <1>2

LEMMA AddressesLive ==
    ASSUME NEW n \in Nat
    PROVE  PCNUM(n) \in Live
<1>1. n % 8192 \in Int
  OBVIOUS
<1> QED BY <1>1 DEF PCNUM, Live, Fitting, Value, IsInteger, is_fixnum

LEMMA NumbersLive ==
    ASSUME NEW kind \in {"fixnum", "special"}, NEW B, NEW v \in OfBits(kind, B)
    PROVE  v \in Live
<1>1. PICK n \in Numbers(kind) : v = [kind |-> kind, n |-> n]
  BY DEF OfBits
<1>2. n \in Int /\ (kind = "fixnum" => -FixRange <= n /\ n < FixRange)
  BY <1>1, Constants DEF Numbers
<1> QED BY <1>1, <1>2 DEF Live, Fitting, Value, IsInteger, is_fixnum, InFixRange

LEMMA LiveFacts ==
    /\ Live \subseteq Fitting /\ Fitting \subseteq Value /\ UNINITIALIZED \in Live
    /\ Dangling \in Fitting /\ Dangling \notin Live
    /\ \A v \in Value : v.n \in Int
    /\ \A v \in Fitting : Lost(v) \in Fitting
BY DEF Live, Fitting, Value, UNINITIALIZED, SPECIAL, Dangling, IsInteger, is_fixnum, Lost

-----------------------------------------------------------------------------
(***************************************************************************)
(* Primitives that may collect.                                            *)
(***************************************************************************)
\* Used slots are slots.
LEMMA SlotFacts ==
    ASSUME NEW sp \in 0..stacklen, NEW i \in Nat, i < sp
    PROVE  i \in Slots
BY Constants

\* What a primitive does when what it decides is given: whether it collects and
\* whether it copies the registers, the process then, and what it restores.
PrimitiveCase(how, s, sp, n, toRegs, toSlots, drop, collect, copies, p, restored) ==
    /\ p = IF copies THEN Stored(how.store, sp) ELSE proc
    /\ restored = IF copies THEN how.restore ELSE {}
    /\ status' = IF collect /\ RootDangles(p, s) THEN "undefined" ELSE "run"
    /\ proc' = p
    /\ reg' = [r \in Regs |-> CASE r \in restored /\ (r \notin toRegs \/ ~ how.lazy) -> p.reg[r]
                                [] r \in toRegs /\ (r \notin restored \/ how.lazy) -> ToScm(n)
                                [] OTHER -> IF collect THEN Lost(reg[r]) ELSE reg[r]]
    /\ vals' = [i \in Slots |-> CASE i \in toSlots -> ToScm(n)
                                 [] i \notin toSlots /\ collect /\ i >= p.sp -> Lost(s[i])
                                 [] OTHER -> s[i]]
    /\ SP' = (IF "SP" \in restored THEN p.sp ELSE sp) - drop

\* The registers a primitive stores are all but those its result goes to, and it
\* stores them, or the process has copies of them already.
Saves(how, saved, toRegs, s) ==
    /\ (saved = ALL /\ toRegs = {}) \/ (saved = EXCEPT_A /\ toRegs = {"A"})
    /\ \/ how = Always(saved)
       \/ how = Lazily(saved) /\ \A i \in Slots : i < proc.sp => s[i] \in Live

\* Nothing has changed but what the result is put into.
Outcome(s, sp, n, toRegs, toSlots, drop) ==
    /\ status' = "run"
    /\ reg' = [r \in Regs |-> IF r \in toRegs THEN ToScm(n) ELSE reg[r]]
    /\ SP' = sp - drop
    /\ vals' \in [Slots -> Fitting]
    /\ \A i \in Slots : i \in toSlots => vals'[i] = ToScm(n)
    /\ \A i \in Slots : i \notin toSlots /\ i < sp => vals'[i] = s[i]
    /\ \A i \in Slots : i < SP' \/ i < proc'.sp => vals'[i] \in Live
    /\ proc' \in [reg : [Regs -> Live], sp : 0..stacklen]

\* Whether or not it copies the registers, and whether or not it collects, a
\* primitive that stores all but the registers its result goes to changes
\* nothing but what its result is put into.
LEMMA PrimitiveEffect ==
    ASSUME MachineOK, NEW s \in [Slots -> Fitting], NEW sp \in 0..stacklen,
           \A i \in Slots : i < sp => s[i] \in Live,
           NEW how, NEW saved, NEW toRegs,
           Saves(how, saved, toRegs, s),
           NEW operands, NEW n \in Int, NEW toSlots, NEW drop \in Nat, drop <= sp,
           Primitive(how, s, sp, operands, n, toRegs, toSlots, drop)
    PROVE  Outcome(s, sp, n, toRegs, toSlots, drop)
<1> USE DEF Outcome, Saves
<1> DEFINE copied(collect) == ~ how.lazy \/ collect \/ \E v \in operands : ~ is_fixnum(v)
           after(collect) == IF copied(collect) THEN Stored(how.store, sp) ELSE proc
           from(collect) == IF copied(collect) THEN how.restore ELSE {}
<1>a. PICK collect \in BOOLEAN :
         /\ status' = IF collect /\ RootDangles(after(collect), s) THEN "undefined" ELSE "run"
         /\ proc' = after(collect)
         /\ reg' = [r \in Regs |-> CASE r \in from(collect) /\ (r \notin toRegs \/ ~ how.lazy) -> after(collect).reg[r]
                                     [] r \in toRegs /\ (r \notin from(collect) \/ how.lazy) -> ToScm(n)
                                     [] OTHER -> IF collect THEN Lost(reg[r]) ELSE reg[r]]
         /\ vals' = [i \in Slots |-> CASE i \in toSlots -> ToScm(n)
                                      [] i \notin toSlots /\ collect /\ i >= after(collect).sp -> Lost(s[i])
                                      [] OTHER -> s[i]]
         /\ SP' = (IF "SP" \in from(collect) THEN after(collect).sp ELSE sp) - drop
  BY DEF Primitive
<1>1. PICK copies, p, restored :
         /\ copies \in BOOLEAN /\ (copies <=> copied(collect))
         /\ PrimitiveCase(how, s, sp, n, toRegs, toSlots, drop, collect, copies, p, restored)
  <2>1. PrimitiveCase(how, s, sp, n, toRegs, toSlots, drop, collect, copied(collect), after(collect), from(collect))
    BY <1>a DEF PrimitiveCase
  <2>2. copied(collect) \in BOOLEAN
    OBVIOUS
  <2> HIDE DEF copied, after, from
  <2> QED BY <2>1, <2>2
<1> HIDE DEF copied, after, from
<1> USE DEF PrimitiveCase
<1>2. how.store = saved /\ how.restore = saved /\ how.lazy \in BOOLEAN
  <2>1. CASE how = Always(saved)
    BY ONLY <2>1 DEF Always
  <2>2. CASE how = Lazily(saved)
    BY ONLY <2>2 DEF Lazily
  <2> QED BY <2>1, <2>2
<1>3. "SP" \in saved /\ "A" \in Regs /\ \A r \in Regs : r \in saved <=> r \notin toRegs
  BY DEF ALL, EXCEPT_A, Regs
<1>4. ToScm(n) \in Live /\ ToScm(n) \in Fitting
  BY ResultsLive, LiveFacts
<1>5. /\ reg \in [Regs -> Live] /\ proc \in [reg : [Regs -> Live], sp : 0..stacklen]
  BY DEF MachineOK
<1>6. p \in [reg : [Regs -> Live], sp : 0..stacklen] /\ \A i \in Slots : i < p.sp => s[i] \in Live
  <2>1. CASE copies
    <3>1. p = Stored(saved, sp)
      BY <1>1, <1>2, <2>1
    <3>2. p = [reg |-> [r \in Regs |-> IF r \in saved THEN reg[r] ELSE proc.reg[r]], sp |-> sp]
      BY <1>3, <3>1 DEF Stored
    <3> QED BY <1>5, <3>2
  <2>2. CASE ~ copies
    <3>1. p = proc /\ how.lazy
      BY <1>1, <2>2 DEF copied
    <3>2. how = Lazily(saved)
      BY <3>1 DEF Always
    <3> QED BY <1>5, <3>1, <3>2 DEF Always, Lazily
  <2> QED BY <2>1, <2>2
<1>7. copies => p.sp = sp /\ restored = saved /\ \A r \in Regs : r \in saved => p.reg[r] = reg[r]
  BY <1>1, <1>2, <1>3 DEF Stored
<1>8. ~ RootDangles(p, s)
  <2>1. \A i \in 0..(p.sp - 1) : s[i] # Dangling
    <3> SUFFICES ASSUME NEW i \in 0..(p.sp - 1) PROVE s[i] # Dangling
      OBVIOUS
    <3>1. p.sp \in 0..stacklen
      BY <1>6
    <3>2. i \in Slots /\ i < p.sp
      BY <3>1, Constants
    <3> QED BY <1>6, <3>2, LiveFacts
  <2>2. \A r \in Regs : p.reg[r] # Dangling
    BY <1>6, LiveFacts
  <2> QED BY <2>1, <2>2 DEF RootDangles
<1>9. status' = "run"
  BY <1>1, <1>8
<1>10. collect \/ ~ how.lazy => copies
  BY <1>1 DEF copied
<1>11. \A r \in Regs : reg'[r] = IF r \in toRegs THEN ToScm(n) ELSE reg[r]
  <2> SUFFICES ASSUME NEW r \in Regs PROVE reg'[r] = IF r \in toRegs THEN ToScm(n) ELSE reg[r]
    OBVIOUS
  <2>1. reg'[r] = CASE r \in restored /\ (r \notin toRegs \/ ~ how.lazy) -> p.reg[r]
                    [] r \in toRegs /\ (r \notin restored \/ how.lazy) -> ToScm(n)
                    [] OTHER -> IF collect THEN Lost(reg[r]) ELSE reg[r]
    BY <1>1
  <2>2. CASE copies
    BY <1>3, <1>7, <2>1, <2>2
  <2>3. CASE ~ copies
    BY <1>1, <1>10, <2>1, <2>3
  <2> QED BY <2>2, <2>3
<1>12. reg' = [r \in Regs |-> IF r \in toRegs THEN ToScm(n) ELSE reg[r]]
  BY <1>1, <1>11
<1>13. SP' = sp - drop
  BY <1>1, <1>3, <1>7
<1>14. ASSUME NEW i \in Slots
       PROVE  /\ i \in toSlots => vals'[i] = ToScm(n)
              /\ i \notin toSlots /\ i < sp => vals'[i] = s[i]
              /\ i < p.sp => vals'[i] \in Live
              /\ vals'[i] \in Fitting
  <2>1. vals'[i] = CASE i \in toSlots -> ToScm(n)
                     [] i \notin toSlots /\ collect /\ i >= p.sp -> Lost(s[i])
                     [] OTHER -> s[i]
    BY <1>1
  <2>2. i \in Nat /\ p.sp \in Nat /\ sp \in Nat
    BY <1>6, Constants
  <2>3. CASE i \in toSlots
    BY <1>4, <2>1, <2>3
  <2>4. CASE i \notin toSlots /\ collect /\ i >= p.sp
    <3>1. ~ (i < p.sp) /\ ~ (i < sp)
      BY <1>7, <1>10, <2>2, <2>4
    <3>2. vals'[i] = Lost(s[i])
      BY <2>1, <2>4
    <3> QED BY <2>4, <3>1, <3>2, LiveFacts
  <2>5. CASE i \notin toSlots /\ ~ (collect /\ i >= p.sp)
    <3>1. vals'[i] = s[i]
      BY <2>1, <2>5
    <3> QED BY <1>6, <2>5, <3>1
  <2> QED BY <2>3, <2>4, <2>5
<1>15. vals' \in [Slots -> Fitting]
  BY <1>1, <1>14
<1>16. ASSUME NEW i \in Slots, i < SP' \/ i < proc'.sp PROVE vals'[i] \in Live
  <2>1. CASE i < proc'.sp
    BY <1>1, <1>14, <2>1
  <2>2. CASE i < SP'
    <3>1. i < sp
      <4>1. i \in Nat /\ sp \in Nat
        BY Constants
      <4> QED BY <1>13, <2>2, <4>1
    <3> QED BY <1>4, <1>14, <3>1
  <2> QED BY <1>16, <2>1, <2>2
<1> QED BY <1>1, <1>6, <1>9, <1>12, <1>13, <1>14, <1>15, <1>16

-----------------------------------------------------------------------------
(***************************************************************************)
(* The state an instruction meets.                                         *)
(***************************************************************************)
\* The used slots hold live values.
LEMMA RefLive ==
    ASSUME MachineOK, NEW i \in Nat, i < SP
    PROVE  Ref(i) \in Live /\ SP - 1 - i \in Slots /\ Ref(i).n \in Int
<1>1. SP \in 0..stacklen /\ vals \in [Slots -> Fitting] /\ \A j \in Slots : j < SP => vals[j] \in Live
  BY DEF MachineOK
<1>2. PICK j \in Nat : j = (SP - 1) - i /\ j < SP /\ j < stacklen
  BY <1>1, Constants
<1>3. j \in Slots
  BY <1>2, Constants
<1>4. Ref(i) = vals[j]
  BY <1>2 DEF Ref
<1> QED BY <1>1, <1>2, <1>3, <1>4, LiveFacts

LEMMA MaxOfTwo ==
    ASSUME NEW a \in Nat, NEW b \in Nat
    PROVE  Max({a, b}) \in Nat /\ a <= Max({a, b}) /\ b <= Max({a, b})
<1>1. \E x \in {a, b} : \A y \in {a, b} : x >= y
  <2>1. CASE a >= b
    BY <2>1
  <2>2. CASE b >= a
    BY <2>2
  <2> QED BY <2>1, <2>2
<1>2. Max({a, b}) \in {a, b} /\ \A y \in {a, b} : Max({a, b}) >= y
  BY <1>1 DEF Max
<1> QED BY <1>2

\* How many slots an instruction that fits finds in use and free.
LEMMA Room ==
    ASSUME NEW x, Fits(x), SP \in 0..stacklen, WellFormed(x)
    PROVE  /\ x.op \in Top1 => 1 <= SP
           /\ x.op \in Top2 => 2 <= SP
           /\ x.op \in {"pick_b", "inc_", "add__"} => x.b1 < SP
           /\ x.op = "add__" => x.b2 < SP
           /\ x.op \in {"push", "pushw", "push_im", "pick_b", "dup", "inc_", "jsr_rel8"}
                 => SP + 1 <= stacklen
           /\ x.op = "frame_jsr_rel8_1" => SP + 2 <= stacklen
<1>0. SP \in Nat /\ stacklen \in Nat /\ x.b1 \in Nat /\ x.b2 \in Nat
  BY Constants DEF WellFormed
<1>1. Has(x) <= SP /\ Free(x) <= stacklen - SP
  BY DEF Fits
<1>2. ASSUME x.op \in Top1 PROVE Has(x) = 1
  BY <1>2 DEF Has, Top1, Top2
<1>3. ASSUME x.op \in Top2 PROVE Has(x) = 2
  BY <1>3 DEF Has, Top1, Top2
<1>4. ASSUME x.op \in {"pick_b", "inc_"} PROVE Has(x) = x.b1 + 1
  BY <1>4 DEF Has, Top1, Top2
<1>5. ASSUME x.op = "add__" PROVE Has(x) = Max({x.b1, x.b2}) + 1
  BY <1>5 DEF Has, Top1, Top2
<1>6. x.op = "add__" => x.b1 < SP /\ x.b2 < SP
  <2> SUFFICES ASSUME x.op = "add__" PROVE x.b1 < SP /\ x.b2 < SP
    OBVIOUS
  <2>1. PICK m \in Nat : m = Max({x.b1, x.b2}) /\ x.b1 <= m /\ x.b2 <= m
    BY <1>0, MaxOfTwo
  <2>2. m + 1 <= SP
    BY <1>1, <1>5, <2>1
  <2> QED BY <1>0, <2>1, <2>2
<1>7. ASSUME x.op \in {"push", "pushw", "push_im", "pick_b", "dup", "inc_", "jsr_rel8"}
      PROVE  Free(x) = 1
  BY <1>7 DEF Free
<1>8. ASSUME x.op = "frame_jsr_rel8_1" PROVE Free(x) = 2
  BY <1>8 DEF Free
<1> QED BY <1>0, <1>1, <1>2, <1>3, <1>4, <1>6, <1>7, <1>8

\* Where STACK_ALLOC cannot wrap, its check is that there is a free slot.
LEMMA AllocRoom ==
    ASSUME NEW x, Fits(x), SP \in 0..stacklen, x.op = "jsr_rel8__swap", AllocIsSafe
    PROVE  SP + 1 <= stacklen
<1>1. (SP + 1) % (MaxSP + 1) <= stacklen
  BY DEF Fits, Alloc
<1>2. PICK n \in Nat, m \in Nat : n = SP + 1 /\ m = MaxSP + 1 /\ n < m
  BY Constants DEF AllocIsSafe
<1>3. n % m = n
  BY <1>2
<1> QED BY <1>1, <1>2, <1>3

\* What an opcode hands to a primitive is live.
LEMMA OperandsLive ==
    ASSUME MachineOK, NEW x, WellFormed(x), x.op \notin Excluded, Fits(x), Verified(x)
    PROVE  Operands(x) \subseteq Live /\ \A v \in Operands(x) : v.n \in Int
<1>0. SP \in 0..stacklen /\ SP \in Nat /\ x.b1 \in Nat /\ x.b2 \in Nat /\ reg.A \in Live
  BY Constants DEF MachineOK, WellFormed, Regs
<1>1. Operands(x) \subseteq Live
  <2>1. CASE x.op \in {"inc", "dec", "add_im", "cmpbr_keep_lt_im_rel8", "addA"}
    <3>1. 1 <= SP
      BY <2>1, Room, <1>0 DEF Top1
    <3>2. Ref(0) \in Live
      BY <1>0, <3>1, RefLive
    <3> QED BY <1>0, <2>1, <3>2 DEF Operands, WellFormed
  <2>2. CASE x.op \in {"add", "swap__dec"}
    <3>1. 2 <= SP
      BY <2>2, Room, <1>0 DEF Top2
    <3>2. Ref(0) \in Live /\ Ref(1) \in Live
      BY <1>0, <3>1, RefLive
    <3> QED BY <2>2, <3>2 DEF Operands
  <2>3. CASE x.op \in {"inc_", "add__"}
    <3>1. x.b1 < SP /\ (x.op = "add__" => x.b2 < SP)
      BY <2>3, Room, <1>0
    <3>2. Ref(x.b1) \in Live /\ (x.op = "add__" => Ref(x.b2) \in Live)
      BY <1>0, <3>1, RefLive
    <3> QED BY <2>3, <3>2 DEF Operands
  <2>4. CASE x.op = "unsafe_addA_"
    <3>1. x.b1 < SP
      BY <2>4 DEF Verified
    <3>2. Ref(x.b1) \in Live
      BY <1>0, <3>1, RefLive
    <3> QED BY <1>0, <2>4, <3>2 DEF Operands
  <2>5. CASE x.op \in {"incA", "decA"}
    BY <1>0, <2>5 DEF Operands
  <2>6. CASE x.op = "cmpbr_A_lt_im_rel8"
    BY <1>0, <2>6 DEF Operands, WellFormed
  <2>7. CASE x.op \notin {"inc", "dec", "add_im", "cmpbr_keep_lt_im_rel8", "addA", "add", "swap__dec", "inc_",
                          "add__", "unsafe_addA_", "incA", "decA", "cmpbr_A_lt_im_rel8"}
    BY <2>7 DEF Operands, Excluded
  <2> QED BY <2>1, <2>2, <2>3, <2>4, <2>5, <2>6, <2>7
<1>2. \A v \in Operands(x) : v.n \in Int
  BY <1>1, LiveFacts
<1> QED BY <1>1, <1>2

-----------------------------------------------------------------------------
(***************************************************************************)
(* Effects.                                                                *)
(***************************************************************************)
\* The interpreter goes on, with its registers and its stack in order.
GoesOn == MachineOK' /\ status' = "run"

LEMMA RegEffect ==
    ASSUME MachineOK, status = "run", NEW r \in Regs, NEW v \in Live, SetReg(r, v)
    PROVE  GoesOn
<1>1. reg' \in [Regs -> Live]
  BY DEF MachineOK, SetReg
<1> QED BY <1>1 DEF MachineOK, SetReg, Running, GoesOn

LEMMA WordEffect ==
    ASSUME MachineOK, status = "run", NEW w \in WordRegs, NEW n \in Int, SetWord(w, n)
    PROVE  GoesOn
<1>1. SignedWord(n) \in -(8 * FixRange)..(8 * FixRange - 1)
  BY WordsInRange
<1>2. word' \in [WordRegs -> -(8 * FixRange)..(8 * FixRange - 1)]
  BY <1>1 DEF MachineOK, SetWord
<1> QED BY <1>2 DEF MachineOK, SetWord, Running, GoesOn

LEMMA StackEffect ==
    ASSUME MachineOK, status = "run", NEW s \in [Slots -> Fitting], NEW sp \in 0..stacklen,
           \A i \in Slots : i < sp \/ i < proc.sp => s[i] \in Live, SetStack(s, sp)
    PROVE  GoesOn
BY DEF MachineOK, SetStack, Running, GoesOn

\* Writing a live value into a slot.
LEMMA OneSlot ==
    ASSUME MachineOK, NEW i \in Slots, NEW v \in Live
    PROVE  /\ [vals EXCEPT ![i] = v] \in [Slots -> Fitting]
           /\ [vals EXCEPT ![i] = v][i] = v
           /\ \A j \in Slots : j < SP \/ j < proc.sp => [vals EXCEPT ![i] = v][j] \in Live
BY LiveFacts DEF MachineOK

LEMMA SlotEffect ==
    ASSUME MachineOK, status = "run", NEW i \in Nat, i < SP, NEW v \in Live, SetSlot(i, v)
    PROVE  GoesOn
<1>1. SP - 1 - i \in Slots /\ SP \in 0..stacklen
  BY RefLive DEF MachineOK
<1> DEFINE s == [vals EXCEPT ![SP - 1 - i] = v]
<1>2. s \in [Slots -> Fitting] /\ \A j \in Slots : j < SP \/ j < proc.sp => s[j] \in Live
  BY <1>1, OneSlot
<1>3. SetStack(s, SP)
  BY DEF SetSlot
<1> HIDE DEF s
<1> QED BY <1>1, <1>2, <1>3, StackEffect

LEMMA PushEffect ==
    ASSUME MachineOK, status = "run", SP + 1 <= stacklen, NEW v \in Live, Push(v)
    PROVE  GoesOn
<1>1. SP \in Slots /\ SP + 1 \in 0..stacklen /\ SP \in Nat
  BY Constants DEF MachineOK
<1> DEFINE s == [vals EXCEPT ![SP] = v]
<1>2. /\ s \in [Slots -> Fitting] /\ s[SP] = v
      /\ \A j \in Slots : j < SP \/ j < proc.sp => s[j] \in Live
  BY <1>1, OneSlot
<1>3. SetStack(s, SP + 1)
  BY DEF Push
<1> HIDE DEF s
<1>4. ASSUME NEW j \in Slots, j < SP + 1 \/ j < proc.sp PROVE s[j] \in Live
  <2>1. j \in Nat
    BY Constants
  <2>2. j < SP \/ j = SP \/ j < proc.sp
    BY <1>1, <1>4, <2>1
  <2> QED BY <1>2, <2>2
<1> QED BY <1>1, <1>2, <1>3, <1>4, StackEffect

LEMMA DropEffect ==
    ASSUME MachineOK, status = "run", NEW n \in Nat, n <= SP, Drop(n)
    PROVE  GoesOn
<1>1. SP - n \in 0..stacklen /\ SP \in Nat
  BY Constants DEF MachineOK
<1>2. ASSUME NEW j \in Slots, j < SP - n \/ j < proc.sp PROVE vals[j] \in Live
  <2>1. j \in Nat
    BY Constants
  <2>2. j < SP \/ j < proc.sp
    BY <1>1, <1>2, <2>1
  <2> QED BY <2>2 DEF MachineOK
<1>3. vals \in [Slots -> Fitting]
  BY DEF MachineOK
<1> QED BY <1>1, <1>2, <1>3, StackEffect DEF Drop

LEMMA SkipEffect ==
    ASSUME MachineOK, status = "run", Skip
    PROVE  GoesOn
BY DEF MachineOK, Skip, Running, GoesOn, machine

LEMMA PopEffect ==
    ASSUME MachineOK, status = "run", 1 <= SP, NEW r \in Regs, NEW v \in Live,
           reg' = [reg EXCEPT ![r] = v], SP' = SP - 1, UNCHANGED <<word, vals, proc, status>>
    PROVE  GoesOn
<1>1. reg' \in [Regs -> Live]
  BY DEF MachineOK
<1>2. SP \in 0..stacklen /\ SP \in Nat /\ SP' \in 0..stacklen
  BY Constants DEF MachineOK
<1>3. ASSUME NEW j \in Slots, j < SP' \/ j < proc.sp PROVE vals[j] \in Live
  <2>1. j \in Nat
    BY Constants
  <2>2. j < SP \/ j < proc.sp
    BY <1>2, <1>3, <2>1
  <2> QED BY <2>2 DEF MachineOK
<1> QED BY <1>1, <1>2, <1>3 DEF MachineOK, GoesOn

\* The two uppermost slots, exchanged.
LEMMA SwappedFacts ==
    ASSUME MachineOK, 2 <= SP
    PROVE  /\ Swapped \in [Slots -> Fitting]
           /\ \A j \in Slots : j < SP \/ j < proc.sp => Swapped[j] \in Live
           /\ SP - 1 \in Slots /\ SP - 2 \in Slots
           /\ Swapped[SP - 1] = Ref(1) /\ Swapped[SP - 2] = Ref(0)
           /\ \A j \in Slots : j < SP - 2 => Swapped[j] = vals[j]
<1>0. SP \in 0..stacklen /\ SP \in Nat /\ vals \in [Slots -> Fitting] /\ \A j \in Slots : j < SP => vals[j] \in Live
  BY Constants DEF MachineOK
<1>1. PICK a \in Slots, b \in Slots : a = SP - 1 /\ b = SP - 2 /\ a < SP /\ b < SP /\ a # b
  BY <1>0, Constants
<1>2. vals[a] = Ref(0) /\ vals[b] = Ref(1)
  <2>1. SP - 1 - 0 = a /\ SP - 1 - 1 = b
    BY <1>0, <1>1
  <2> QED BY <2>1 DEF Ref
<1>3. Swapped = [vals EXCEPT ![a] = vals[b], ![b] = vals[a]]
  BY <1>1 DEF Swapped
<1>4. vals[a] \in Live /\ vals[b] \in Live
  BY <1>0, <1>1
<1>5. Swapped \in [Slots -> Fitting] /\ Swapped[a] = vals[b] /\ Swapped[b] = vals[a]
  BY <1>0, <1>1, <1>3, <1>4, LiveFacts
<1>6. \A j \in Slots : j < SP \/ j < proc.sp => Swapped[j] \in Live
  BY <1>0, <1>3, <1>4, <1>5 DEF MachineOK
<1>7. ASSUME NEW j \in Slots, j < SP - 2 PROVE Swapped[j] = vals[j]
  <2>1. j # a /\ j # b
    BY <1>0, <1>1, <1>7, Constants
  <2> QED BY <1>0, <1>3, <2>1
<1> QED BY <1>1, <1>2, <1>5, <1>6, <1>7

\* The copies of the process stay what they are when only the one of SP is
\* brought up to date.
LEMMA StoredSPFacts ==
    ASSUME MachineOK, NEW sp \in 0..stacklen
    PROVE  /\ [proc EXCEPT !.sp = sp] \in [reg : [Regs -> Live], sp : 0..stacklen]
           /\ [proc EXCEPT !.sp = sp].sp = sp
BY DEF MachineOK

-----------------------------------------------------------------------------
(***************************************************************************)
(* The arithmetic opcodes.                                                 *)
(***************************************************************************)
\* The stack afterwards, slot by slot.
LEMMA StackAfter ==
    ASSUME NEW n \in Int, SP' = n, NEW f, f = [i \in 1..n |-> f[i]], \A i \in 1..n : vals'[i - 1] = f[i]
    PROVE  Stack' = f
BY DEF Stack

LEMMA SlotsOfStack ==
    ASSUME SP \in 0..stacklen, NEW i \in 1..SP
    PROVE  i - 1 \in Slots /\ i - 1 < SP /\ Stack[i] = vals[i - 1]
<1>1. PICK sp \in Nat : sp = SP /\ sp <= stacklen
  BY Constants
<1>2. PICK j \in Nat : j = i - 1 /\ j < sp /\ j <= stacklen - 1
  BY <1>1, Constants
<1>3. j \in Slots
  BY <1>2, Constants
<1> QED BY <1>1, <1>2, <1>3 DEF Stack

\* A result that goes to the slot k from the top, when drop slots of the stack s
\* are then given up.
StackResult(s, n, k, drop) ==
    /\ GoesOn /\ reg' = reg
    /\ Stack' = [i \in 1..(SP - drop) |-> IF i = SP - k THEN ToScm(n) ELSE s[i - 1]]

LEMMA OnStack ==
    ASSUME MachineOK, NEW how, how = Always(ALL) \/ how = Lazily(ALL),
           NEW s \in [Slots -> Fitting], \A i \in Slots : i < SP \/ i < proc.sp => s[i] \in Live,
           NEW operands, NEW n \in Int, NEW k \in Nat, k < SP, NEW drop \in Nat, drop <= k,
           Primitive(how, s, SP, operands, n, {}, {SP - 1 - k}, drop), UNCHANGED word
    PROVE  StackResult(s, n, k, drop)
<1>0. SP \in 0..stacklen /\ SP \in Nat /\ reg \in [Regs -> Live]
  BY Constants DEF MachineOK
<1>1. /\ status' = "run"
      /\ reg' = [r \in Regs |-> IF r \in {} THEN ToScm(n) ELSE reg[r]]
      /\ SP' = SP - drop
      /\ vals' \in [Slots -> Fitting]
      /\ \A i \in Slots : i \in {SP - 1 - k} => vals'[i] = ToScm(n)
      /\ \A i \in Slots : i \notin {SP - 1 - k} /\ i < SP => vals'[i] = s[i]
      /\ \A i \in Slots : i < SP' \/ i < proc'.sp => vals'[i] \in Live
      /\ proc' \in [reg : [Regs -> Live], sp : 0..stacklen]
  <2>1. drop <= SP
    BY <1>0
  <2>2. \A i \in Slots : i < SP => s[i] \in Live
    OBVIOUS
  <2>3. Saves(how, ALL, {}, s)
    BY DEF Saves
  <2>4. Outcome(s, SP, n, {}, {SP - 1 - k}, drop)
    BY <1>0, <2>1, <2>2, <2>3, PrimitiveEffect
  <2> QED BY <2>4 DEF Outcome
<1>2. reg' = reg
  BY <1>0, <1>1
<1>3. PICK m \in Nat : m = SP - drop /\ m <= SP /\ m <= stacklen
  BY <1>0, Constants
<1>4. GoesOn
  <2>1. SP' \in 0..stacklen
    BY <1>1, <1>3, Constants
  <2> QED BY <1>0, <1>1, <1>2, <2>1 DEF GoesOn, MachineOK
<1>5. ASSUME NEW i \in 1..m PROVE vals'[i - 1] = IF i = SP - k THEN ToScm(n) ELSE s[i - 1]
  <2>1. i \in 1..SP
    BY <1>0, <1>3
  <2>2. i - 1 \in Slots /\ i - 1 < SP
    BY <1>0, <2>1, SlotsOfStack
  <2>3. i = SP - k <=> i - 1 = (SP - 1) - k
    BY <1>0
  <2> QED BY <1>1, <2>2, <2>3
<1>6. PICK f : f = [i \in 1..m |-> IF i = SP - k THEN ToScm(n) ELSE s[i - 1]]
  OBVIOUS
<1>7. f = [i \in 1..m |-> f[i]] /\ \A i \in 1..m : vals'[i - 1] = f[i]
  BY <1>5, <1>6
<1>8. SP' = m
  BY <1>1, <1>3
<1>9. Stack' = [i \in 1..m |-> IF i = SP - k THEN ToScm(n) ELSE s[i - 1]]
  BY <1>6, <1>7, <1>8, StackAfter
<1> QED BY <1>2, <1>3, <1>4, <1>9 DEF StackResult

\* A result that goes to A.
LEMMA InRegister ==
    ASSUME MachineOK, NEW how, how = Always(EXCEPT_A) \/ how = Lazily(EXCEPT_A),
           NEW operands, NEW n \in Int, NEW drop \in Nat, drop <= SP,
           Compute(how, operands, n, {"A"}, {}, drop)
    PROVE  GoesOn /\ <<reg', Stack'>> = InA(ToScm(n), SP - drop)
<1>0. SP \in 0..stacklen /\ SP \in Nat /\ reg \in [Regs -> Live] /\ vals \in [Slots -> Fitting]
  BY Constants DEF MachineOK
<1>1. /\ status' = "run"
      /\ reg' = [r \in Regs |-> IF r \in {"A"} THEN ToScm(n) ELSE reg[r]]
      /\ SP' = SP - drop
      /\ vals' \in [Slots -> Fitting]
      /\ \A i \in Slots : i < SP => vals'[i] = vals[i]
      /\ \A i \in Slots : i < SP' \/ i < proc'.sp => vals'[i] \in Live
      /\ proc' \in [reg : [Regs -> Live], sp : 0..stacklen]
  <2>1. /\ \A i \in Slots : i < SP => vals[i] \in Live
        /\ \A i \in Slots : i < proc.sp => vals[i] \in Live
    BY DEF MachineOK
  <2>2. Saves(how, EXCEPT_A, {"A"}, vals)
    BY <2>1 DEF Saves
  <2>3. Primitive(how, vals, SP, operands, n, {"A"}, {}, drop)
    BY DEF Compute
  <2>4. Outcome(vals, SP, n, {"A"}, {}, drop)
    BY <1>0, <2>1, <2>2, <2>3, PrimitiveEffect
  <2> QED BY <2>4 DEF Outcome
<1>2. reg' = [reg EXCEPT !.A = ToScm(n)] /\ reg' \in [Regs -> Live]
  <2>1. ToScm(n) \in Live
    BY ResultsLive
  <2> QED BY <1>0, <1>1, <2>1
<1>3. PICK m \in Nat : m = SP - drop /\ m <= SP /\ m <= stacklen
  BY <1>0, Constants
<1>4. GoesOn
  <2>1. SP' \in 0..stacklen
    BY <1>1, <1>3, Constants
  <2>2. UNCHANGED word
    BY DEF Compute
  <2> QED BY <1>0, <1>1, <1>2, <2>1, <2>2 DEF GoesOn, MachineOK
<1>5. ASSUME NEW i \in 1..m PROVE vals'[i - 1] = Stack[i]
  <2>1. i \in 1..SP
    BY <1>0, <1>3
  <2>2. i - 1 \in Slots /\ i - 1 < SP /\ Stack[i] = vals[i - 1]
    BY <1>0, <2>1, SlotsOfStack
  <2> QED BY <1>1, <2>2
<1>6. PICK f : f = [i \in 1..m |-> Stack[i]]
  OBVIOUS
<1>7. f = [i \in 1..m |-> f[i]] /\ \A i \in 1..m : vals'[i - 1] = f[i]
  BY <1>5, <1>6
<1>8. SP' = m
  BY <1>1, <1>3
<1>9. Stack' = [i \in 1..m |-> Stack[i]]
  BY <1>6, <1>7, <1>8, StackAfter
<1> QED BY <1>2, <1>3, <1>4, <1>9 DEF InA

\* The common case: the stack is as it was but for one slot, k from the top.
OneChanged(n, k) == GoesOn /\ <<reg', Stack'>> = <<reg, [Stack EXCEPT ![SP - k] = ToScm(n)]>>

LEMMA OneResult ==
    ASSUME MachineOK, NEW how, how = Always(ALL) \/ how = Lazily(ALL),
           NEW operands, NEW n \in Int, NEW k \in Nat, k < SP,
           Compute(how, operands, n, {}, {SP - 1 - k}, 0)
    PROVE  OneChanged(n, k)
<1>1. /\ vals \in [Slots -> Fitting] /\ \A i \in Slots : i < SP \/ i < proc.sp => vals[i] \in Live
      /\ SP \in 0..stacklen /\ SP \in Nat
  BY Constants DEF MachineOK
<1>2. Primitive(how, vals, SP, operands, n, {}, {SP - 1 - k}, 0) /\ UNCHANGED word
  BY DEF Compute
<1>3. StackResult(vals, n, k, 0)
  <2>1. 0 \in Nat /\ 0 <= k
    OBVIOUS
  <2> QED BY <1>1, <1>2, <2>1, OnStack
<1>4. SP - 0 = SP
  BY <1>1
<1>5. [i \in 1..SP |-> IF i = SP - k THEN ToScm(n) ELSE vals[i - 1]] = [Stack EXCEPT ![SP - k] = ToScm(n)]
  BY DEF Stack
<1> QED BY <1>3, <1>4, <1>5 DEF StackResult, OneChanged

\* The integers the opcodes compute with.
LEMMA RefInt ==
    ASSUME MachineOK, NEW x, WellFormed(x), Fits(x), Verified(x)
    PROVE  /\ x.op \in {"inc", "dec", "add", "add_im", "addA", "swap__dec"} => 1 <= SP /\ Ref(0).n \in Int
           /\ x.op \in {"add", "swap__dec"} => 2 <= SP /\ Ref(1).n \in Int
           /\ x.op \in {"add__", "unsafe_addA_", "inc_"} => x.b1 < SP /\ Ref(x.b1).n \in Int
           /\ x.op = "add__" => x.b2 < SP /\ Ref(x.b2).n \in Int
           /\ x.op = "add_im" => x.im.n \in Int
           /\ reg.A.n \in Int /\ SP \in 0..stacklen /\ SP \in Nat
<1>0. SP \in 0..stacklen /\ SP \in Nat /\ x.b1 \in Nat /\ x.b2 \in Nat /\ reg.A \in Live
  BY Constants DEF MachineOK, WellFormed, Regs
<1>1. ASSUME x.op \in {"inc", "dec", "add", "add_im", "addA", "swap__dec"} PROVE 1 <= SP /\ Ref(0).n \in Int
  <2>1. x.op \in Top1 \/ x.op \in Top2
    BY <1>1 DEF Top1, Top2
  <2>2. 1 <= SP
    BY <1>0, <2>1, Room
  <2> QED BY <1>0, <2>2, RefLive
<1>2. ASSUME x.op \in {"add", "swap__dec"} PROVE 2 <= SP /\ Ref(1).n \in Int
  <2>1. 2 <= SP
    BY <1>0, <1>2, Room DEF Top2
  <2> QED BY <1>0, <2>1, RefLive
<1>3. ASSUME x.op \in {"add__", "unsafe_addA_", "inc_"} PROVE x.b1 < SP /\ Ref(x.b1).n \in Int
  <2>1. x.b1 < SP
    BY <1>0, <1>3, Room DEF Verified
  <2> QED BY <1>0, <2>1, RefLive
<1>4. ASSUME x.op = "add__" PROVE x.b2 < SP /\ Ref(x.b2).n \in Int
  <2>1. x.b2 < SP
    BY <1>0, <1>4, Room
  <2> QED BY <1>0, <2>1, RefLive
<1>5. ASSUME x.op = "add_im" PROVE x.im.n \in Int
  BY <1>5, LiveFacts DEF WellFormed
<1>6. reg.A.n \in Int
  BY <1>0, LiveFacts
<1> QED BY <1>0, <1>1, <1>2, <1>3, <1>4, <1>5, <1>6

\* Each arithmetic opcode keeps the machine in order and does what it means.
LEMMA ArithmeticEffect ==
    ASSUME MachineOK, NEW x, WellFormed(x), Fits(x), Verified(x), x.op \in ArithmeticOps, Arithmetic(x)
    PROVE  GoesOn /\ <<reg', Stack'>> = Meaning(x) /\ UNCHANGED <<program, label>>
<1>0. /\ SP \in 0..stacklen /\ SP \in Nat /\ x.b1 \in Nat /\ x.b2 \in Nat
      /\ reg.A.n \in Int
  BY RefInt DEF WellFormed
<1>1. CASE x.op = "inc"
  <2>1. inc(x)
    BY <1>1 DEF Arithmetic
  <2>2. 1 <= SP /\ Ref(0).n \in Int
    BY <1>1, RefInt
  <2>3. PICK how, n, k : n \in Int /\ k \in Nat /\ how = Always(ALL) /\ n = Ref(0).n + 1 /\ k = 0
    BY <2>2
  <2>4. OneChanged(n, k)
    <3>1. Compute(how, Operands(x), n, {}, {SP - 1 - k}, 0)
      <4>1. Compute(Always(ALL), Operands(x), Ref(0).n + 1, {}, {SP - 1}, 0)
        BY <2>1 DEF inc
      <4>2. SP - 1 - k = SP - 1
        BY <1>0, <2>3
      <4> QED BY <2>3, <4>1, <4>2
    <3> QED BY <1>0, <2>2, <2>3, <3>1, OneResult
  <2>5. Meaning(x) = OnTop(ToScm(Ref(0).n + 1))
    BY <1>1 DEF Meaning
  <2>6. UNCHANGED <<program, label>>
    BY <2>1 DEF inc, Advance, JumpTo
  <2>7. Meaning(x) = OnTop(ToScm(n)) /\ SP - k = SP
    BY <1>0, <2>3, <2>5
  <2> QED BY <2>4, <2>6, <2>7 DEF OnTop, OneChanged
<1>2. CASE x.op = "dec"
  <2>1. dec(x)
    BY <1>2 DEF Arithmetic
  <2>2. 1 <= SP /\ Ref(0).n \in Int
    BY <1>2, RefInt
  <2>3. PICK how, n, k : n \in Int /\ k \in Nat /\ how = Always(ALL) /\ n = Ref(0).n - 1 /\ k = 0
    BY <2>2
  <2>4. OneChanged(n, k)
    <3>1. Compute(how, Operands(x), n, {}, {SP - 1 - k}, 0)
      <4>1. Compute(Always(ALL), Operands(x), Ref(0).n - 1, {}, {SP - 1}, 0)
        BY <2>1 DEF dec
      <4>2. SP - 1 - k = SP - 1
        BY <1>0, <2>3
      <4> QED BY <2>3, <4>1, <4>2
    <3> QED BY <1>0, <2>2, <2>3, <3>1, OneResult
  <2>5. Meaning(x) = OnTop(ToScm(Ref(0).n - 1))
    BY <1>2 DEF Meaning, Less
  <2>6. UNCHANGED <<program, label>>
    BY <2>1 DEF dec, Advance, JumpTo
  <2> QED BY <1>0, <2>3, <2>4, <2>5, <2>6 DEF OnTop, OneChanged
<1>3. CASE x.op = "incA"
  <2>1. incA(x)
    BY <1>3 DEF Arithmetic
  <2>2. Compute(Always(EXCEPT_A), Operands(x), reg.A.n + 1, {"A"}, {}, 0)
    BY <2>1 DEF incA
  <2>3. GoesOn /\ <<reg', Stack'>> = InA(ToScm(reg.A.n + 1), SP - 0)
    BY <1>0, <2>2, InRegister
  <2>4. Meaning(x) = InA(ToScm(reg.A.n + 1), SP)
    BY <1>3 DEF Meaning
  <2>5. UNCHANGED <<program, label>>
    BY <2>1 DEF incA, Advance, JumpTo
  <2> QED BY <1>0, <2>3, <2>4, <2>5
<1>4. CASE x.op = "decA"
  <2>1. decA(x)
    BY <1>4 DEF Arithmetic
  <2>2. Compute(Lazily(EXCEPT_A), Operands(x), reg.A.n - 1, {"A"}, {}, 0)
    BY <2>1 DEF decA
  <2>3. GoesOn /\ <<reg', Stack'>> = InA(ToScm(reg.A.n - 1), SP - 0)
    BY <1>0, <2>2, InRegister
  <2>4. Meaning(x) = InA(ToScm(reg.A.n - 1), SP)
    BY <1>4 DEF Meaning, Less
  <2>5. UNCHANGED <<program, label>>
    BY <2>1 DEF decA, Advance, JumpTo
  <2> QED BY <1>0, <2>3, <2>4, <2>5
<1>5. CASE x.op = "add"
  <2>1. add(x)
    BY <1>5 DEF Arithmetic
  <2>2. 2 <= SP /\ Ref(0).n \in Int /\ Ref(1).n \in Int
    BY <1>5, RefInt
  <2>3. PICK n, k : n \in Int /\ n = Ref(1).n + Ref(0).n /\ k = 1
    BY <2>2
  <2>4. Primitive(Lazily(ALL), vals, SP, Operands(x), n, {}, {SP - 1 - k}, k) /\ UNCHANGED word
    BY <1>0, <2>1, <2>3 DEF add, Compute
  <2>5. vals \in [Slots -> Fitting] /\ \A i \in Slots : i < SP \/ i < proc.sp => vals[i] \in Live
    BY DEF MachineOK
  <2>6. /\ GoesOn /\ reg' = reg
        /\ Stack' = [i \in 1..(SP - 1) |-> IF i = SP - 1 THEN ToScm(n) ELSE vals[i - 1]]
    <3>1. k \in Nat /\ k < SP /\ k <= k
      BY <1>0, <2>2, <2>3
    <3>2. StackResult(vals, n, k, k)
      BY <2>3, <2>4, <2>5, <3>1, OnStack
    <3> QED BY <2>3, <3>2 DEF StackResult
  <2>7. Meaning(x) = <<reg, [i \in 1..(SP - 1) |-> IF i = SP - 1 THEN ToScm(n) ELSE Stack[i]]>>
    BY <1>5, <2>3 DEF Meaning, Sum
  <2>8. \A i \in 1..(SP - 1) : Stack[i] = vals[i - 1]
    BY <1>0 DEF Stack
  <2>9. UNCHANGED <<program, label>>
    BY <2>1 DEF add, Advance, JumpTo
  <2> QED BY <2>6, <2>7, <2>8, <2>9
<1>6. CASE x.op = "add_im"
  <2>1. add_im(x)
    BY <1>6 DEF Arithmetic
  <2>2. 1 <= SP /\ Ref(0).n \in Int /\ x.im.n \in Int
    BY <1>6, RefInt
  <2>3. PICK how, n, k : n \in Int /\ k \in Nat /\ how = Lazily(ALL) /\ n = Ref(0).n + x.im.n /\ k = 0
    BY <2>2
  <2>4. OneChanged(n, k)
    <3>1. Compute(how, Operands(x), n, {}, {SP - 1 - k}, 0)
      <4>1. Compute(Lazily(ALL), Operands(x), Ref(0).n + x.im.n, {}, {SP - 1}, 0)
        BY <2>1 DEF add_im
      <4>2. SP - 1 - k = SP - 1
        BY <1>0, <2>3
      <4> QED BY <2>3, <4>1, <4>2
    <3> QED BY <1>0, <2>2, <2>3, <3>1, OneResult
  <2>5. Meaning(x) = OnTop(ToScm(Ref(0).n + x.im.n))
    BY <1>6 DEF Meaning, Sum
  <2>6. UNCHANGED <<program, label>>
    BY <2>1 DEF add_im, Advance, JumpTo
  <2>7. SP - k = SP
    BY <1>0, <2>3
  <2>8. <<reg', Stack'>> = OnTop(ToScm(n))
    BY <2>4, <2>7 DEF OnTop, OneChanged
  <2> QED BY <2>3, <2>4, <2>5, <2>6, <2>8 DEF OneChanged
<1>7. CASE x.op = "add__"
  <2>1. add__(x)
    BY <1>7 DEF Arithmetic
  <2>2. x.b1 < SP /\ Ref(x.b1).n \in Int /\ Ref(x.b2).n \in Int
    BY <1>7, RefInt
  <2>3. PICK how, n, k : n \in Int /\ k \in Nat /\ how = Always(ALL) /\ n = Ref(x.b1).n + Ref(x.b2).n /\ k = x.b1
    BY <1>0, <2>2
  <2>4. OneChanged(n, k)
    <3>1. Compute(how, Operands(x), n, {}, {SP - 1 - k}, 0)
      BY <1>0, <2>1, <2>3 DEF add__
    <3> QED BY <1>0, <2>2, <2>3, <3>1, OneResult
  <2>5. Meaning(x) = <<reg, [Stack EXCEPT ![SP - x.b1] = ToScm(Ref(x.b1).n + Ref(x.b2).n)]>>
    BY <1>7 DEF Meaning, Sum
  <2>6. UNCHANGED <<program, label>>
    BY <2>1 DEF add__, Advance, JumpTo
  <2> QED BY <2>3, <2>4, <2>5, <2>6 DEF OneChanged
<1>8. CASE x.op = "addA"
  <2>1. addA(x)
    BY <1>8 DEF Arithmetic
  <2>2. 1 <= SP /\ Ref(0).n \in Int
    BY <1>8, RefInt
  <2>3. Compute(Lazily(EXCEPT_A), Operands(x), reg.A.n + Ref(0).n, {"A"}, {}, 1)
    BY <2>1 DEF addA
  <2>4. GoesOn /\ <<reg', Stack'>> = InA(ToScm(reg.A.n + Ref(0).n), SP - 1)
    BY <1>0, <2>2, <2>3, InRegister
  <2>5. Meaning(x) = InA(ToScm(reg.A.n + Ref(0).n), SP - 1)
    BY <1>8 DEF Meaning, Sum
  <2>6. UNCHANGED <<program, label>>
    BY <2>1 DEF addA, Advance, JumpTo
  <2> QED BY <2>4, <2>5, <2>6
<1>9. CASE x.op = "unsafe_addA_"
  <2>1. unsafe_addA_(x)
    BY <1>9 DEF Arithmetic
  <2>2. x.b1 < SP /\ Ref(x.b1).n \in Int
    BY <1>9, RefInt
  <2>3. Compute(Lazily(EXCEPT_A), Operands(x), reg.A.n + Ref(x.b1).n, {"A"}, {}, 0)
    BY <2>1 DEF unsafe_addA_
  <2>4. GoesOn /\ <<reg', Stack'>> = InA(ToScm(reg.A.n + Ref(x.b1).n), SP - 0)
    BY <1>0, <2>2, <2>3, InRegister
  <2>5. Meaning(x) = InA(ToScm(reg.A.n + Ref(x.b1).n), SP)
    BY <1>9 DEF Meaning, Sum
  <2>6. UNCHANGED <<program, label>>
    BY <2>1 DEF unsafe_addA_, Advance, JumpTo
  <2> QED BY <1>0, <2>4, <2>5, <2>6
<1>10. CASE x.op = "swap__dec"
  <2>1. swap__dec(x)
    BY <1>10 DEF Arithmetic
  <2>2. 2 <= SP /\ Ref(1).n \in Int
    BY <1>10, RefInt
  <2>3. PICK n, k : n \in Int /\ n = Ref(1).n - 1 /\ k = 0
    BY <2>2
  <2>4. Primitive(Always(ALL), Swapped, SP, Operands(x), n, {}, {SP - 1 - k}, k) /\ UNCHANGED word
    BY <1>0, <2>1, <2>3 DEF swap__dec
  <2>5. /\ Swapped \in [Slots -> Fitting] /\ \A i \in Slots : i < SP \/ i < proc.sp => Swapped[i] \in Live
        /\ Swapped[SP - 2] = Ref(0) /\ \A i \in Slots : i < SP - 2 => Swapped[i] = vals[i]
    BY <2>2, SwappedFacts
  <2>6. /\ GoesOn /\ reg' = reg
        /\ Stack' = [i \in 1..(SP - 0) |-> IF i = SP - 0 THEN ToScm(n) ELSE Swapped[i - 1]]
    <3>1. k \in Nat /\ k < SP /\ k <= k
      BY <1>0, <2>2, <2>3
    <3>2. StackResult(Swapped, n, k, k)
      BY <2>3, <2>4, <2>5, <3>1, OnStack
    <3> QED BY <2>3, <3>2 DEF StackResult
  <2>7. Meaning(x) = <<reg, [Stack EXCEPT ![SP] = ToScm(n), ![SP - 1] = Ref(0)]>>
    BY <1>10, <2>3 DEF Meaning, Less
  <2>8. ASSUME NEW i \in 1..SP
        PROVE  (IF i = SP THEN ToScm(n) ELSE Swapped[i - 1])
                  = [Stack EXCEPT ![SP] = ToScm(n), ![SP - 1] = Ref(0)][i]
    <3>1. i - 1 \in Slots /\ Stack[i] = vals[i - 1] /\ i \in Nat
      BY <1>0, SlotsOfStack
    <3>2. CASE i = SP
      BY <1>0, <2>2, <3>2 DEF Stack
    <3>3. CASE i = SP - 1
      <4>1. i - 1 = SP - 2 /\ i # SP
        BY <1>0, <3>3
      <4>2. [Stack EXCEPT ![SP] = ToScm(n), ![SP - 1] = Ref(0)][i] = Ref(0)
        BY <1>0, <2>2, <3>3, <4>1 DEF Stack
      <4> QED BY <2>5, <4>1, <4>2
    <3>4. CASE i # SP /\ i # SP - 1
      <4>1. i - 1 < SP - 2
        BY <1>0, <3>1, <3>4
      <4> QED BY <1>0, <2>5, <3>1, <3>4, <4>1 DEF Stack
    <3> QED BY <3>2, <3>3, <3>4
  <2>9. [Stack EXCEPT ![SP] = ToScm(n), ![SP - 1] = Ref(0)]
           = [i \in 1..SP |-> [Stack EXCEPT ![SP] = ToScm(n), ![SP - 1] = Ref(0)][i]]
    BY <1>0 DEF Stack
  <2>10. SP - 0 = SP
    BY <1>0
  <2>11. Stack' = [Stack EXCEPT ![SP] = ToScm(n), ![SP - 1] = Ref(0)]
    BY <2>6, <2>8, <2>9, <2>10
  <2>12. UNCHANGED <<program, label>>
    BY <2>1 DEF swap__dec, Advance, JumpTo
  <2> QED BY <2>6, <2>7, <2>11, <2>12
<1> QED BY <1>1, <1>2, <1>3, <1>4, <1>5, <1>6, <1>7, <1>8, <1>9, <1>10 DEF ArithmeticOps

-----------------------------------------------------------------------------
(***************************************************************************)
(* The other opcodes.                                                      *)
(***************************************************************************)
\* Control stays in the program.
Stays == UNCHANGED <<program, label>>

LEMMA JumpsStay ==
    /\ \A p : JumpTo(p) => Stays
    /\ \A x : Advance(x) => Stays
    /\ \A x, condition, distance : Branch(x, condition, distance) => Stays
BY DEF JumpTo, Advance, Branch, Stays

\* Loads, stores and moves between the registers and the stack.
MoveOps == {"unsafe_ld", "unsafe_ldw_int", "unsafe_st", "unsafe_stw_fix", "loadw_im", "ldNV_im", "load_im",
            "push", "pushw", "push_im", "pop", "TAB", "TBA", "swapA", "swapN", "popN__pushA", "decN", "drop1",
            "pick_b", "swap", "dup", "addM", "inc_", "unsafe_bitwise_and", "unsafe_bitwise_or"}

LEMMA MoveEffect ==
    ASSUME MInv, status = "run", NEW x, WellFormed(x), Fits(x), Verified(x), Execute(x), x.op \in MoveOps
    PROVE  GoesOn /\ Stays
<1>0. /\ MachineOK /\ SP \in 0..stacklen /\ SP \in Nat /\ x.b1 \in Nat /\ x.b2 \in Nat
      /\ reg \in [Regs -> Live] /\ vals \in [Slots -> Fitting]
      /\ word \in [WordRegs -> -(8 * FixRange)..(8 * FixRange - 1)]
      /\ \A w \in WordRegs : word[w] \in Int
      /\ proc \in [reg : [Regs -> Live], sp : 0..stacklen]
  BY Constants DEF MInv, MachineOK, WellFormed
<1>1. CASE x.op = "unsafe_ld"
  <2>1. unsafe_ld(x) /\ x.r \in Regs /\ x.b1 < SP
    BY <1>1 DEF Execute, Arithmetic, WellFormed, Verified
  <2>2. Ref(x.b1) \in Live
    BY <1>0, <2>1, RefLive
  <2> QED BY <1>0, <2>1, <2>2, RegEffect, JumpsStay DEF unsafe_ld
<1>2. CASE x.op = "unsafe_ldw_int"
  <2>1. unsafe_ldw_int(x) /\ x.r \in WordRegs /\ x.b1 < SP
    BY <1>2 DEF Execute, Arithmetic, WellFormed, Verified
  <2>2. Ref(x.b1).n \in Int
    BY <1>0, <2>1, RefLive
  <2> QED BY <1>0, <2>1, <2>2, WordEffect, JumpsStay DEF unsafe_ldw_int
<1>3. CASE x.op = "unsafe_st"
  <2>1. unsafe_st(x) /\ x.r \in Regs /\ x.b1 < SP
    BY <1>3 DEF Execute, Arithmetic, WellFormed, Verified
  <2> QED BY <1>0, <2>1, SlotEffect, JumpsStay DEF unsafe_st
<1>4. CASE x.op = "unsafe_stw_fix"
  <2>1. unsafe_stw_fix(x) /\ x.r \in WordRegs /\ x.b1 < SP
    BY <1>4 DEF Execute, Arithmetic, WellFormed, Verified
  <2>2. FIX(word[x.r]) \in Live
    BY <1>0, <2>1, FixnumsLive
  <2> QED BY <1>0, <2>1, <2>2, SlotEffect, JumpsStay DEF unsafe_stw_fix
<1>5. CASE x.op \in {"loadw_im", "ldNV_im"}
  <2>1. loadw_im(x) /\ x.r \in WordRegs /\ x.im \in Int
    BY <1>5 DEF Execute, Arithmetic, WellFormed
  <2> QED BY <1>0, <2>1, WordEffect, JumpsStay DEF loadw_im
<1>6. CASE x.op = "load_im"
  <2>1. load_im(x) /\ x.r \in Regs /\ x.im \in Live
    BY <1>6 DEF Execute, Arithmetic, WellFormed
  <2> QED BY <1>0, <2>1, RegEffect, JumpsStay DEF load_im
<1>7. CASE x.op = "push"
  <2>1. push(x) /\ x.r \in Regs
    BY <1>7 DEF Execute, Arithmetic, WellFormed
  <2>2. SP + 1 <= stacklen
    BY <1>0, <1>7, Room
  <2> QED BY <1>0, <2>1, <2>2, PushEffect, JumpsStay DEF push
<1>8. CASE x.op = "pushw"
  <2>1. pushw(x) /\ x.r \in WordRegs
    BY <1>8 DEF Execute, Arithmetic, WellFormed
  <2>2. SP + 1 <= stacklen /\ FIX(word[x.r]) \in Live
    BY <1>0, <1>8, <2>1, Room, FixnumsLive
  <2> QED BY <1>0, <2>1, <2>2, PushEffect, JumpsStay DEF pushw
<1>9. CASE x.op = "push_im"
  <2>1. push_im(x) /\ x.im \in Live
    BY <1>9 DEF Execute, Arithmetic, WellFormed
  <2>2. SP + 1 <= stacklen
    BY <1>0, <1>9, Room
  <2> QED BY <1>0, <2>1, <2>2, PushEffect, JumpsStay DEF push_im
<1>10. CASE x.op = "pop"
  <2>1. pop(x) /\ x.r \in Regs
    BY <1>10 DEF Execute, Arithmetic, WellFormed
  <2>2. 1 <= SP
    BY <1>0, <1>10, Room DEF Top1
  <2>3. Ref(0) \in Live
    BY <1>0, <2>2, RefLive
  <2> QED BY <1>0, <2>1, <2>2, <2>3, PopEffect, JumpsStay DEF pop
<1>11. CASE x.op = "TAB"
  <2>1. TAB(x)
    BY <1>11 DEF Execute, Arithmetic
  <2>2. "B" \in Regs /\ reg.A \in Live
    BY <1>0 DEF Regs
  <2> QED BY <1>0, <2>1, <2>2, RegEffect, JumpsStay DEF TAB
<1>12. CASE x.op = "TBA"
  <2>1. TBA(x)
    BY <1>12 DEF Execute, Arithmetic
  <2>2. "A" \in Regs /\ reg.B \in Live
    BY <1>0 DEF Regs
  <2> QED BY <1>0, <2>1, <2>2, RegEffect, JumpsStay DEF TBA
<1>13. CASE x.op \in {"swapA", "swapN", "popN__pushA"}
  <2>1. 1 <= SP
    BY <1>0, <1>13, Room DEF Top1
  <2>2. Ref(0) \in Live /\ SP - 1 \in Slots /\ Ref(0).n \in Int
    <3>1. Ref(0) \in Live /\ SP - 1 - 0 \in Slots /\ Ref(0).n \in Int
      BY <1>0, <2>1, RefLive
    <3>2. SP - 1 - 0 = SP - 1
      BY <1>0
    <3> QED BY <3>1, <3>2
  <2>3. reg.A \in Live /\ FIX(word.N) \in Live /\ SignedWord(Ref(0).n) \in -(8 * FixRange)..(8 * FixRange - 1)
    BY <1>0, <2>2, FixnumsLive, WordsInRange DEF Regs, WordRegs
  <2>4. PICK v \in Live :
           /\ vals' = [vals EXCEPT ![SP - 1] = v] /\ UNCHANGED <<SP, proc, status>>
           /\ \/ reg' = [reg EXCEPT !.A = Ref(0)] /\ UNCHANGED word
              \/ word' = [word EXCEPT !.N = SignedWord(Ref(0).n)] /\ UNCHANGED reg
    <3>1. CASE x.op = "swapA"
      <4>1. swapA(x)
        BY <3>1 DEF Execute, Arithmetic
      <4> QED BY <2>3, <4>1 DEF swapA
    <3>2. CASE x.op = "swapN"
      <4>1. swapN(x)
        BY <3>2 DEF Execute, Arithmetic
      <4> QED BY <2>3, <4>1 DEF swapN, IntoN
    <3>3. CASE x.op = "popN__pushA"
      <4>1. popN__pushA(x)
        BY <3>3 DEF Execute, Arithmetic
      <4> QED BY <2>3, <4>1 DEF popN__pushA, IntoN
    <3> QED BY <1>13, <3>1, <3>2, <3>3
  <2>5. /\ vals' \in [Slots -> Fitting]
        /\ \A j \in Slots : j < SP \/ j < proc.sp => vals'[j] \in Live
    BY <1>0, <2>2, <2>4, OneSlot
  <2>6. reg' \in [Regs -> Live] /\ word' \in [WordRegs -> -(8 * FixRange)..(8 * FixRange - 1)]
    BY <1>0, <2>2, <2>3, <2>4
  <2>7. Stays
    BY <1>13, JumpsStay DEF Execute, Arithmetic, swapA, swapN, popN__pushA
  <2> QED BY <1>0, <2>4, <2>5, <2>6, <2>7 DEF GoesOn, MachineOK
<1>14. CASE x.op = "decN"
  <2>1. decN(x)
    BY <1>14 DEF Execute, Arithmetic
  <2>2. "N" \in WordRegs /\ word.N - 1 \in Int
    BY <1>0 DEF WordRegs
  <2> QED BY <1>0, <2>1, <2>2, WordEffect, JumpsStay DEF decN
<1>15. CASE x.op = "drop1"
  <2>1. drop1(x)
    BY <1>15 DEF Execute, Arithmetic
  <2>2. 1 <= SP
    BY <1>0, <1>15, Room DEF Top1
  <2> QED BY <1>0, <2>1, <2>2, DropEffect, JumpsStay DEF drop1
<1>16. CASE x.op = "pick_b"
  <2>1. pick_b(x)
    BY <1>16 DEF Execute, Arithmetic
  <2>2. SP + 1 <= stacklen /\ x.b1 < SP
    BY <1>0, <1>16, Room
  <2>3. Ref(x.b1) \in Live
    BY <1>0, <2>2, RefLive
  <2> QED BY <1>0, <2>1, <2>2, <2>3, PushEffect, JumpsStay DEF pick_b
<1>17. CASE x.op = "swap"
  <2>1. swap(x)
    BY <1>17 DEF Execute, Arithmetic
  <2>2. 2 <= SP
    BY <1>0, <1>17, Room DEF Top2
  <2>3. Swapped \in [Slots -> Fitting] /\ \A j \in Slots : j < SP \/ j < proc.sp => Swapped[j] \in Live
    BY <1>0, <2>2, SwappedFacts
  <2>4. StoredSP \in [reg : [Regs -> Live], sp : 0..stacklen] /\ StoredSP.sp = SP
    BY <1>0, StoredSPFacts DEF StoredSP
  <2> QED BY <1>0, <2>1, <2>3, <2>4, JumpsStay DEF swap, GoesOn, MachineOK
<1>18. CASE x.op = "dup"
  <2>1. dup(x)
    BY <1>18 DEF Execute, Arithmetic
  <2>2. 1 <= SP /\ SP + 1 <= stacklen
    BY <1>0, <1>18, Room DEF Top1
  <2>3. Ref(0) \in Live
    BY <1>0, <2>2, RefLive
  <2>4. SP \in Slots /\ SP + 1 \in 0..stacklen
    BY <1>0, <2>2, Constants
  <2>5. /\ vals' \in [Slots -> Fitting] /\ vals'[SP] \in Live
        /\ \A j \in Slots : j < SP \/ j < proc.sp => vals'[j] \in Live
    BY <1>0, <2>1, <2>3, <2>4, OneSlot DEF dup
  <2>6. SP' = SP + 1 /\ proc'.sp = SP + 1 /\ proc' \in [reg : [Regs -> Live], sp : 0..stacklen]
    BY <1>0, <2>1, <2>4, StoredSPFacts DEF dup
  <2>7. ASSUME NEW j \in Slots, j < SP' \/ j < proc'.sp PROVE vals'[j] \in Live
    <3>1. j < SP \/ j = SP
      BY <1>0, <2>6, <2>7, Constants
    <3> QED BY <2>5, <3>1
  <2>8. SP' \in 0..stacklen
    BY <2>4, <2>6
  <2> QED BY <1>0, <2>1, <2>5, <2>6, <2>7, <2>8, JumpsStay DEF dup, GoesOn, MachineOK
<1>19. CASE x.op = "addM"
  <2>1. addM(x)
    BY <1>19 DEF Execute, Arithmetic
  <2>2. 1 <= SP
    BY <1>0, <1>19, Room DEF Top1
  <2>3. Ref(0).n \in Int /\ word.M \in Int
    BY <1>0, <2>2, RefLive DEF WordRegs
  <2>4. SignedWord(word.M + Ref(0).n) \in -(8 * FixRange)..(8 * FixRange - 1)
    BY <2>3, WordsInRange
  <2>5. word' \in [WordRegs -> -(8 * FixRange)..(8 * FixRange - 1)]
    BY <1>0, <2>1, <2>4 DEF addM
  <2>6. SP' \in 0..stacklen /\ SP' = SP - 1 /\ UNCHANGED <<reg, vals, proc, status>>
    BY <1>0, <2>1, <2>2, Constants DEF addM
  <2>7. ASSUME NEW j \in Slots, j < SP' \/ j < proc.sp PROVE vals[j] \in Live
    <3>1. j < SP \/ j < proc.sp
      BY <1>0, <2>6, <2>7, Constants
    <3> QED BY <1>0, <3>1 DEF MachineOK
  <2> QED BY <1>0, <2>1, <2>5, <2>6, <2>7, JumpsStay DEF addM, GoesOn, MachineOK
<1>20. CASE x.op = "inc_"
  <2>1. inc_(x)
    BY <1>20 DEF Execute, Arithmetic
  <2>2. x.b1 < SP /\ Ref(x.b1).n \in Int
    BY <1>0, <1>20, RefInt
  <2>a. PICK n \in Int : n = Ref(x.b1).n + 1
    BY <2>2
  <2>3. PICK how, toSlots, drop : how = Always(ALL) /\ toSlots = {SP} /\ drop = 0
    OBVIOUS
  <2>4. Primitive(how, vals, SP, Operands(x), n, {}, toSlots, drop) /\ UNCHANGED word
    BY <2>1, <2>a, <2>3 DEF inc_, Compute
  <2>5. \A i \in Slots : i < SP => vals[i] \in Live
    BY <1>0 DEF MachineOK
  <2>6. Saves(how, ALL, {}, vals)
    BY <2>3 DEF Saves
  <2>7. Outcome(vals, SP, n, {}, toSlots, drop)
    BY <1>0, <2>3, <2>4, <2>5, <2>6, PrimitiveEffect
  <2>8. status' = "run" /\ SP' = SP - 0 /\ reg' = [r \in Regs |-> reg[r]]
    BY <2>3, <2>7 DEF Outcome
  <2>9. SP' \in 0..stacklen /\ reg' \in [Regs -> Live]
    BY <1>0, <2>8
  <2> QED BY <1>0, <2>1, <2>4, <2>7, <2>8, <2>9, JumpsStay DEF inc_, Outcome, GoesOn, MachineOK
<1>21. CASE x.op \in {"unsafe_bitwise_and", "unsafe_bitwise_or"}
  <2>1. unsafe_bitwise(x)
    BY <1>21 DEF Execute, Arithmetic
  <2>2. 2 <= SP
    BY <1>0, <1>21, Room DEF Top2
  <2>3. Ref(0).kind \in {"fixnum", "special"}
    BY <1>0, <1>21, <2>2 DEF Verified
  <2>4. PICK B, v : v \in OfBits(Ref(0).kind, B) /\ SetStack([vals EXCEPT ![SP - 2] = v], SP - 1)
    BY <2>1 DEF unsafe_bitwise
  <2>5. v \in Live
    BY <2>3, <2>4, NumbersLive
  <2>6. PICK a \in Slots : a = SP - 2
    BY <1>0, <2>2, Constants
  <2>7. PICK s : s = [vals EXCEPT ![a] = v]
    OBVIOUS
  <2>8. s \in [Slots -> Fitting] /\ \A i \in Slots : i < SP \/ i < proc.sp => s[i] \in Live
    BY <1>0, <2>5, <2>7, OneSlot
  <2>9. ASSUME NEW i \in Slots, i < SP - 1 \/ i < proc.sp PROVE s[i] \in Live
    <3>1. i < SP \/ i < proc.sp
      BY <1>0, <2>9, Constants
    <3> QED BY <2>8, <3>1
  <2>10. SP - 1 \in 0..stacklen
    BY <1>0, <2>2, Constants
  <2>11. SetStack(s, SP - 1) /\ Stays
    BY <2>1, <2>4, <2>6, <2>7, JumpsStay DEF unsafe_bitwise
  <2> QED BY <1>0, <2>8, <2>9, <2>10, <2>11, StackEffect
<1> QED BY <1>1, <1>2, <1>3, <1>4, <1>5, <1>6, <1>7, <1>8, <1>9, <1>10, <1>11, <1>12, <1>13, <1>14, <1>15,
           <1>16, <1>17, <1>18, <1>19, <1>20, <1>21 DEF MoveOps

\* Jumps, calls and returns, and the opcodes that do nothing.
FlowOps == {"nop", "trace_on", "trace_off", "break", "jmp_rel8", "jmp_rel16", "jsr_rel8", "frame_jsr_rel8_1",
            "jsr_rel8__swap", "ret", "unsafe_frame_ret", "ret_im", "ret_pop", "beq_im_rel16", "bpos_keep_rel16",
            "bneg0_keep_rel16", "bneg_keep_rel16", "bz_keep_rel16", "bz_rel16", "cmpbr_keep_lt_im_rel8",
            "cmpbr_A_lt_im_rel8", "cmpbr_N_lt_im_rel8"}

LEMMA FlowEffect ==
    ASSUME MInv, status = "run", pc \in Nat,
           NEW x, WellFormed(x), Fits(x), Verified(x), Execute(x), x.op \in FlowOps,
           x.op = "jsr_rel8__swap" => AllocIsSafe
    PROVE  GoesOn /\ Stays
<1>0. /\ MachineOK /\ SP \in 0..stacklen /\ SP \in Nat /\ x.b1 \in Nat
      /\ vals \in [Slots -> Fitting] /\ \A i \in Slots : i < SP \/ i < proc.sp => vals[i] \in Live
  BY Constants DEF MInv, MachineOK, WellFormed
<1>1. ReturnAddress \in Live /\ UNINITIALIZED \in Live
  <2>1. pc + 2 \in Nat
    OBVIOUS
  <2> QED BY <2>1, AddressesLive, LiveFacts DEF ReturnAddress
<1>2. CASE x.op \in {"nop", "trace_on", "trace_off", "break", "jmp_rel8", "jmp_rel16", "bpos_keep_rel16",
                     "bneg0_keep_rel16", "bneg_keep_rel16", "bz_keep_rel16", "cmpbr_keep_lt_im_rel8",
                     "cmpbr_A_lt_im_rel8", "cmpbr_N_lt_im_rel8"}
  <2>1. Skip /\ Stays
    <3>1. CASE x.op \in {"nop", "trace_on", "trace_off", "break"}
      BY <3>1, JumpsStay DEF Execute, Arithmetic, nop
    <3>2. CASE x.op = "jmp_rel8"
      BY <3>2, JumpsStay DEF Execute, Arithmetic, jmp_rel8
    <3>3. CASE x.op = "jmp_rel16"
      BY <3>3, JumpsStay DEF Execute, Arithmetic, jmp_rel16
    <3>4. CASE x.op = "bpos_keep_rel16"
      <4>1. bpos_keep_rel16(x)
        BY <3>4 DEF Execute, Arithmetic
      <4> QED BY <4>1, JumpsStay DEF bpos_keep_rel16
    <3>5. CASE x.op = "bneg0_keep_rel16"
      <4>1. bneg0_keep_rel16(x)
        BY <3>5 DEF Execute, Arithmetic
      <4> QED BY <4>1, JumpsStay DEF bneg0_keep_rel16
    <3>6. CASE x.op = "bneg_keep_rel16"
      <4>1. bneg_keep_rel16(x)
        BY <3>6 DEF Execute, Arithmetic
      <4> QED BY <4>1, JumpsStay DEF bneg_keep_rel16
    <3>7. CASE x.op = "bz_keep_rel16"
      <4>1. bz_keep_rel16(x)
        BY <3>7 DEF Execute, Arithmetic
      <4> QED BY <4>1, JumpsStay DEF bz_keep_rel16
    <3>8. CASE x.op = "cmpbr_keep_lt_im_rel8"
      <4>1. cmpbr_keep_lt_im_rel8(x)
        BY <3>8 DEF Execute, Arithmetic
      <4> QED BY <4>1, JumpsStay DEF cmpbr_keep_lt_im_rel8
    <3>9. CASE x.op = "cmpbr_A_lt_im_rel8"
      <4>1. cmpbr_A_lt_im_rel8(x)
        BY <3>9 DEF Execute, Arithmetic
      <4> QED BY <4>1, JumpsStay DEF cmpbr_A_lt_im_rel8
    <3>10. CASE x.op = "cmpbr_N_lt_im_rel8"
      <4>1. cmpbr_N_lt_im_rel8(x)
        BY <3>10 DEF Execute, Arithmetic
      <4> QED BY <4>1, JumpsStay DEF cmpbr_N_lt_im_rel8
    <3> QED BY <1>2, <3>1, <3>2, <3>3, <3>4, <3>5, <3>6, <3>7, <3>8, <3>9, <3>10
  <2> QED BY <1>0, <2>1, SkipEffect
<1>3. CASE x.op = "jsr_rel8"
  <2>1. jsr_rel8(x)
    BY <1>3 DEF Execute, Arithmetic
  <2>2. SP + 1 <= stacklen
    BY <1>0, <1>3, Room
  <2> QED BY <1>0, <1>1, <2>1, <2>2, PushEffect, JumpsStay DEF jsr_rel8
<1>4. CASE x.op = "frame_jsr_rel8_1"
  <2>1. FrameJsr(x, 1)
    BY <1>4 DEF Execute, Arithmetic, frame_jsr_rel8_1
  <2>2. SP + 2 <= stacklen
    BY <1>0, <1>4, Room
  <2>3. PICK s : s = [i \in Slots |-> CASE i = SP + 1 -> ReturnAddress
                                        [] SP <= i /\ i < SP + 1 -> UNINITIALIZED
                                        [] OTHER -> vals[i]]
    OBVIOUS
  <2>4. SetStack(s, SP + 1 + 1) /\ Stays
    BY <2>1, <2>3, JumpsStay DEF FrameJsr
  <2>5. ASSUME NEW i \in Slots
        PROVE  s[i] \in Fitting /\ (i < SP + 1 + 1 \/ i < proc.sp => s[i] \in Live)
    <3>1. i \in Nat
      BY Constants
    <3>2. CASE i = SP + 1
      BY <1>0, <1>1, <2>3, <3>2, LiveFacts
    <3>3. CASE i = SP
      <4>1. SP <= i /\ i < SP + 1 /\ i # SP + 1
        BY <1>0, <3>3
      <4> QED BY <1>1, <2>3, <4>1, LiveFacts
    <3>4. CASE i < SP \/ i > SP + 1
      <4>1. ~ (SP <= i /\ i < SP + 1) /\ i # SP + 1
        BY <1>0, <3>1, <3>4
      <4>2. s[i] = vals[i]
        BY <2>3, <4>1
      <4>3. i < SP + 1 + 1 => i < SP
        BY <1>0, <3>1, <3>4
      <4> QED BY <1>0, <4>2, <4>3
    <3> QED BY <1>0, <3>1, <3>2, <3>3, <3>4
  <2>6. s \in [Slots -> Fitting]
    BY <2>3, <2>5
  <2>7. SP + 1 + 1 \in 0..stacklen
    BY <1>0, <2>2, Constants
  <2> QED BY <1>0, <2>4, <2>5, <2>6, <2>7, StackEffect
<1>5. CASE x.op = "jsr_rel8__swap"
  <2>1. jsr_rel8__swap(x)
    BY <1>5 DEF Execute, Arithmetic
  <2>2. 1 <= SP /\ SP + 1 <= stacklen /\ SP # stacklen
    BY <1>0, <1>5, Room, AllocRoom, Constants DEF Top1
  <2>3. PICK a \in Slots, b \in Slots : a = SP - 1 /\ b = SP /\ a # b /\ a < SP
    BY <1>0, <2>2, Constants
  <2>4. Ref(0) \in Live
    BY <1>0, <2>2, RefLive
  <2>5. PICK s : s = [vals EXCEPT ![a] = ReturnAddress, ![b] = Ref(0)]
    OBVIOUS
  <2>6. SetStack(s, SP + 1) /\ Stays
    BY <2>1, <2>2, <2>3, <2>5, JumpsStay DEF jsr_rel8__swap
  <2>7. /\ s \in [Slots -> Fitting] /\ s[a] \in Live /\ s[b] \in Live
        /\ \A i \in Slots : i # a /\ i # b => s[i] = vals[i]
    BY <1>0, <1>1, <2>3, <2>4, <2>5, LiveFacts
  <2>8. ASSUME NEW i \in Slots, i < SP + 1 \/ i < proc.sp PROVE s[i] \in Live
    <3>1. i = b \/ i < SP \/ i < proc.sp
      BY <1>0, <2>3, <2>8, Constants
    <3> QED BY <1>0, <2>7, <3>1
  <2>9. SP + 1 \in 0..stacklen
    BY <1>0, <2>2, Constants
  <2> QED BY <1>0, <2>6, <2>7, <2>8, <2>9, StackEffect
<1>6. CASE x.op \in {"ret", "beq_im_rel16", "bz_rel16"}
  <2>1. Drop(1) /\ Stays
    BY <1>6, JumpsStay DEF Execute, Arithmetic, ret, beq_im_rel16, bz_rel16
  <2>2. 1 <= SP
    BY <1>0, <1>6, Room DEF Top1
  <2> QED BY <1>0, <2>1, <2>2, DropEffect
<1>7. CASE x.op = "unsafe_frame_ret"
  <2>1. unsafe_frame_ret(x) /\ x.b1 <= SP
    BY <1>7 DEF Execute, Arithmetic, Verified
  <2> QED BY <1>0, <2>1, DropEffect, JumpsStay DEF unsafe_frame_ret
<1>8. CASE x.op = "ret_im"
  <2>1. ret_im(x) /\ x.im \in Live
    BY <1>8 DEF Execute, Arithmetic, WellFormed
  <2>2. 1 <= SP
    BY <1>0, <1>8, Room DEF Top1
  <2>3. 0 \in Nat /\ 0 < SP
    BY <1>0, <2>2
  <2> QED BY <1>0, <2>1, <2>3, SlotEffect, JumpsStay DEF ret_im
<1>9. CASE x.op = "ret_pop"
  <2>1. ret_pop(x)
    BY <1>9 DEF Execute, Arithmetic
  <2>2. 2 <= SP
    BY <1>0, <1>9, Room DEF Top2
  <2>3. PICK a \in Slots : a = SP - 2
    BY <1>0, <2>2, Constants
  <2>4. Ref(0) \in Live
    BY <1>0, <2>2, RefLive
  <2>5. PICK s : s = [vals EXCEPT ![a] = Ref(0)]
    OBVIOUS
  <2>6. SetStack(s, SP - 1) /\ Stays
    BY <2>1, <2>3, <2>5, JumpsStay DEF ret_pop
  <2>7. s \in [Slots -> Fitting] /\ \A i \in Slots : i < SP \/ i < proc.sp => s[i] \in Live
    BY <1>0, <2>4, <2>5, OneSlot
  <2>8. ASSUME NEW i \in Slots, i < SP - 1 \/ i < proc.sp PROVE s[i] \in Live
    <3>1. i < SP \/ i < proc.sp
      BY <1>0, <2>8, Constants
    <3> QED BY <2>7, <3>1
  <2>9. SP - 1 \in 0..stacklen
    BY <1>0, <2>2, Constants
  <2> QED BY <1>0, <2>6, <2>7, <2>8, <2>9, StackEffect
<1> QED BY <1>2, <1>3, <1>4, <1>5, <1>6, <1>7, <1>8, <1>9 DEF FlowOps

\* Every instruction of the programs the theorems are about.
LEMMA ExecuteEffect ==
    ASSUME MInv, status = "run", pc \in Nat,
           NEW x, WellFormed(x), x.op \notin Excluded, x.op # "fib_with_registers",
           x.op = "jsr_rel8__swap" => AllocIsSafe, Fits(x), Verified(x), Execute(x)
    PROVE  /\ MachineOK' /\ Stays
           /\ status' = "run" \/ (status' = "halt" /\ pc' = pc)
<1>1. MachineOK
  BY DEF MInv
<1>2. CASE x.op \in ArithmeticOps
  <2>1. Arithmetic(x)
    BY <1>2 DEF Execute, ArithmeticOps
  <2> QED BY <1>1, <1>2, <2>1, ArithmeticEffect DEF GoesOn, Stays
<1>3. CASE x.op \in MoveOps
  BY <1>3, MoveEffect DEF GoesOn
<1>4. CASE x.op \in FlowOps
  BY <1>4, FlowEffect DEF GoesOn
<1>5. CASE x.op = "halt"
  <2>1. halt(x)
    BY <1>5 DEF Execute, Arithmetic
  <2>2. proc' = [reg |-> [r \in Regs |-> reg[r]], sp |-> SP]
    BY <2>1 DEF halt, Stored, ALL
  <2>3. proc' \in [reg : [Regs -> Live], sp : 0..stacklen] /\ proc'.sp = SP
    BY <1>1, <2>2 DEF MachineOK
  <2>4. status' = "halt" /\ UNCHANGED <<reg, word, SP, vals, program, pc, label>>
    BY <2>1 DEF halt, control
  <2> QED BY <1>1, <2>3, <2>4 DEF MachineOK, Stays
<1>6. x.op \in ArithmeticOps \cup MoveOps \cup FlowOps \cup {"halt"}
  BY DEF Execute, Arithmetic, Excluded, ArithmeticOps, MoveOps, FlowOps
<1> QED BY <1>2, <1>3, <1>4, <1>5, <1>6

-----------------------------------------------------------------------------
(***************************************************************************)
(* The compiled opcode fib_with_registers.                                 *)
(***************************************************************************)
LEMMA LabelFacts ==
    /\ RegisterLabels[1] = "fib_with_registers_ret_1"
    /\ RegisterLabels[2] = "fib_with_registers_ret_2"
    /\ RegisterLabels[3] = "fib_with_registers_end_calling_conventions"
BY DEF RegisterLabels

LEMMA RefAt ==
    ASSUME NEW i \in Int, NEW j \in Int, SP \in Int, SP - 1 - i = j
    PROVE  Ref(i) = vals[j]
BY DEF Ref

\* The uppermost return address, in slot t, whether or not it has been popped.
LEMMA TopFrame ==
    ASSUME NEW b \in Slots, NEW d \in Nat, NEW t \in Int, t = b + 2 * d, InCall(b, d)
    PROVE  /\ t \in Slots /\ b \in Nat /\ b - 1 \in Nat
           /\ d > 0 => IsInteger(vals[t - 1]) /\ vals[t] \in {FIX(1), FIX(2)}
           /\ d = 0 => vals[t] = FIX(3)
           /\ vals[t].n \in {1, 2, 3} /\ is_fixnum(vals[t])
           /\ d > 0 <=> vals[t].n # 3
           /\ vals[t].n = 1 <=> vals[t] = FIX(1)
           /\ vals[t].n = 2 <=> vals[t] = FIX(2)
<1>1. t \in Slots /\ b \in Nat /\ b - 1 \in Nat
  BY Constants DEF InCall
<1>2. ASSUME d > 0 PROVE IsInteger(vals[t - 1]) /\ vals[t] \in {FIX(1), FIX(2)}
  <2>1. d \in 1..d
    BY <1>2
  <2>2. IsInteger(vals[b + 2 * d - 1]) /\ vals[b + 2 * d] \in {FIX(1), FIX(2)}
    BY <2>1 DEF InCall
  <2>3. b + 2 * d - 1 = t - 1
    BY <1>1
  <2> QED BY <2>2, <2>3
<1>3. ASSUME d = 0 PROVE vals[t] = FIX(3)
  <2>1. t = b
    BY <1>1, <1>3
  <2> QED BY <2>1 DEF InCall
<1>4. FIX(1).n = 1 /\ FIX(2).n = 2 /\ FIX(3).n = 3
  BY DEF InCall, LabelsFit
<1>5. is_fixnum(FIX(1)) /\ is_fixnum(FIX(2)) /\ is_fixnum(FIX(3))
  BY DEF FIX, is_fixnum
<1>6. d = 0 \/ d > 0
  OBVIOUS
<1> QED BY <1>1, <1>2, <1>3, <1>4, <1>5, <1>6

\* Where control is when it is not at the entry.
LEMMA AtLabel ==
    ASSUME NEW b \in Slots, NEW d \in Nat, NEW t \in Int, t = b + 2 * d, InCall(b, d),
           label # "fib_with_registers_entry"
    PROVE  /\ SP = t /\ IsInteger(reg.A)
           /\ label \in {RegisterLabels[1], RegisterLabels[2], RegisterLabels[3]}
           /\ label = RegisterLabels[1] => d > 0 /\ vals[t] = FIX(1)
           /\ label = RegisterLabels[2] => d > 0 /\ vals[t] = FIX(2)
           /\ label = RegisterLabels[3] => d = 0
<1>1. SP = t /\ IsInteger(reg.A) /\ label = RegisterLabels[vals[t].n]
  BY DEF InCall
<1>2. vals[t].n \in {1, 2, 3} /\ (d > 0 <=> vals[t].n # 3)
  BY TopFrame
<1>3. (vals[t].n = 1 <=> vals[t] = FIX(1)) /\ (vals[t].n = 2 <=> vals[t] = FIX(2))
  BY TopFrame
<1>4. label = RegisterLabels[1] => vals[t].n = 1
  BY <1>1, <1>2, LabelFacts
<1>5. label = RegisterLabels[2] => vals[t].n = 2
  BY <1>1, <1>2, LabelFacts
<1>6. label = RegisterLabels[3] => vals[t].n = 3
  BY <1>1, <1>2, LabelFacts
<1> QED BY <1>1, <1>2, <1>3, <1>4, <1>5, <1>6

\* The steps of the opcode, with t for the slot of the uppermost return address:
\* a call for less than 2, the first and the second call for more, the sum of
\* their results, and the return to the program.
GoesOnCompiled ==
    /\ GoesOn /\ program' = program
    /\ \A w \in WordRegs \ {"N"} : word'[w] = word[w]

CallOfLeaf(t) ==
    /\ label = "fib_with_registers_entry"
    /\ IsInteger(reg.A) /\ reg.A.n < 2
    /\ reg' = [reg EXCEPT !.A = FIX(1)] /\ vals' = vals /\ SP' = t
    /\ label' = RegisterLabels[vals[t].n] /\ pc' = pc

FirstCall(t) ==
    /\ label = "fib_with_registers_entry" /\ label' = label /\ pc' = pc
    /\ is_fixnum(reg.A) /\ reg.A.n >= 2
    /\ t + 2 \in Slots
    /\ reg' = [reg EXCEPT !.A = FIX(reg.A.n - 1)]
    /\ vals' = [vals EXCEPT ![t + 1] = FIX(reg.A.n - 1), ![t + 2] = FIX(1)] /\ SP' = t + 3

SecondCall(t) ==
    /\ label = RegisterLabels[1] /\ label' = "fib_with_registers_entry" /\ pc' = pc
    /\ reg' = [reg EXCEPT !.A = FIX(vals[t - 1].n - 1)]
    /\ vals' = [vals EXCEPT ![t - 1] = reg.A, ![t] = FIX(2)] /\ SP' = t + 1

SumOfResults(t) ==
    /\ label = RegisterLabels[2]
    /\ reg' = [reg EXCEPT !.A = ToScm(reg.A.n + vals[t - 1].n)]
    /\ \A i \in Slots : i < t => vals'[i] = vals[i]
    /\ SP' = t - 2
    /\ label' = RegisterLabels[vals[t - 2].n] /\ pc' = pc

ReturnToProgram(b) ==
    /\ label = RegisterLabels[3] /\ label' = "dispatch"
    /\ pc' = vals[b - 1].n
    /\ reg' = reg /\ vals' = [vals EXCEPT ![b - 1] = reg.A, ![b] = vals[b - 1]] /\ SP' = SP

\* What ends it without a return.
NoCall ==
    /\ Stop("error")
    /\ label = "fib_with_registers_entry"
    /\ \/ ~ IsInteger(reg.A)
       \/ IsInteger(reg.A) /\ reg.A.n >= 2 /\ (is_fixnum(reg.A) => SP + 2 > stacklen)

\* Live integers.
LEMMA IntegersLive ==
    /\ \A n \in Int : FIX(n) \in Live /\ IsInteger(FIX(n)) /\ is_fixnum(FIX(n))
    /\ \A n \in Int : ToScm(n) \in Live /\ IsInteger(ToScm(n))
<1>1. \A n \in Int : FIX(n) \in Live /\ IsInteger(FIX(n)) /\ is_fixnum(FIX(n))
  BY FixnumsLive DEF IsInteger, is_fixnum
<1>2. \A n \in Int : ToScm(n) \in Live
  BY ResultsLive
<1>3. \A n \in Int : IsInteger(ToScm(n))
  BY <1>1 DEF ToScm, IsInteger
<1> QED BY <1>1, <1>2, <1>3

\* N is given a return address.
LEMMA EncodedWord ==
    ASSUME MachineOK, NEW v \in Live, word' = [word EXCEPT !.N = Encoded(v)]
    PROVE  /\ word' \in [WordRegs -> -(8 * FixRange)..(8 * FixRange - 1)]
           /\ \A w \in WordRegs \ {"N"} : word'[w] = word[w]
<1>1. v.n \in Int
  BY LiveFacts
<1>2. PICK n \in Int : Encoded(v) = SignedWord(n)
  <2>1. 8 * v.n + 7 \in Int /\ 8 * v.n + 3 \in Int /\ 8 * v.n + 1 \in Int
    BY <1>1
  <2> QED BY <2>1 DEF Encoded
<1>3. Encoded(v) \in -(8 * FixRange)..(8 * FixRange - 1)
  BY <1>2, WordsInRange
<1> QED BY <1>3 DEF MachineOK

\* Two live values written one above the other, and the stack pointer behind
\* them or below.
LEMMA TwoSlots ==
    ASSUME MachineOK, NEW i \in Nat, i + 1 \in Slots, i <= SP, NEW v \in Live, NEW w \in Live,
           vals' = [vals EXCEPT ![i] = v, ![i + 1] = w], SP' \in 0..(i + 2), SP' <= stacklen
    PROVE  /\ vals' \in [Slots -> Fitting]
           /\ vals'[i] = v /\ vals'[i + 1] = w
           /\ \A j \in Slots : j < i => vals'[j] = vals[j]
           /\ \A j \in Slots : j < SP' \/ j < proc.sp \/ j < i + 2 => vals'[j] \in Live
<1>1. SP \in Nat /\ i \in Slots /\ i # i + 1 /\ \A j \in Slots : j \in Nat
  BY Constants DEF MachineOK
<1>2. vals \in [Slots -> Fitting] /\ \A j \in Slots : j < SP \/ j < proc.sp => vals[j] \in Live
  BY DEF MachineOK
<1>3. vals'[i] = v /\ vals'[i + 1] = w /\ vals' \in [Slots -> Fitting]
  BY <1>1, <1>2, LiveFacts
<1>4. \A j \in Slots : j # i /\ j # i + 1 => vals'[j] = vals[j]
  BY <1>1, <1>2
<1>5. ASSUME NEW j \in Slots, j < i PROVE vals'[j] = vals[j]
  <2>1. j \in Nat /\ j # i /\ j # i + 1
    BY <1>1, <1>5
  <2> QED BY <1>4, <2>1
<1>6. ASSUME NEW j \in Slots, j < SP' \/ j < proc.sp \/ j < i + 2 PROVE vals'[j] \in Live
  <2>1. CASE j = i \/ j = i + 1
    BY <1>3, <2>1
  <2>2. CASE j # i /\ j # i + 1
    <3>1. j < SP \/ j < proc.sp
      BY <1>1, <1>6, <2>2
    <3> QED BY <1>2, <1>4, <2>2, <3>1
  <2> QED BY <2>1, <2>2
<1> QED BY <1>3, <1>5, <1>6

LEMMA EntryStep ==
    ASSUME MachineOK, status = "run", NEW b \in Slots, NEW d \in Nat, NEW t \in Int, t = b + 2 * d,
           InCall(b, d), label = "fib_with_registers_entry", fib_with_registers_entry
    PROVE  NoCall \/ (GoesOnCompiled /\ (CallOfLeaf(t) \/ FirstCall(t)))
<1>0. /\ SP = t + 1 /\ t \in Slots /\ t \in Nat /\ SP \in 0..stacklen /\ stacklen \in Nat
      /\ reg \in [Regs -> Live] /\ reg.A \in Live /\ reg.A.n \in Int
  <2>1. SP = t + 1
    BY TopFrame DEF InCall
  <2>2. t \in Slots /\ t \in Nat /\ stacklen \in Nat
    BY TopFrame, Constants
  <2>3. reg \in [Regs -> Live] /\ reg.A \in Live /\ SP \in 0..stacklen
    BY DEF MachineOK, Regs
  <2>4. reg.A.n \in Int
    BY <2>3, LiveFacts
  <2> QED BY <2>1, <2>2, <2>3, <2>4
<1>1. CASE ~ IsInteger(reg.A)
  <2>1. Refuse({reg.A})
    BY <1>1 DEF fib_with_registers_entry
  <2>2. Stop("error")
    BY <1>0, <2>1, LiveFacts DEF Refuse
  <2> QED BY <1>1, <2>2 DEF NoCall
<1>2. CASE IsInteger(reg.A) /\ reg.A.n < 2
  <2>1. /\ word' = [word EXCEPT !.N = Encoded(Ref(0))] /\ SP' = SP - 1
        /\ reg' = [reg EXCEPT !.A = FIX(1)]
        /\ UNCHANGED <<vals, proc, status>> /\ RegisterReturn(Ref(0))
    BY <1>2 DEF fib_with_registers_entry, BelowTwo
  <2>2. Ref(0) = vals[t] /\ Ref(0) \in Live
    <3>0. SP = t + 1 /\ t \in Nat /\ t \in Slots
      BY <1>0
    <3>1. 0 < SP /\ SP - 1 - 0 = t
      BY <3>0
    <3> QED BY <3>0, <3>1, RefAt, RefLive
  <2>3. reg' \in [Regs -> Live]
    BY <1>0, <2>1, IntegersLive
  <2>4. /\ word' \in [WordRegs -> -(8 * FixRange)..(8 * FixRange - 1)]
        /\ \A w \in WordRegs \ {"N"} : word'[w] = word[w]
    BY <2>1, <2>2, EncodedWord
  <2>5. SP' = t /\ SP' \in 0..stacklen
    <3>1. SP - 1 = t /\ SP <= stacklen
      BY <1>0
    <3>2. SP' = t
      BY <2>1, <3>1
    <3> QED BY <1>0, <3>1, <3>2
  <2>6. ASSUME NEW j \in Slots, j < t \/ j < proc.sp PROVE vals[j] \in Live
    <3>1. j \in Nat
      BY Constants
    <3>2. SP = t + 1 /\ t \in Nat
      BY <1>0
    <3>3. CASE j < t
      <4>1. j < SP
        BY <3>1, <3>2, <3>3
      <4> QED BY <4>1 DEF MachineOK
    <3>4. CASE j < proc.sp
      BY <3>4 DEF MachineOK
    <3> QED BY <2>6, <3>3, <3>4
  <2>7. MachineOK'
    BY <2>1, <2>3, <2>4, <2>5, <2>6 DEF MachineOK
  <2> QED BY <1>2, <2>1, <2>2, <2>4, <2>5, <2>7
          DEF CallOfLeaf, GoesOnCompiled, GoesOn, RegisterReturn, GotoLabel
<1>3. CASE IsInteger(reg.A) /\ reg.A.n >= 2 /\ (~ is_fixnum(reg.A) \/ SP + 2 > stacklen)
  <2>1. ~ (reg.A.n < 2)
    BY <1>0, <1>3
  <2>2. Stop("error")
    BY <1>3, <2>1 DEF fib_with_registers_entry, BelowTwo
  <2> QED BY <1>3, <2>2 DEF NoCall
<1>4. CASE IsInteger(reg.A) /\ reg.A.n >= 2 /\ is_fixnum(reg.A) /\ ~ (SP + 2 > stacklen)
  <2>0. ~ (reg.A.n < 2)
    BY <1>0, <1>4
  <2>1. PICK less : less = FIX(reg.A.n - 1)
    OBVIOUS
  <2>2. /\ reg' = [reg EXCEPT !.A = less]
        /\ vals' = [vals EXCEPT ![SP] = less, ![SP + 1] = FIX(1)]
        /\ SP' = SP + 2
        /\ UNCHANGED <<word, proc, status>>
        /\ GotoLabel("fib_with_registers_entry")
    BY <1>4, <2>0, <2>1 DEF fib_with_registers_entry, BelowTwo
  <2>3. less \in Live /\ FIX(1) \in Live
    BY <1>0, <2>1, IntegersLive
  <2>4. SP \in Nat /\ SP + 1 \in Slots /\ SP <= SP /\ SP' \in 0..(SP + 2) /\ SP' <= stacklen
    <3>1. SP \in Nat /\ SP + 2 <= stacklen
      BY <1>0, <1>4
    <3>2. SP + 1 \in Slots
      BY <3>1, Constants
    <3> QED BY <1>0, <2>2, <3>1, <3>2
  <2>5. /\ vals' \in [Slots -> Fitting]
        /\ \A j \in Slots : j < SP' \/ j < proc.sp \/ j < SP + 2 => vals'[j] \in Live
    BY <2>2, <2>3, <2>4, TwoSlots
  <2>6. reg' \in [Regs -> Live]
    BY <1>0, <2>2, <2>3
  <2>7. SP' \in 0..stacklen
    BY <1>0, <2>4
  <2>8. MachineOK'
    BY <2>2, <2>5, <2>6, <2>7 DEF MachineOK
  <2>9. SP = t + 1 /\ SP + 1 = t + 2 /\ SP' = t + 3
    BY <1>0, <2>2
  <2>10. FirstCall(t)
    BY <1>4, <2>1, <2>2, <2>4, <2>9 DEF FirstCall, GotoLabel
  <2> QED BY <2>2, <2>8, <2>10 DEF GoesOnCompiled, GoesOn, GotoLabel
<1> QED BY <1>0, <1>1, <1>2, <1>3, <1>4

LEMMA FirstReturnStep ==
    ASSUME MachineOK, status = "run", NEW b \in Slots, NEW d \in Nat, NEW t \in Int, t = b + 2 * d,
           InCall(b, d), label = RegisterLabels[1], fib_with_registers_ret_1
    PROVE  GoesOnCompiled /\ SecondCall(t)
<1>0. /\ SP = t /\ t \in Slots /\ SP \in Nat /\ stacklen \in Nat /\ t - 1 \in Nat /\ t - 1 \in Slots
      /\ reg \in [Regs -> Live] /\ reg.A \in Live
  <2>1. label # "fib_with_registers_entry"
    BY LabelFacts
  <2>2. SP = t /\ t \in Slots /\ d > 0
    BY <2>1, AtLabel, TopFrame
  <2>3. b \in Nat
    BY TopFrame
  <2> QED BY <2>2, <2>3, Constants DEF MachineOK, Regs
<1>1. SP + 1 <= stacklen
  BY <1>0, Constants
<1>2. /\ word' = [word EXCEPT !.N = Encoded(Ref(0))]
      /\ reg' = [reg EXCEPT !.A = FIX(Ref(0).n - 1)]
      /\ vals' = [vals EXCEPT ![SP - 1] = reg.A, ![SP] = FIX(2)]
      /\ SP' = SP + 1
      /\ UNCHANGED <<proc, status>>
      /\ GotoLabel("fib_with_registers_entry")
  BY <1>0, <1>1 DEF fib_with_registers_ret_1
<1>3. Ref(0) = vals[t - 1] /\ Ref(0) \in Live /\ Ref(0).n \in Int
  <2>1. 0 < SP /\ SP - 1 - 0 = t - 1
    BY <1>0
  <2> QED BY <1>0, <2>1, RefAt, RefLive
<1>4. reg' \in [Regs -> Live]
  BY <1>0, <1>2, <1>3, IntegersLive
<1>5. /\ word' \in [WordRegs -> -(8 * FixRange)..(8 * FixRange - 1)]
      /\ \A w \in WordRegs \ {"N"} : word'[w] = word[w]
  BY <1>2, <1>3, EncodedWord
<1>6. PICK i \in Nat : i = t - 1 /\ i + 1 = t /\ SP = i + 1 /\ SP - 1 = i
  BY <1>0
<1>7. vals' = [vals EXCEPT ![i] = reg.A, ![i + 1] = FIX(2)] /\ FIX(2) \in Live
  <2>1. FIX(2) \in Live
    BY IntegersLive
  <2> QED BY <1>2, <1>6, <2>1
<1>8. SP' = i + 2 /\ SP' \in 0..(i + 2) /\ SP' <= stacklen /\ i + 1 \in Slots /\ i <= SP
  BY <1>0, <1>1, <1>2, <1>6
<1>9. /\ vals' \in [Slots -> Fitting]
      /\ \A j \in Slots : j < SP' \/ j < proc.sp \/ j < i + 2 => vals'[j] \in Live
  BY <1>0, <1>7, <1>8, TwoSlots
<1>10. SP' \in 0..stacklen
  BY <1>0, <1>1, <1>2
<1>11. MachineOK'
  BY <1>2, <1>4, <1>5, <1>9, <1>10 DEF MachineOK
<1>12. SecondCall(t)
  BY <1>0, <1>2, <1>3 DEF SecondCall, GotoLabel
<1> QED BY <1>2, <1>5, <1>11, <1>12 DEF GoesOnCompiled, GoesOn, GotoLabel

LEMMA SecondReturnStep ==
    ASSUME MachineOK, status = "run", NEW b \in Slots, NEW d \in Nat, NEW t \in Int, t = b + 2 * d,
           InCall(b, d), label = RegisterLabels[2], fib_with_registers_ret_2
    PROVE  GoesOnCompiled /\ SumOfResults(t)
<1>0. /\ SP = t /\ t \in Slots /\ SP \in Nat /\ SP \in 0..stacklen /\ stacklen \in Nat /\ 2 <= SP
      /\ reg \in [Regs -> Live] /\ reg.A \in Live /\ reg.A.n \in Int
  <2>1. label # "fib_with_registers_entry"
    BY LabelFacts
  <2>2. SP = t /\ t \in Slots /\ d > 0
    BY <2>1, AtLabel, TopFrame
  <2>3. b \in Nat
    BY TopFrame
  <2>4. reg \in [Regs -> Live] /\ reg.A \in Live /\ SP \in 0..stacklen
    BY DEF MachineOK, Regs
  <2>5. reg.A.n \in Int
    BY <2>4, LiveFacts
  <2> QED BY <2>2, <2>3, <2>4, <2>5, Constants
<1>1. Ref(0) = vals[t - 1] /\ Ref(0).n \in Int /\ Ref(1) = vals[t - 2] /\ Ref(1) \in Live
  <2>1. 0 < SP /\ 1 < SP /\ SP - 1 - 0 = t - 1 /\ SP - 1 - 1 = t - 2
    BY <1>0
  <2> QED BY <1>0, <2>1, RefAt, RefLive
<1>2. PICK n \in Int : n = reg.A.n + Ref(0).n
  BY <1>0, <1>1
<1>3. PICK how, toRegs, toSlots : how = Lazily(EXCEPT_A) /\ toRegs = {"A"} /\ toSlots = {}
  OBVIOUS
<1>4. /\ Primitive(how, vals, SP, {reg.A, Ref(0)}, n, toRegs, toSlots, 2)
      /\ word' = [word EXCEPT !.N = Encoded(Ref(1))]
      /\ RegisterReturn(Ref(1))
  BY <1>2, <1>3 DEF fib_with_registers_ret_2
<1>5. Outcome(vals, SP, n, toRegs, toSlots, 2)
  <2>1. vals \in [Slots -> Fitting] /\ \A i \in Slots : i < SP \/ i < proc.sp => vals[i] \in Live
    BY DEF MachineOK
  <2>2. Saves(how, EXCEPT_A, toRegs, vals)
    BY <1>3, <2>1 DEF Saves
  <2> QED BY <1>0, <1>4, <2>1, <2>2, PrimitiveEffect
<1>6. /\ status' = "run" /\ SP' = SP - 2
      /\ reg' = [r \in Regs |-> IF r \in {"A"} THEN ToScm(n) ELSE reg[r]]
      /\ vals' \in [Slots -> Fitting]
      /\ \A i \in Slots : i < SP => vals'[i] = vals[i]
      /\ \A i \in Slots : i < SP' \/ i < proc'.sp => vals'[i] \in Live
      /\ proc' \in [reg : [Regs -> Live], sp : 0..stacklen]
  BY <1>3, <1>5 DEF Outcome
<1>7. reg' = [reg EXCEPT !.A = ToScm(n)] /\ reg' \in [Regs -> Live]
  BY <1>0, <1>6, IntegersLive
<1>8. /\ word' \in [WordRegs -> -(8 * FixRange)..(8 * FixRange - 1)]
      /\ \A w \in WordRegs \ {"N"} : word'[w] = word[w]
  BY <1>1, <1>4, EncodedWord
<1>9. SP' \in 0..stacklen
  BY <1>0, <1>6
<1>10. MachineOK'
  BY <1>6, <1>7, <1>8, <1>9 DEF MachineOK
<1>11. SumOfResults(t)
  BY <1>0, <1>1, <1>2, <1>4, <1>6, <1>7 DEF SumOfResults, RegisterReturn, GotoLabel
<1> QED BY <1>4, <1>6, <1>8, <1>10, <1>11 DEF GoesOnCompiled, GoesOn, RegisterReturn, GotoLabel

LEMMA ReturnStep ==
    ASSUME MachineOK, status = "run", NEW b \in Slots, NEW d \in Nat, NEW t \in Int, t = b + 2 * d,
           InCall(b, d), label = RegisterLabels[3], fib_with_registers_end_calling_conventions
    PROVE  GoesOnCompiled /\ ReturnToProgram(b)
<1>0. /\ SP = b /\ SP \in Nat /\ stacklen \in Nat /\ b - 1 \in Nat /\ SP \in 0..stacklen
      /\ reg \in [Regs -> Live] /\ reg.A \in Live
  <2>1. label # "fib_with_registers_entry"
    BY LabelFacts
  <2>2. SP = t /\ d = 0
    BY <2>1, AtLabel
  <2>3. b \in Nat /\ b - 1 \in Nat
    BY TopFrame
  <2> QED BY <2>2, <2>3, Constants DEF MachineOK, Regs
<1>1. SP + 1 <= stacklen
  BY <1>0, Constants
<1>2. /\ vals' = [vals EXCEPT ![SP - 1] = reg.A, ![SP] = Ref(0)]
      /\ proc' = [proc EXCEPT !.sp = SP + 1]
      /\ UNCHANGED <<reg, word, SP, status, program>>
      /\ label' = "dispatch" /\ pc' = Ref(0).n
  BY <1>0, <1>1 DEF fib_with_registers_end_calling_conventions
<1>3. Ref(0) = vals[b - 1] /\ Ref(0) \in Live
  <2>1. 0 < SP /\ SP - 1 - 0 = b - 1
    BY <1>0
  <2> QED BY <1>0, <2>1, RefAt, RefLive
<1>4. PICK i \in Nat : i = b - 1 /\ i + 1 = b /\ SP = i + 1 /\ SP - 1 = i
  BY <1>0
<1>5. vals' = [vals EXCEPT ![i] = reg.A, ![i + 1] = Ref(0)]
  BY <1>2, <1>4
<1>6. SP' \in 0..(i + 2) /\ SP' <= stacklen /\ i + 1 \in Slots /\ i <= SP
  BY <1>0, <1>2, <1>4
<1>7. /\ vals' \in [Slots -> Fitting]
      /\ \A j \in Slots : j < SP' \/ j < proc.sp \/ j < i + 2 => vals'[j] \in Live
  BY <1>0, <1>3, <1>5, <1>6, TwoSlots
<1>8. proc' \in [reg : [Regs -> Live], sp : 0..stacklen] /\ proc'.sp = i + 2
  <2>1. SP + 1 \in 0..stacklen /\ SP + 1 = i + 2
    BY <1>0, <1>1, <1>4
  <2> QED BY <1>2, <2>1, StoredSPFacts
<1>9. SP' \in 0..stacklen
  BY <1>0, <1>2
<1>10. \A j \in Slots : j < SP' \/ j < proc'.sp => vals'[j] \in Live
  BY <1>7, <1>8
<1>11. MachineOK'
  BY <1>2, <1>7, <1>8, <1>9, <1>10 DEF MachineOK
<1>12. ReturnToProgram(b)
  BY <1>0, <1>2, <1>3 DEF ReturnToProgram
<1> QED BY <1>2, <1>11, <1>12 DEF GoesOnCompiled, GoesOn

CompiledStep(b, t) == CallOfLeaf(t) \/ FirstCall(t) \/ SecondCall(t) \/ SumOfResults(t) \/ ReturnToProgram(b)

LEMMA CompiledSteps ==
    ASSUME MachineOK, status = "run", NEW b \in Slots, NEW d \in Nat, NEW t \in Int, t = b + 2 * d,
           InCall(b, d), Compiled
    PROVE  NoCall \/ (GoesOnCompiled /\ CompiledStep(b, t))
<1>1. CASE label = "fib_with_registers_entry"
  <2>1. fib_with_registers_entry
    BY <1>1 DEF Compiled
  <2> QED BY <1>1, <2>1, EntryStep DEF CompiledStep
<1>2. CASE label # "fib_with_registers_entry"
  <2>1. label \in {RegisterLabels[1], RegisterLabels[2], RegisterLabels[3]}
    BY <1>2, AtLabel
  <2>2. CASE label = RegisterLabels[1]
    <3>1. fib_with_registers_ret_1
      BY <2>2, LabelFacts DEF Compiled
    <3> QED BY <2>2, <3>1, FirstReturnStep DEF CompiledStep
  <2>3. CASE label = RegisterLabels[2]
    <3>1. fib_with_registers_ret_2
      BY <2>3, LabelFacts DEF Compiled
    <3> QED BY <2>3, <3>1, SecondReturnStep DEF CompiledStep
  <2>4. CASE label = RegisterLabels[3]
    <3>1. fib_with_registers_end_calling_conventions
      BY <2>4, LabelFacts DEF Compiled
    <3> QED BY <2>4, <3>1, ReturnStep DEF CompiledStep
  <2> QED BY <2>1, <2>2, <2>3, <2>4
<1> QED BY <1>1, <1>2

\* Return addresses are no label that control is at otherwise.
LEMMA LabelsDiffer ==
    ASSUME NEW n \in {1, 2, 3}
    PROVE  RegisterLabels[n] \notin {"dispatch", "fib_with_registers_entry"}
BY LabelFacts

\* Where the slots of frame k are.
LEMMA FrameSlots ==
    ASSUME NEW b \in Slots, NEW d \in Nat, InCall(b, d), NEW k \in 1..d
    PROVE  /\ b + 2 * k - 1 \in Slots /\ b + 2 * k \in Slots /\ b + 2 * k - 2 \in Slots
           /\ b + 2 * k <= b + 2 * d
<1>1. b \in Nat /\ b + 2 * d \in Slots /\ stacklen \in Nat
  BY Constants DEF InCall
<1>2. b + 2 * k <= b + 2 * d /\ b + 2 * k \in Nat /\ b + 2 * k >= 2
  BY <1>1
<1> QED BY <1>1, <1>2, Constants

\* The frames after each of the steps.
LEMMA LeafFrames ==
    ASSUME NEW b \in Slots, NEW d \in Nat, NEW t \in Int, t = b + 2 * d, InCall(b, d),
           GoesOnCompiled, CallOfLeaf(t), reg \in [Regs -> Live]
    PROVE  InCall(b, d)'
<1>1. vals[t].n \in {1, 2, 3}
  BY TopFrame
<1>2. label' = RegisterLabels[vals'[b + 2 * d].n] /\ label' # "fib_with_registers_entry" /\ SP' = b + 2 * d
  BY <1>1, LabelsDiffer DEF CallOfLeaf
<1>3. IsInteger(reg'.A)
  BY IntegersLive DEF CallOfLeaf, Regs
<1> QED BY <1>2, <1>3 DEF InCall, CallOfLeaf, GoesOnCompiled

LEMMA FirstCallFrames ==
    ASSUME NEW b \in Slots, NEW d \in Nat, NEW t \in Int, t = b + 2 * d, InCall(b, d),
           GoesOnCompiled, FirstCall(t), vals \in [Slots -> Fitting], reg.A.n \in Int
    PROVE  InCall(b, d + 1)'
<1>0. /\ b \in Nat /\ b - 1 \in Nat /\ t \in Nat /\ t + 1 \in Slots /\ t + 2 \in Slots /\ t + 2 = b + 2 * (d + 1)
      /\ b - 1 \in Slots /\ b - 1 < t + 1 /\ b < t + 1
  <2>1. b \in Nat /\ b - 1 \in Nat /\ t + 2 \in Slots /\ b - 1 \in Slots
    BY TopFrame DEF FirstCall, InCall
  <2> QED BY <2>1, Constants
<1>1. vals' = [vals EXCEPT ![t + 1] = FIX(reg.A.n - 1), ![t + 2] = FIX(1)] /\ SP' = t + 3
      /\ label' = "fib_with_registers_entry"
  BY DEF FirstCall
<1>2. \A j \in Slots : j < t + 1 => vals'[j] = vals[j]
  <2> SUFFICES ASSUME NEW j \in Slots, j < t + 1 PROVE vals'[j] = vals[j]
    OBVIOUS
  <2>1. j # t + 1 /\ j # t + 2
    BY <1>0, Constants
  <2> QED BY <1>1, <2>1
<1>3. vals'[t + 1] = FIX(reg.A.n - 1) /\ vals'[t + 2] = FIX(1)
  <2>1. t + 1 # t + 2
    BY <1>0
  <2> QED BY <1>0, <1>1, <2>1
<1>4. ASSUME NEW k \in 1..(d + 1)
      PROVE  IsInteger(vals'[b + 2 * k - 1]) /\ vals'[b + 2 * k] \in {FIX(1), FIX(2)}
  <2>1. CASE k \in 1..d
    <3>1. /\ b + 2 * k - 1 \in Slots /\ b + 2 * k \in Slots
          /\ b + 2 * k - 1 < t + 1 /\ b + 2 * k < t + 1
      BY <1>0, <2>1, FrameSlots
    <3>2. IsInteger(vals[b + 2 * k - 1]) /\ vals[b + 2 * k] \in {FIX(1), FIX(2)}
      BY <2>1 DEF InCall
    <3> QED BY <1>2, <3>1, <3>2
  <2>2. CASE k = d + 1
    <3>1. b + 2 * k - 1 = t + 1 /\ b + 2 * k = t + 2
      BY <1>0, <2>2
    <3>2. IsInteger(FIX(reg.A.n - 1))
      BY IntegersLive
    <3> QED BY <1>3, <3>1, <3>2
  <2> QED BY <2>1, <2>2
<1>5. vals'[b - 1] = vals[b - 1] /\ vals'[b] = vals[b]
  BY <1>0, <1>2
<1>6. SP' = b + 2 * (d + 1) + 1
  BY <1>0, <1>1
<1> QED BY <1>0, <1>1, <1>4, <1>5, <1>6 DEF InCall, GoesOnCompiled

LEMMA SecondCallFrames ==
    ASSUME NEW b \in Slots, NEW d \in Nat, NEW t \in Int, t = b + 2 * d, InCall(b, d),
           GoesOnCompiled, SecondCall(t), vals \in [Slots -> Fitting]
    PROVE  InCall(b, d)'
<1>0. d > 0 /\ IsInteger(reg.A)
  <2>1. label = RegisterLabels[1] /\ label # "fib_with_registers_entry"
    BY LabelFacts DEF SecondCall
  <2> QED BY <2>1, AtLabel
<1>1. /\ b \in Nat /\ b - 1 \in Nat /\ t \in Nat /\ t \in Slots /\ t - 1 \in Slots /\ t - 1 # t
      /\ b - 1 \in Slots /\ b - 1 < t - 1 /\ b < t - 1
  <2>1. b \in Nat /\ b - 1 \in Nat /\ t \in Slots /\ b - 1 \in Slots
    BY TopFrame DEF InCall
  <2> QED BY <1>0, <2>1, Constants
<1>2. vals' = [vals EXCEPT ![t - 1] = reg.A, ![t] = FIX(2)] /\ SP' = t + 1
      /\ label' = "fib_with_registers_entry"
  BY DEF SecondCall
<1>3. \A j \in Slots : j < t - 1 => vals'[j] = vals[j]
  <2> SUFFICES ASSUME NEW j \in Slots, j < t - 1 PROVE vals'[j] = vals[j]
    OBVIOUS
  <2>1. j # t - 1 /\ j # t
    BY <1>1, Constants
  <2> QED BY <1>2, <2>1
<1>4. vals'[t - 1] = reg.A /\ vals'[t] = FIX(2)
  BY <1>1, <1>2
<1>5. ASSUME NEW k \in 1..d
      PROVE  IsInteger(vals'[b + 2 * k - 1]) /\ vals'[b + 2 * k] \in {FIX(1), FIX(2)}
  <2>1. CASE k < d
    <3>1. /\ b + 2 * k - 1 \in Slots /\ b + 2 * k \in Slots
          /\ b + 2 * k - 1 < t - 1 /\ b + 2 * k < t - 1
      BY <1>1, <2>1, FrameSlots
    <3>2. IsInteger(vals[b + 2 * k - 1]) /\ vals[b + 2 * k] \in {FIX(1), FIX(2)}
      BY DEF InCall
    <3> QED BY <1>3, <3>1, <3>2
  <2>2. CASE k = d
    <3>1. b + 2 * k - 1 = t - 1 /\ b + 2 * k = t
      BY <1>1, <2>2
    <3> QED BY <1>0, <1>4, <3>1
  <2> QED BY <2>1, <2>2
<1>6. vals'[b - 1] = vals[b - 1] /\ vals'[b] = vals[b]
  BY <1>1, <1>3
<1> QED BY <1>2, <1>5, <1>6 DEF InCall, GoesOnCompiled

LEMMA SumFrames ==
    ASSUME NEW b \in Slots, NEW d \in Nat, NEW t \in Int, t = b + 2 * d, InCall(b, d),
           GoesOnCompiled, SumOfResults(t), reg \in [Regs -> Live], reg.A.n \in Int, vals[t - 1].n \in Int
    PROVE  d - 1 \in Nat /\ InCall(b, d - 1)' /\ label' \notin {"dispatch", "fib_with_registers_entry"}
<1>0. d > 0 /\ d - 1 \in Nat
  <2>1. label = RegisterLabels[2] /\ label # "fib_with_registers_entry"
    BY LabelFacts DEF SumOfResults
  <2> QED BY <2>1, AtLabel
<1>1. /\ b \in Nat /\ b - 1 \in Slots /\ t \in Nat /\ t \in Slots /\ t - 2 = b + 2 * (d - 1)
      /\ t - 2 \in Slots /\ t - 2 < t /\ b < t /\ b - 1 < t
  <2>1. b \in Nat /\ t \in Slots /\ b - 1 \in Slots
    BY TopFrame DEF InCall
  <2> QED BY <1>0, <2>1, Constants
<1>2. \A j \in Slots : j < t => vals'[j] = vals[j]
  BY DEF SumOfResults
<1>3. ASSUME NEW k \in 1..(d - 1)
      PROVE  IsInteger(vals'[b + 2 * k - 1]) /\ vals'[b + 2 * k] \in {FIX(1), FIX(2)}
  <2>1. k \in 1..d /\ b + 2 * k < t /\ b + 2 * k - 1 < t
    BY <1>0, <1>1
  <2>2. b + 2 * k - 1 \in Slots /\ b + 2 * k \in Slots
    BY <2>1, FrameSlots
  <2>3. IsInteger(vals[b + 2 * k - 1]) /\ vals[b + 2 * k] \in {FIX(1), FIX(2)}
    BY <2>1 DEF InCall
  <2> QED BY <1>2, <2>1, <2>2, <2>3
<1>4. vals'[b - 1] = vals[b - 1] /\ vals'[b] = vals[b] /\ vals'[t - 2] = vals[t - 2]
  BY <1>1, <1>2
<1>5. vals[t - 2].n \in {1, 2, 3}
  <2>1. CASE d - 1 > 0
    <3>1. d - 1 \in 1..d /\ b + 2 * (d - 1) = t - 2
      BY <1>0, <1>1, <2>1
    <3>2. vals[t - 2] \in {FIX(1), FIX(2)}
      BY <3>1 DEF InCall
    <3> QED BY <3>2 DEF InCall, LabelsFit
  <2>2. CASE d - 1 = 0
    <3>1. t - 2 = b
      BY <1>1, <2>2
    <3> QED BY <3>1 DEF InCall, LabelsFit
  <2> QED BY <1>0, <2>1, <2>2
<1>6. /\ label' = RegisterLabels[vals'[b + 2 * (d - 1)].n] /\ label' \notin {"dispatch", "fib_with_registers_entry"}
      /\ SP' = b + 2 * (d - 1)
  <2>1. label' = RegisterLabels[vals[t - 2].n] /\ SP' = t - 2
    BY DEF SumOfResults
  <2> QED BY <1>1, <1>4, <1>5, <2>1, LabelsDiffer
<1>7. IsInteger(reg'.A)
  <2>1. reg'.A = ToScm(reg.A.n + vals[t - 1].n)
    BY DEF SumOfResults, Regs
  <2> QED BY <2>1, IntegersLive
<1> QED BY <1>0, <1>1, <1>3, <1>4, <1>6, <1>7 DEF InCall, GoesOnCompiled

\* The instruction: the return address goes below the one of the label, and the
\* argument to A.
CallBegins(b) ==
    /\ b \in Slots /\ b - 1 \in Slots /\ b = SP - 1
    /\ label' = "fib_with_registers_entry" /\ pc' = pc
    /\ reg' = [reg EXCEPT !.A = vals[b - 1]]
    /\ vals'[b - 1] = vals[b] /\ vals'[b] = FIX(3)
    /\ \A j \in Slots : j < b - 1 => vals'[j] = vals[j]
    /\ SP' = SP

LEMMA EnterEffect ==
    ASSUME MachineOK, status = "run", NEW x, fib_with_registers(x), 2 <= SP, NEW b, b = SP - 1
    PROVE  GoesOnCompiled /\ CallBegins(b)
<1>0. SP \in 0..stacklen /\ SP \in Nat /\ vals \in [Slots -> Fitting] /\ reg \in [Regs -> Live]
  BY Constants DEF MachineOK
<1>1. /\ Swapped \in [Slots -> Fitting]
      /\ \A j \in Slots : j < SP \/ j < proc.sp => Swapped[j] \in Live
      /\ SP - 1 \in Slots /\ SP - 2 \in Slots
      /\ Swapped[SP - 1] = Ref(1) /\ Swapped[SP - 2] = Ref(0)
      /\ \A j \in Slots : j < SP - 2 => Swapped[j] = vals[j]
  BY SwappedFacts
<1>2. b \in Slots /\ b - 1 \in Slots /\ b - 1 = SP - 2 /\ b # b - 1 /\ b < SP /\ b \in Nat
  BY <1>0, <1>1, Constants
<1>3. Ref(0) = vals[b] /\ Ref(1) = vals[b - 1] /\ Ref(1) \in Live
  <2>1. SP - 1 - 0 = b /\ SP - 1 - 1 = b - 1 /\ 1 < SP
    BY <1>0, <1>2
  <2> QED BY <1>0, <1>2, <2>1, RefAt, RefLive
<1>4. /\ reg' = [reg EXCEPT !.A = Ref(1)]
      /\ vals' = [Swapped EXCEPT ![b] = FIX(3)]
      /\ proc' = StoredSP
      /\ UNCHANGED <<word, SP, status>>
      /\ GotoLabel("fib_with_registers_entry")
  BY DEF fib_with_registers
<1>5. reg' \in [Regs -> Live]
  BY <1>0, <1>3, <1>4
<1>6. StoredSP \in [reg : [Regs -> Live], sp : 0..stacklen] /\ StoredSP.sp = SP
  BY <1>0, StoredSPFacts DEF StoredSP
<1>7. FIX(3) \in Live /\ FIX(3) \in Fitting
  BY IntegersLive, LiveFacts
<1>8. vals' \in [Slots -> Fitting] /\ vals'[b] = FIX(3) /\ \A j \in Slots : j # b => vals'[j] = Swapped[j]
  BY <1>1, <1>2, <1>4, <1>7
<1>9. ASSUME NEW j \in Slots, j < SP' \/ j < proc'.sp PROVE vals'[j] \in Live
  <2>1. j < SP
    BY <1>4, <1>6, <1>9
  <2>2. CASE j = b
    BY <1>7, <1>8, <2>2
  <2>3. CASE j # b
    BY <1>1, <1>8, <2>1, <2>3
  <2> QED BY <2>2, <2>3
<1>10. MachineOK'
  BY <1>0, <1>4, <1>5, <1>6, <1>8, <1>9 DEF MachineOK
<1>11. vals'[b - 1] = vals[b]
  BY <1>1, <1>2, <1>3, <1>8
<1>12. ASSUME NEW j \in Slots, j < b - 1 PROVE vals'[j] = vals[j]
  <2>1. j # b /\ j < SP - 2
    BY <1>2, <1>12, Constants
  <2> QED BY <1>1, <1>8, <2>1
<1>13. CallBegins(b)
  BY <1>2, <1>3, <1>4, <1>8, <1>11, <1>12 DEF CallBegins, GotoLabel
<1> QED BY <1>4, <1>10, <1>13 DEF GoesOnCompiled, GoesOn, GotoLabel

LEMMA EnterFrames ==
    ASSUME NEW b \in Slots, LabelsFit, GoesOnCompiled, CallBegins(b),
           vals[b].kind = "pcnum", vals[b].n \in DOMAIN Code[program], SP \in Nat
    PROVE  InCall(b, 0)'
<1>1. b \in Nat
  BY Constants
<1>2. b + 2 * 0 = b /\ SP' = b + 2 * 0 + 1
  BY <1>1 DEF CallBegins
<1>3. \A k \in 1..0 : FALSE
  OBVIOUS
<1> QED BY <1>1, <1>2, <1>3 DEF InCall, CallBegins, GoesOnCompiled

-----------------------------------------------------------------------------
(***************************************************************************)
(* The invariant.                                                          *)
(***************************************************************************)
\* A stop, after an error or a refusal, changes nothing but the status.
LEMMA StopEffect ==
    ASSUME MInv, Stop("error")
    PROVE  MInv'
<1>1. machine' = machine /\ control' = control /\ status' = "error"
  BY DEF Stop
<1>2. MachineOK'
  BY <1>1 DEF MInv, MachineOK, machine
<1>3. \A b, d : InCall(b, d)' <=> InCall(b, d)
  BY <1>1 DEF InCall, machine, control
<1>4. ControlOK'
  BY <1>1, <1>3 DEF MInv, ControlOK, control
<1> QED BY <1>2, <1>4 DEF MInv

LEMMA InitialInv ==
    ASSUME SafeCode, Init
    PROVE  MInv
<1>1. reg = [r \in Regs |-> UNINITIALIZED] /\ reg \in [Regs -> Live] /\ proc = [reg |-> reg, sp |-> 0]
  BY LiveFacts DEF Init
<1>2. 0 \in 0..stacklen /\ 0 \in -(8 * FixRange)..(8 * FixRange - 1)
  <2>1. PICK m \in Nat : m = 8 * FixRange /\ m > 0
    BY Constants
  <2>2. 0 \in -m..(m - 1)
    BY <2>1
  <2> QED BY <2>1, <2>2, Constants
<1>3. proc \in [reg : [Regs -> Live], sp : 0..stacklen]
  BY <1>1, <1>2
<1>4. word \in [WordRegs -> -(8 * FixRange)..(8 * FixRange - 1)]
  BY <1>2 DEF Init
<1>5. vals \in [Slots -> Fitting] /\ \A i \in Slots : ~ (i < 0)
  BY LiveFacts, Constants DEF Init
<1>6. SP = 0 /\ proc.sp = 0
  BY <1>1 DEF Init
<1>7. MachineOK
  BY <1>1, <1>2, <1>3, <1>4, <1>5, <1>6 DEF MachineOK
<1> QED BY <1>7 DEF Init, SafeCode, MInv, ControlOK

\* One instruction: it is refused or has no room on the stack, it is executed, or
\* it is a call of the compiled opcode.
Executed ==
    /\ MachineOK' /\ program' = program /\ label' = "dispatch" /\ pc' \in DOMAIN Code[program]
    /\ status' \in {"run", "halt"}

CallMade ==
    /\ 2 <= SP /\ LabelsFit
    /\ Ref(0).kind = "pcnum" /\ Ref(0).n \in DOMAIN Code[program]
    /\ \E x \in Code[program][pc] : fib_with_registers(x)

LEMMA StepCases ==
    ASSUME SafeCode, MInv, status = "run", Step
    PROVE  label = "dispatch" /\ (Stop("error") \/ Executed \/ CallMade)
<1>1. program \in DOMAIN Code /\ pc \in DOMAIN Code[program] /\ MachineOK /\ SP \in 0..stacklen /\ SP \in Nat
  BY Constants DEF MInv, ControlOK, MachineOK
<1>2. /\ pc \in Nat
      /\ \A x \in Code[program][pc] :
            /\ WellFormed(x) /\ x.op \notin Excluded
            /\ (x.op = "fib_with_registers" => LabelsFit) /\ (x.op = "jsr_rel8__swap" => AllocIsSafe)
  BY <1>1 DEF SafeCode
<1>3. PICK x \in Code[program][pc] :
         /\ Verified(x)
         /\ \/ ~ Fits(x) /\ Stop("error")
            \/ Fits(x) /\ Refused(x) /\ Refuse(Operands(x))
            \/ Fits(x) /\ ~ Refused(x) /\ Execute(x)
  BY DEF Step
<1>4. /\ WellFormed(x) /\ x.op \notin Excluded
      /\ (x.op = "fib_with_registers" => LabelsFit) /\ (x.op = "jsr_rel8__swap" => AllocIsSafe)
  BY <1>2, <1>3
<1>5. label = "dispatch"
  BY DEF Step
<1>6. CASE Fits(x) /\ Refused(x) /\ Refuse(Operands(x))
  <2>1. Dangling \notin Operands(x)
    BY <1>1, <1>3, <1>4, <1>6, OperandsLive, LiveFacts
  <2> QED BY <1>5, <1>6, <2>1 DEF Refuse
<1>7. CASE Fits(x) /\ ~ Refused(x) /\ Execute(x) /\ x.op # "fib_with_registers"
  <2>1. MachineOK' /\ Stays /\ (status' = "run" \/ (status' = "halt" /\ pc' = pc))
    BY <1>2, <1>3, <1>4, <1>7, ExecuteEffect
  <2>2. program' = program /\ label' = "dispatch"
    BY <1>5, <2>1 DEF Stays
  <2>3. pc' \in DOMAIN Code[program]
    BY <1>1, <2>1 DEF Step
  <2> QED BY <1>5, <2>1, <2>2, <2>3 DEF Executed
<1>8. CASE Fits(x) /\ ~ Refused(x) /\ Execute(x) /\ x.op = "fib_with_registers"
  <2>1. fib_with_registers(x) /\ LabelsFit /\ 2 <= SP
    BY <1>1, <1>4, <1>8, Room DEF Execute, Arithmetic, Top2
  <2>2. Ref(0).kind = "pcnum" /\ Ref(0).n \in DOMAIN Code[program]
    BY <1>1, <1>3, <1>8, <2>1 DEF Verified
  <2> QED BY <1>3, <1>5, <2>1, <2>2 DEF CallMade
<1> QED BY <1>3, <1>5, <1>6, <1>7, <1>8

LEMMA StepInv ==
    ASSUME SafeCode, MInv, status = "run", Step
    PROVE  MInv'
<1>1. program \in DOMAIN Code /\ pc \in DOMAIN Code[program] /\ MachineOK /\ SP \in 0..stacklen /\ SP \in Nat
  BY Constants DEF MInv, ControlOK, MachineOK
<1>2. CASE Stop("error")
  BY <1>2, StopEffect
<1>3. CASE Executed
  BY <1>1, <1>3 DEF Executed, MInv, ControlOK
<1>4. CASE CallMade
  <2>1. PICK x \in Code[program][pc] : fib_with_registers(x)
    BY <1>4 DEF CallMade
  <2>2. PICK b \in Slots : b = SP - 1
    BY <1>1, <1>4, Constants DEF CallMade
  <2>3. GoesOnCompiled /\ CallBegins(b)
    BY <1>1, <1>4, <2>1, <2>2, EnterEffect DEF CallMade
  <2>4. Ref(0) = vals[b]
    BY <1>1, <2>2, Constants, RefAt
  <2>5. InCall(b, 0)'
    BY <1>1, <1>4, <2>3, <2>4, EnterFrames DEF CallMade
  <2>6. 0 \in 0..stacklen
    BY Constants
  <2> QED BY <1>1, <2>3, <2>5, <2>6 DEF MInv, ControlOK, GoesOnCompiled, GoesOn, CallBegins
<1> QED BY <1>2, <1>3, <1>4, StepCases

\* A step of the compiled opcode.
LEMMA CompiledInv ==
    ASSUME SafeCode, MInv, status = "run", Compiled
    PROVE  MInv'
<1>1. /\ program \in DOMAIN Code /\ pc \in DOMAIN Code[program] /\ MachineOK
      /\ reg \in [Regs -> Live] /\ vals \in [Slots -> Fitting]
  BY DEF MInv, ControlOK, MachineOK
<1>2. label # "dispatch"
  BY DEF Compiled
<1>3. PICK b \in Slots, d \in 0..stacklen : InCall(b, d)
  BY <1>2 DEF MInv, ControlOK
<1>4. d \in Nat /\ b \in Nat
  BY Constants
<1>5. PICK t \in Int : t = b + 2 * d
  BY <1>4
<1>6. reg.A.n \in Int /\ \A i \in Slots : vals[i].n \in Int
  BY <1>1, LiveFacts DEF Regs
<1>7. CASE NoCall
  BY <1>7, StopEffect DEF NoCall
<1>8. CASE GoesOnCompiled /\ CompiledStep(b, t)
  <2>1. MachineOK' /\ status' = "run" /\ program' = program
    BY <1>8 DEF GoesOnCompiled, GoesOn
  <2>2. CASE CallOfLeaf(t)
    <3>1. InCall(b, d)'
      BY <1>1, <1>3, <1>4, <1>5, <1>8, <2>2, LeafFrames
    <3> QED BY <1>1, <2>1, <2>2, <3>1 DEF MInv, ControlOK, CallOfLeaf
  <2>3. CASE FirstCall(t)
    <3>1. InCall(b, d + 1)'
      BY <1>1, <1>3, <1>4, <1>5, <1>6, <1>8, <2>3, FirstCallFrames
    <3>2. d + 1 \in 0..stacklen
      <4>1. t + 2 \in Slots
        BY <2>3 DEF FirstCall
      <4> QED BY <1>4, <1>5, <4>1, Constants
    <3> QED BY <1>1, <2>1, <2>3, <3>1, <3>2 DEF MInv, ControlOK, FirstCall
  <2>4. CASE SecondCall(t)
    <3>1. InCall(b, d)'
      BY <1>1, <1>3, <1>4, <1>5, <1>8, <2>4, SecondCallFrames
    <3> QED BY <1>1, <2>1, <2>4, <3>1 DEF MInv, ControlOK, SecondCall
  <2>5. CASE SumOfResults(t)
    <3>1. vals[t - 1].n \in Int
      <4>1. label # "fib_with_registers_entry" /\ label = RegisterLabels[2]
        BY <2>5, LabelFacts DEF SumOfResults
      <4>2. d > 0 /\ t \in Slots
        BY <1>3, <1>4, <1>5, <4>1, AtLabel, TopFrame
      <4>3. t - 1 \in Slots
        BY <1>4, <1>5, <4>2, Constants
      <4> QED BY <1>6, <4>3
    <3>2. d - 1 \in Nat /\ InCall(b, d - 1)'
      BY <1>1, <1>3, <1>4, <1>5, <1>6, <1>8, <2>5, <3>1, SumFrames
    <3>3. d - 1 \in 0..stacklen
      BY <1>4, <3>2, Constants
    <3> QED BY <1>1, <2>1, <2>5, <3>2, <3>3 DEF MInv, ControlOK, SumOfResults
  <2>6. CASE ReturnToProgram(b)
    <3>1. pc' \in DOMAIN Code[program] /\ label' = "dispatch"
      BY <1>3, <2>6 DEF ReturnToProgram, InCall
    <3> QED BY <1>1, <2>1, <3>1 DEF MInv, ControlOK
  <2> QED BY <1>8, <2>2, <2>3, <2>4, <2>5, <2>6 DEF CompiledStep
<1> QED BY <1>1, <1>3, <1>4, <1>5, <1>7, <1>8, CompiledSteps

\* The registers of a process that has halted are those it is run with again,
\* and the slots it had used are used or free.
LEMMA RerunInv ==
    ASSUME SafeCode, MInv, Rerun
    PROVE  MInv'
<1>1. PICK p \in DOMAIN Code, sp \in {0, proc.sp} : Run(p, sp)
  BY DEF Rerun
<1>2. MachineOK
  BY DEF MInv
<1>3. sp \in 0..stacklen
  BY <1>2, Constants DEF MachineOK
<1>4. reg' \in [Regs -> Live] /\ SP' \in 0..stacklen
  BY <1>1, <1>2, <1>3 DEF Run, MachineOK
<1>5. proc' \in [reg : [Regs -> Live], sp : 0..stacklen] /\ proc'.sp = sp
  BY <1>1, <1>2, <1>3 DEF Run, MachineOK
<1>6. word' \in [WordRegs -> -(8 * FixRange)..(8 * FixRange - 1)]
  <2>1. PICK m \in Nat : m = 8 * FixRange /\ m > 0
    BY Constants
  <2>2. 0 \in -m..(m - 1)
    BY <2>1
  <2>3. word' = [w \in WordRegs |-> 0]
    BY <1>1 DEF Run
  <2> QED BY <2>1, <2>2, <2>3
<1>7. vals' = vals /\ SP' = sp
  BY <1>1 DEF Run
<1>8. ASSUME NEW i \in Slots, i < SP' \/ i < proc'.sp PROVE vals'[i] \in Live
  <2>1. i < sp
    BY <1>5, <1>7, <1>8
  <2>2. i < proc.sp
    BY <1>2, <2>1, Constants DEF MachineOK
  <2> QED BY <1>2, <1>7, <2>2 DEF MachineOK
<1>9. MachineOK'
  BY <1>2, <1>4, <1>5, <1>6, <1>7, <1>8 DEF MachineOK
<1>10. ControlOK'
  BY <1>1 DEF Run, ControlOK, SafeCode
<1> QED BY <1>9, <1>10 DEF MInv

LEMMA MInvStep ==
    ASSUME SafeCode, MInv, [Next]_vars
    PROVE  MInv'
<1>1. CASE Next
  <2>1. CASE status = "run" /\ Step
    BY <2>1, StepInv
  <2>2. CASE status = "run" /\ Compiled
    BY <2>2, CompiledInv
  <2>3. CASE Rerun
    BY <2>3, RerunInv
  <2> QED BY <1>1, <2>1, <2>2, <2>3 DEF Next, Interpret
<1>2. CASE UNCHANGED vars
  <2>1. \A b, d : InCall(b, d)' <=> InCall(b, d)
    BY <1>2 DEF InCall, vars, machine, control
  <2> QED BY <1>2, <2>1 DEF vars, machine, control, MInv, MachineOK, ControlOK
<1> QED BY <1>1, <1>2

-----------------------------------------------------------------------------
\* The inductive invariant: every value the interpreter can still get at, from
\* its registers, the copies of them in the process, or a slot that either of
\* the two stack pointers says is used, is an object that is there.
THEOREM MachineInvariant == ASSUME SafeCode PROVE Spec => []MInv
<1>1. Init => MInv
  BY InitialInv
<1>2. MInv /\ [Next]_vars => MInv'
  BY MInvStep
<1> QED BY <1>1, <1>2, PTL DEF Spec

LEMMA MInvTypeOK == MInv => TypeOK
<1> SUFFICES ASSUME MInv PROVE TypeOK
  OBVIOUS
<1>1. MachineOK /\ ControlOK
  BY DEF MInv
<1>2. reg \in [Regs -> Value] /\ vals \in [Slots -> Value] /\ proc \in [reg : [Regs -> Value], sp : 0..stacklen]
  BY <1>1, LiveFacts DEF MachineOK
<1>3. \A v \in {reg[r] : r \in Regs} \cup {proc.reg[r] : r \in Regs} \cup {vals[i] : i \in Slots} : v \in Fitting
  BY <1>1, LiveFacts DEF MachineOK
<1>4. \A v \in {reg[r] : r \in Regs} \cup {proc.reg[r] : r \in Regs} \cup {vals[i] : i \in Slots} :
         IsInteger(v) => (is_fixnum(v) <=> InFixRange(v.n))
  BY <1>3 DEF Fitting
<1> QED BY <1>1, <1>2, <1>4 DEF TypeOK, MachineOK, ControlOK

\* The types, and every integer, a fixnum when it fits and a bignum when it does
\* not (the primitives and opcodes that make integers).
THEOREM TypesHold == ASSUME SafeCode PROVE Spec => []TypeOK
BY MachineInvariant, MInvTypeOK, PTL

LEMMA MInvLiveValues == MInv => LiveValues
<1> SUFFICES ASSUME MInv PROVE LiveValues
  OBVIOUS
<1>1. MachineOK
  BY DEF MInv
<1>2. \A r \in Regs : reg[r] \in Live /\ proc.reg[r] \in Live
  BY <1>1 DEF MachineOK
<1> QED BY <1>1, <1>2, LiveFacts DEF MachineOK, LiveValues

\* No collection takes away what a register, its copy in the process or a used
\* slot refers to: all opcodes store their registers and the stack pointer where
\* the collector looks before they call what may collect.
THEOREM ValuesStayLive == ASSUME SafeCode PROVE Spec => []LiveValues
BY MachineInvariant, MInvLiveValues, PTL

\* Verified programs never make the interpreter write behind its stack or follow
\* a reference to an object that is gone.
THEOREM NeverUndefined == ASSUME SafeCode PROVE Spec => []NothingUndefined
<1>1. MInv => NothingUndefined
  BY DEF MInv, ControlOK, NothingUndefined
<1> QED BY <1>1, MachineInvariant, PTL

\* An arithmetic opcode does what it does on a machine that never collects.
LEMMA ExactStep ==
    ASSUME SafeCode, MInv
    PROVE  status = "run" /\ label = "dispatch" /\ status' = "run" =>
             \A x \in {y \in Code[program][pc] : y.op \in ArithmeticOps} :
                Fits(x) /\ Verified(x) /\ Arithmetic(x) /\ ~ Refused(x) => <<reg', Stack'>> = Meaning(x)
<1> SUFFICES ASSUME NEW x \in Code[program][pc], x.op \in ArithmeticOps, Fits(x), Verified(x), Arithmetic(x)
             PROVE  <<reg', Stack'>> = Meaning(x)
  OBVIOUS
<1>1. MachineOK /\ WellFormed(x)
  BY DEF MInv, ControlOK, SafeCode
<1> QED BY <1>1, ArithmeticEffect

\* The ten arithmetic opcodes put the right integer in the right place and leave
\* all else as it was, whether or not the primitive they call collects.
THEOREM ArithmeticHolds == ASSUME SafeCode PROVE Spec => ArithmeticExact
<1>1. MInv /\ [Next]_vars =>
        [status = "run" /\ label = "dispatch" /\ status' = "run" =>
           \A x \in {y \in Code[program][pc] : y.op \in ArithmeticOps} :
              Fits(x) /\ Verified(x) /\ Arithmetic(x) /\ ~ Refused(x) => <<reg', Stack'>> = Meaning(x)]_vars
  BY ExactStep
<1> QED BY <1>1, MachineInvariant, PTL DEF Spec, ArithmeticExact

-----------------------------------------------------------------------------
(***************************************************************************)
(* What a call of fib_with_registers computes.                             *)
(***************************************************************************)
\* A number in range is the number of its fixnum, any number that of its integer.
LEMMA FixnumExact ==
    ASSUME NEW n \in Int, -FixRange <= n, n < FixRange
    PROVE  FIX(n).n = n
<1>1. n \in -FixRange..(FixRange - 1)
  BY Constants
<1> QED BY <1>1, Constants, WrapExact DEF FIX

LEMMA IntegerExact ==
    ASSUME NEW n \in Int
    PROVE  ToScm(n).n = n
BY FixnumExact, Constants DEF ToScm, InFixRange

\* A live integer is what the primitives return for its number.
LEMMA LiveInteger ==
    ASSUME NEW v \in Live, IsInteger(v)
    PROVE  v = ToScm(v.n)
<1>1. v \in Value /\ v.n \in Int /\ (is_fixnum(v) <=> InFixRange(v.n))
  BY DEF Live, Fitting, Value
<1>2. v = [kind |-> v.kind, n |-> v.n]
  BY <1>1 DEF Value
<1>3. CASE InFixRange(v.n)
  <2>1. FIX(v.n).n = v.n
    BY <1>1, <1>3, FixnumExact DEF InFixRange
  <2>2. FIX(v.n) = [kind |-> "fixnum", n |-> v.n]
    BY <2>1 DEF FIX
  <2> QED BY <1>1, <1>2, <1>3, <2>2 DEF ToScm, is_fixnum
<1>4. CASE ~ InFixRange(v.n)
  BY <1>1, <1>2, <1>4 DEF ToScm, IsInteger, is_fixnum
<1> QED BY <1>3, <1>4

LEMMA FibOfLeaf ==
    ASSUME NEW n \in Int, n < 2
    PROVE  IsFib(n, 1)
BY FibDefinition DEF FibDefinition, IsFib

LEMMA FibOfSum ==
    ASSUME NEW n \in Int, n >= 2, NEW u \in Int, NEW v \in Int, IsFib(n - 1, u), IsFib(n - 2, v)
    PROVE  IsFib(n, v + u)
<1> SUFFICES ASSUME n \in DOMAIN Fib PROVE v + u = Fib[n]
  BY DEF IsFib
<1>1. n - 1 \in DOMAIN Fib /\ n - 2 \in DOMAIN Fib /\ Fib[n] = Fib[n - 1] + Fib[n - 2]
  BY FibDefinition DEF FibDefinition
<1>2. u = Fib[n - 1] /\ v = Fib[n - 2]
  BY <1>1 DEF IsFib
<1> QED BY <1>1, <1>2

\* The call for a, whose own return address is in slot b, with d frames.
FrameAt(b, n, k) ==
    /\ 2 <= args[b + 2 * k - 2] /\ args[b + 2 * k - 2] < FixRange
    /\ args[b + 2 * k] <= n - k
    /\ \/ /\ vals[b + 2 * k] = FIX(1) /\ args[b + 2 * k] = args[b + 2 * k - 2] - 1
          /\ vals[b + 2 * k - 1] = FIX(args[b + 2 * k - 2] - 1)
       \/ /\ vals[b + 2 * k] = FIX(2) /\ args[b + 2 * k] = args[b + 2 * k - 2] - 2
          /\ IsFib(args[b + 2 * k - 2] - 1, vals[b + 2 * k - 1].n)

CallAt(b, d, a) ==
    /\ InCall(b, d)
    /\ args \in [Slots -> Int] /\ args[b] = a.n
    /\ d > 0 => IsInteger(a)
    /\ \A k \in 1..d : FrameAt(b, a.n, k)
    /\ label = Entry => reg.A = IF d = 0 THEN a ELSE FIX(args[b + 2 * d])
    /\ label # Entry => IsInteger(a) /\ IsFib(args[b + 2 * d], reg.A.n)

KeptAt(b) ==
    /\ \A r \in Regs \ {"A"} : reg[r] = call.reg[r]
    /\ \A w \in WordRegs \ {"N"} : word[w] = call.word[w]
    /\ \A i \in Slots : i < b - 1 => vals[i] = call.vals[i]
    /\ vals[b - 1] = call.vals[b]

LEMMA CallingAt ==
    ASSUME NEW b, b = Base, b \in Slots, NEW d \in Nat, args \in [Slots -> Int]
    PROVE  Calling(d) <=> call.SP \in 2..stacklen /\ CallAt(b, d, Argument) /\ KeptAt(b)
<1>1. b \in Int
  BY Constants
<1>2. ASSUME NEW k \in 1..d PROVE Frame(k) <=> FrameAt(b, Argument.n, k)
  BY <1>1 DEF Frame, FrameAt
<1>3. CallerKept <=> KeptAt(b)
  BY DEF CallerKept, KeptAt
<1> QED BY <1>2, <1>3 DEF Calling, CallAt, ArgumentOrResult

\* The same in the next state.
LEMMA CallingAfter ==
    ASSUME call' = call, NEW b, b = Base, b \in Slots, NEW d \in Nat, call.SP \in 2..stacklen,
           NEW a, a = Argument, CallAt(b, d, a)', KeptAt(b)'
    PROVE  Calling(d)'
<1>1. b \in Int
  BY Constants
<1>2. Base' = b /\ Argument' = a /\ call'.SP \in 2..stacklen
  BY DEF Base, Argument
<1>3. ASSUME NEW k \in 1..d PROVE Frame(k)'
  <2>1. FrameAt(b, a.n, k)'
    BY DEF CallAt
  <2> QED BY <1>1, <1>2, <2>1 DEF Frame, FrameAt
<1>4. CallerKept'
  BY <1>2 DEF CallerKept, KeptAt
<1>5. ArgumentOrResult(d)'
  BY <1>2 DEF ArgumentOrResult, CallAt
<1>6. InCall(Base, d)'
  BY <1>2 DEF CallAt, InCall
<1> QED BY <1>2, <1>3, <1>4, <1>5, <1>6 DEF Calling, CallAt

\* The argument of the innermost call.
LEMMA TopArgument ==
    ASSUME NEW b \in Slots, NEW d \in Nat, NEW t \in Int, t = b + 2 * d, NEW a, a.n \in Int, CallAt(b, d, a)
    PROVE  /\ t \in Slots /\ args[t] \in Int /\ args[t] <= a.n - d
           /\ d > 0 => 0 <= args[t] /\ args[t] < FixRange /\ FIX(args[t]).n = args[t]
           /\ label = Entry => reg.A.n = args[t] /\ (d = 0 => reg.A = a) /\ (d > 0 => reg.A = FIX(args[t]))
<1>0. InCall(b, d) /\ args \in [Slots -> Int] /\ args[b] = a.n /\ b \in Nat
  BY Constants DEF CallAt
<1>1. t \in Slots /\ args[t] \in Int
  BY <1>0, TopFrame
<1>2. CASE d = 0
  <2>1. t = b
    BY <1>0, <1>2
  <2> QED BY <1>0, <1>1, <1>2, <2>1 DEF CallAt
<1>3. CASE d > 0
  <2>1. FrameAt(b, a.n, d)
    BY <1>3 DEF CallAt
  <2>2. PICK m : m = args[b + 2 * d - 2]
    OBVIOUS
  <2>3. m \in Int
    <3>1. b + 2 * d - 2 \in Slots
      BY <1>0, <1>3, FrameSlots
    <3> QED BY <1>0, <2>2, <3>1
  <2>4. 2 <= m /\ m < FixRange /\ args[t] <= a.n - d /\ (args[t] = m - 1 \/ args[t] = m - 2)
    BY <2>1, <2>2 DEF FrameAt
  <2>5. 0 <= args[t] /\ args[t] < FixRange /\ -FixRange <= args[t]
    BY <2>3, <2>4, Constants
  <2>6. FIX(args[t]).n = args[t]
    BY <1>1, <2>5, FixnumExact
  <2>7. label = Entry => reg.A = FIX(args[t])
    BY <1>3 DEF CallAt
  <2> QED BY <1>1, <1>3, <2>4, <2>5, <2>6, <2>7
<1> QED BY <1>2, <1>3

\* Frames whose slots and arguments stay are frames in the next state.
LEMMA FramesStay ==
    ASSUME NEW b \in Slots, NEW d \in Nat, NEW e \in Nat, e <= d, NEW t \in Int, t = b + 2 * e, NEW a,
           CallAt(b, d, a),
           \A i \in Slots : i <= t => vals'[i] = vals[i] /\ args'[i] = args[i]
    PROVE  \A k \in 1..e : FrameAt(b, a.n, k)'
<1> SUFFICES ASSUME NEW k \in 1..e PROVE FrameAt(b, a.n, k)'
  OBVIOUS
<1>1. k \in 1..d /\ b \in Nat
  BY Constants
<1>2. InCall(b, d) /\ FrameAt(b, a.n, k)
  BY <1>1 DEF CallAt
<1>3. b + 2 * k - 1 \in Slots /\ b + 2 * k \in Slots /\ b + 2 * k - 2 \in Slots
  BY <1>1, <1>2, FrameSlots
<1>4. b + 2 * k <= t /\ b + 2 * k - 1 <= t /\ b + 2 * k - 2 <= t
  BY <1>1
<1>5. /\ vals'[b + 2 * k] = vals[b + 2 * k] /\ vals'[b + 2 * k - 1] = vals[b + 2 * k - 1]
      /\ args'[b + 2 * k] = args[b + 2 * k] /\ args'[b + 2 * k - 2] = args[b + 2 * k - 2]
  BY <1>3, <1>4
<1> QED BY <1>2, <1>5 DEF FrameAt

\* A call for less than 2 returns 1.
LEMMA LeafCall ==
    ASSUME NEW b \in Slots, NEW d \in Nat, NEW t \in Int, t = b + 2 * d, NEW a, a.n \in Int, CallAt(b, d, a),
           GoesOnCompiled, CallOfLeaf(t), reg \in [Regs -> Live], args' = args
    PROVE  CallAt(b, d, a)'
<1>1. InCall(b, d) /\ label = Entry
  BY DEF CallAt, CallOfLeaf, Entry
<1>2. InCall(b, d)'
  BY <1>1, LeafFrames
<1>3. /\ args[t] \in Int /\ args[t] < 2 /\ reg'.A = FIX(1)
      /\ (d = 0 => reg.A = a) /\ IsInteger(reg.A)
  BY <1>1, TopArgument DEF CallOfLeaf, Regs
<1>4. label' # Entry
  <2>1. vals[t].n \in {1, 2, 3}
    BY <1>1, TopFrame
  <2> QED BY <2>1, LabelsDiffer DEF CallOfLeaf, Entry
<1>5. IsInteger(a)
  BY <1>3 DEF CallAt
<1>6. FIX(1).n = 1
  BY <1>1 DEF InCall, LabelsFit
<1>7. IsFib(args[t], reg'.A.n)
  BY <1>3, <1>6, FibOfLeaf
<1>8. \A k \in 1..d : FrameAt(b, a.n, k)'
  <2>1. \A i \in Slots : i <= t => vals'[i] = vals[i] /\ args'[i] = args[i]
    BY DEF CallOfLeaf
  <2> QED BY <2>1, FramesStay
<1> QED BY <1>2, <1>4, <1>5, <1>7, <1>8 DEF CallAt, IsFib

\* The call for one less, whose argument is below its return address as well.
LEMMA CallForOneLess ==
    ASSUME NEW b \in Slots, NEW d \in Nat, NEW t \in Int, t = b + 2 * d, NEW a, a.n \in Int, CallAt(b, d, a),
           GoesOnCompiled, FirstCall(t), reg \in [Regs -> Live], vals \in [Slots -> Fitting],
           args' = [args EXCEPT ![SP' - 1] = reg'.A.n]
    PROVE  CallAt(b, d + 1, a)'
<1>1. InCall(b, d) /\ label = Entry /\ label' = Entry /\ args \in [Slots -> Int] /\ args[b] = a.n
  BY DEF CallAt, FirstCall, Entry
<1>0. args[t] \in Int /\ args[t] <= a.n - d /\ reg.A.n = args[t] /\ (d = 0 => reg.A = a)
  BY <1>1, TopArgument
<1>2. PICK m \in Int : m = reg.A.n /\ m = args[t] /\ m <= a.n - d
  BY <1>0
<1>3. /\ t \in Slots /\ t \in Nat /\ b \in Nat /\ d + 1 \in Nat /\ t + 2 = b + 2 * (d + 1) /\ t + 2 \in Slots
      /\ t + 1 \in Slots /\ b <= t
  <2>1. t \in Slots /\ b \in Nat /\ t + 2 \in Slots
    BY <1>1, TopFrame DEF FirstCall
  <2> QED BY <2>1, Constants
<1>4. InCall(b, d + 1)'
  BY <1>1, <1>2, FirstCallFrames
<1>5. is_fixnum(reg.A) /\ reg.A \in Live /\ 2 <= m
  BY <1>2 DEF FirstCall, Regs
<1>6. m < FixRange
  <2>1. InFixRange(m)
    BY <1>2, <1>5 DEF Live, Fitting, IsInteger, is_fixnum
  <2> QED BY <2>1 DEF InFixRange
<1>7. IsInteger(a)
  <2>1. IsInteger(reg.A)
    BY <1>5 DEF IsInteger, is_fixnum
  <2>2. d > 0 => IsInteger(a)
    BY DEF CallAt
  <2>3. d = 0 \/ d > 0
    OBVIOUS
  <2> QED BY <1>0, <2>1, <2>2, <2>3
<1>8. /\ SP' = t + 3 /\ reg'.A = FIX(m - 1) /\ reg'.A.n = m - 1
      /\ vals' = [vals EXCEPT ![t + 1] = FIX(m - 1), ![t + 2] = FIX(1)]
  <2>1. m - 1 \in Int /\ -FixRange <= m - 1 /\ m - 1 < FixRange
    <3>1. PICK f \in Nat : f = FixRange /\ m < f
      BY <1>6, Constants
    <3> QED BY <1>5, <3>1
  <2>3. FIX(m - 1).n = m - 1
    BY <2>1, FixnumExact
  <2>2. reg'.A = FIX(m - 1)
    BY <1>2 DEF FirstCall, Regs
  <2> QED BY <1>2, <2>2, <2>3 DEF FirstCall
<1>9. args' = [args EXCEPT ![t + 2] = m - 1]
  <2>1. SP' - 1 = t + 2
    BY <1>3, <1>8
  <2> QED BY <1>8, <2>1
<1>10. \A i \in Slots : i <= t => vals'[i] = vals[i] /\ args'[i] = args[i]
  <2> SUFFICES ASSUME NEW i \in Slots, i <= t PROVE vals'[i] = vals[i] /\ args'[i] = args[i]
    OBVIOUS
  <2>1. i # t + 1 /\ i # t + 2
    BY <1>3, Constants
  <2> QED BY <1>1, <1>8, <1>9, <2>1
<1>11. FrameAt(b, a.n, d + 1)'
  <2>1. b + 2 * (d + 1) - 2 = t /\ b + 2 * (d + 1) - 1 = t + 1 /\ b + 2 * (d + 1) = t + 2
    BY <1>3
  <2>2. args'[t] = m /\ args'[t + 2] = m - 1
    BY <1>1, <1>2, <1>3, <1>9
  <2>3. vals'[t + 1] = FIX(m - 1) /\ vals'[t + 2] = FIX(1)
    BY <1>3, <1>8
  <2>4. m - 1 <= a.n - (d + 1)
    BY <1>2
  <2> QED BY <1>5, <1>6, <2>1, <2>2, <2>3, <2>4 DEF FrameAt
<1>12. \A k \in 1..(d + 1) : FrameAt(b, a.n, k)'
  <2>1. \A k \in 1..d : FrameAt(b, a.n, k)'
    BY <1>10, FramesStay
  <2> QED BY <1>11, <2>1
<1>13. args' \in [Slots -> Int] /\ args'[b] = a.n
  <2>1. m - 1 \in Int
    BY <1>2
  <2> QED BY <1>1, <1>3, <1>9, <1>10, <2>1
<1>14. d + 1 # 0 /\ reg'.A = FIX(args'[b + 2 * (d + 1)])
  BY <1>1, <1>3, <1>8, <1>9
<1> QED BY <1>1, <1>4, <1>7, <1>12, <1>13, <1>14 DEF CallAt

\* Its result takes the place of its argument, and the call for two less begins.
LEMMA CallForTwoLess ==
    ASSUME NEW b \in Slots, NEW d \in Nat, NEW t \in Int, t = b + 2 * d, NEW a, a.n \in Int, CallAt(b, d, a),
           GoesOnCompiled, SecondCall(t), reg \in [Regs -> Live], vals \in [Slots -> Fitting],
           args' = [args EXCEPT ![SP' - 1] = reg'.A.n]
    PROVE  CallAt(b, d, a)'
<1>1. /\ InCall(b, d) /\ label # Entry /\ label' = Entry /\ args \in [Slots -> Int] /\ args[b] = a.n
      /\ label = RegisterLabels[1]
  BY LabelFacts DEF CallAt, SecondCall, Entry
<1>2. d > 0 /\ vals[t] = FIX(1) /\ t \in Slots /\ b \in Nat
  <2>1. d > 0 /\ vals[t] = FIX(1)
    BY <1>1, AtLabel DEF Entry
  <2>2. t \in Slots /\ b \in Nat
    BY <1>1, TopFrame
  <2> QED BY <2>1, <2>2
<1>3. t \in Nat /\ t - 1 \in Slots /\ t - 2 \in Slots /\ b <= t - 2 /\ d \in 1..d /\ d - 1 \in Nat
      /\ b + 2 * (d - 1) = t - 2
  <2>1. d \in 1..d /\ d - 1 \in Nat /\ b <= t - 2 /\ b + 2 * (d - 1) = t - 2
    BY <1>2
  <2>2. t \in Nat /\ t >= 2
    BY <1>2
  <2> QED BY <1>2, <2>1, <2>2, Constants
<1>4. FIX(1).n = 1 /\ FIX(2).n = 2 /\ FIX(1) # FIX(2)
  BY <1>1 DEF InCall, LabelsFit
<1>5. PICK m \in Int : m = args[t - 2]
  BY <1>1, <1>3
<1>6. /\ 2 <= m /\ m < FixRange /\ args[t] = m - 1 /\ args[t] <= a.n - d /\ vals[t - 1] = FIX(m - 1)
  <2>1. FrameAt(b, a.n, d)
    BY <1>3 DEF CallAt
  <2>2. b + 2 * d - 2 = t - 2 /\ b + 2 * d - 1 = t - 1
    BY <1>2
  <2> QED BY <1>2, <1>4, <1>5, <2>1, <2>2 DEF FrameAt
<1>7. FIX(m - 1).n = m - 1 /\ FIX(m - 2).n = m - 2
  <2>1. /\ m - 1 \in Int /\ -FixRange <= m - 1 /\ m - 1 < FixRange
        /\ m - 2 \in Int /\ -FixRange <= m - 2 /\ m - 2 < FixRange
    BY <1>6, Constants
  <2> QED BY <2>1, FixnumExact
<1>8. /\ SP' = t + 1 /\ reg'.A = FIX(m - 2) /\ reg'.A.n = m - 2
      /\ vals' = [vals EXCEPT ![t - 1] = reg.A, ![t] = FIX(2)]
  <2>1. vals[t - 1].n - 1 = m - 2
    BY <1>6, <1>7
  <2> QED BY <1>7, <2>1 DEF SecondCall, Regs
<1>9. args' = [args EXCEPT ![t] = m - 2]
  <2>1. SP' - 1 = t
    BY <1>3, <1>8
  <2> QED BY <1>8, <2>1
<1>10. \A i \in Slots : i <= t - 2 => vals'[i] = vals[i] /\ args'[i] = args[i]
  <2> SUFFICES ASSUME NEW i \in Slots, i <= t - 2 PROVE vals'[i] = vals[i] /\ args'[i] = args[i]
    OBVIOUS
  <2>1. i # t - 1 /\ i # t
    BY <1>3, Constants
  <2> QED BY <1>1, <1>8, <1>9, <2>1
<1>11. FrameAt(b, a.n, d)'
  <2>1. b + 2 * d - 2 = t - 2 /\ b + 2 * d - 1 = t - 1
    BY <1>2
  <2>2. args'[t - 2] = m /\ args'[t] = m - 2
    BY <1>1, <1>2, <1>3, <1>5, <1>9, <1>10
  <2>3. vals'[t - 1] = reg.A /\ vals'[t] = FIX(2)
    BY <1>2, <1>3, <1>8
  <2>4. m - 2 <= a.n - d
    BY <1>5, <1>6
  <2>5. IsFib(m - 1, reg.A.n)
    BY <1>1, <1>6 DEF CallAt
  <2> QED BY <1>6, <2>1, <2>2, <2>3, <2>4, <2>5 DEF FrameAt, IsFib
<1>12. \A k \in 1..d : FrameAt(b, a.n, k)'
  <2>1. \A k \in 1..(d - 1) : FrameAt(b, a.n, k)'
    <3>1. PICK u \in Int : u = t - 2
      BY <1>3
    <3>2. d - 1 <= d /\ u = b + 2 * (d - 1) /\ \A i \in Slots : i <= u => vals'[i] = vals[i] /\ args'[i] = args[i]
      BY <1>3, <1>10, <3>1
    <3> QED BY <1>3, <3>2, FramesStay
  <2> QED BY <1>3, <1>11, <2>1
<1>13. args' \in [Slots -> Int] /\ args'[b] = a.n
  <2>1. m - 2 \in Int
    BY <1>5
  <2> QED BY <1>1, <1>3, <1>9, <1>10, <2>1
<1>14. InCall(b, d)'
  BY <1>1, SecondCallFrames
<1>15. reg'.A = FIX(args'[b + 2 * d]) /\ d # 0 /\ IsInteger(a)
  BY <1>1, <1>2, <1>8, <1>9 DEF CallAt
<1> QED BY <1>1, <1>12, <1>13, <1>14, <1>15 DEF CallAt

\* The sum of both results is that of the call they were made for.
LEMMA CallReturnsSum ==
    ASSUME NEW b \in Slots, NEW d \in Nat, NEW t \in Int, t = b + 2 * d, NEW a, a.n \in Int, CallAt(b, d, a),
           GoesOnCompiled, SumOfResults(t), reg \in [Regs -> Live], vals \in [Slots -> Fitting], args' = args
    PROVE  d - 1 \in Nat /\ CallAt(b, d - 1, a)'
<1>1. /\ InCall(b, d) /\ label # Entry /\ args \in [Slots -> Int] /\ args[b] = a.n
      /\ label = RegisterLabels[2]
  BY LabelFacts DEF CallAt, SumOfResults, Entry
<1>2. d > 0 /\ vals[t] = FIX(2) /\ t \in Slots /\ b \in Nat
  <2>1. d > 0 /\ vals[t] = FIX(2)
    BY <1>1, AtLabel DEF Entry
  <2>2. t \in Slots /\ b \in Nat
    BY <1>1, TopFrame
  <2> QED BY <2>1, <2>2
<1>3. t \in Nat /\ t - 1 \in Slots /\ t - 2 \in Slots /\ d \in 1..d /\ d - 1 \in Nat /\ d - 1 <= d
      /\ b + 2 * (d - 1) = t - 2
  <2>1. d \in 1..d /\ d - 1 \in Nat /\ d - 1 <= d /\ b + 2 * (d - 1) = t - 2
    BY <1>2
  <2>2. t \in Nat /\ t >= 2
    BY <1>2
  <2> QED BY <1>2, <2>1, <2>2, Constants
<1>4. FIX(1).n = 1 /\ FIX(2).n = 2 /\ FIX(1) # FIX(2)
  BY <1>1 DEF InCall, LabelsFit
<1>5. PICK m \in Int : m = args[t - 2]
  BY <1>1, <1>3
<1>6. reg.A.n \in Int /\ vals[t - 1].n \in Int
  BY <1>3, LiveFacts DEF Regs
<1>7. 2 <= m /\ args[t] = m - 2 /\ IsFib(m - 1, vals[t - 1].n)
  <2>1. FrameAt(b, a.n, d)
    BY <1>3 DEF CallAt
  <2>2. b + 2 * d - 2 = t - 2 /\ b + 2 * d - 1 = t - 1
    BY <1>2
  <2> QED BY <1>2, <1>4, <1>5, <2>1, <2>2 DEF FrameAt
<1>8. IsFib(m - 2, reg.A.n) /\ IsInteger(a)
  BY <1>1, <1>7 DEF CallAt
<1>9. IsFib(m, reg'.A.n)
  <2>1. reg'.A = ToScm(reg.A.n + vals[t - 1].n)
    BY DEF SumOfResults, Regs
  <2>2. reg'.A.n = reg.A.n + vals[t - 1].n
    BY <1>6, <2>1, IntegerExact
  <2> QED BY <1>6, <1>7, <1>8, <2>2, FibOfSum
<1>10. InCall(b, d - 1)' /\ label' # Entry
  BY <1>1, <1>6, SumFrames DEF Entry
<1>11. \A k \in 1..(d - 1) : FrameAt(b, a.n, k)'
  <2>1. \A i \in Slots : i <= t - 2 => vals'[i] = vals[i] /\ args'[i] = args[i]
    <3> SUFFICES ASSUME NEW i \in Slots, i <= t - 2 PROVE vals'[i] = vals[i]
      OBVIOUS
    <3>1. i < t
      BY <1>3, Constants
    <3> QED BY <3>1 DEF SumOfResults
  <2>2. PICK u \in Int : u = t - 2
    BY <1>3
  <2> QED BY <1>3, <2>1, <2>2, FramesStay
<1> QED BY <1>1, <1>3, <1>5, <1>8, <1>9, <1>10, <1>11 DEF CallAt, IsFib

\* None of these steps touches what belongs to the caller.
LEMMA KeptByStep ==
    ASSUME NEW b \in Slots, NEW d \in Nat, NEW t \in Int, t = b + 2 * d, InCall(b, d), KeptAt(b), call' = call,
           GoesOnCompiled, CallOfLeaf(t) \/ FirstCall(t) \/ SecondCall(t) \/ SumOfResults(t),
           reg \in [Regs -> Live], vals \in [Slots -> Fitting]
    PROVE  KeptAt(b)'
<1>1. b \in Nat /\ b - 1 \in Slots /\ b - 1 \in Nat /\ t \in Nat /\ b <= t
  BY TopFrame DEF InCall
<1>2. ASSUME NEW r \in Regs \ {"A"} PROVE reg'[r] = reg[r]
  BY DEF CallOfLeaf, FirstCall, SecondCall, SumOfResults
<1>3. ASSUME NEW i \in Slots, i < b PROVE vals'[i] = vals[i]
  <2>1. i < t /\ i # t + 1 /\ i # t + 2 /\ i # t
    BY <1>1, <1>3, Constants
  <2>2. CASE SecondCall(t)
    <3>1. d > 0
      <4>1. label = RegisterLabels[1] /\ label # "fib_with_registers_entry"
        BY <2>2, LabelFacts DEF SecondCall
      <4> QED BY <4>1, AtLabel
    <3>2. i # t - 1
      BY <1>1, <1>3, <3>1, Constants
    <3> QED BY <2>1, <2>2, <3>2 DEF SecondCall
  <2>3. CASE ~ SecondCall(t)
    BY <2>1, <2>3 DEF CallOfLeaf, FirstCall, SumOfResults
  <2> QED BY <2>2, <2>3
<1>4. ASSUME NEW i \in Slots, i < b - 1 PROVE vals'[i] = call'.vals[i]
  <2>1. i < b
    BY <1>1, <1>4, Constants
  <2> QED BY <1>3, <1>4, <2>1 DEF KeptAt
<1>5. vals'[b - 1] = call'.vals[b]
  <2>1. b - 1 < b
    BY <1>1
  <2> QED BY <1>1, <1>3, <2>1 DEF KeptAt
<1>6. ASSUME NEW w \in WordRegs \ {"N"} PROVE word'[w] = call'.word[w]
  BY DEF GoesOnCompiled, KeptAt
<1>7. ASSUME NEW r \in Regs \ {"A"} PROVE reg'[r] = call'.reg[r]
  BY <1>2 DEF KeptAt
<1> QED BY <1>4, <1>5, <1>6, <1>7 DEF KeptAt

\* The instruction begins a call.
LEMMA CallEntered ==
    ASSUME MInv, NEW x, fib_with_registers(x), 2 <= SP, status = "run", label = "dispatch", LabelsFit, CallNext,
           Ref(0).kind = "pcnum", Ref(0).n \in DOMAIN Code[program], CallInv
    PROVE  CallInv'
<1>1. MachineOK /\ SP \in 0..stacklen /\ SP \in Nat /\ reg \in [Regs -> Live] /\ vals \in [Slots -> Fitting]
  BY Constants DEF MInv, MachineOK
<1>2. PICK b \in Slots : b = SP - 1
  BY <1>1, Constants
<1>3. GoesOnCompiled /\ CallBegins(b)
  BY <1>1, <1>2, EnterEffect
<1>4. InCall(b, 0)'
  <2>1. Ref(0) = vals[b]
    BY <1>1, <1>2, Constants, RefAt
  <2> QED BY <1>1, <1>3, <2>1, EnterFrames
<1>5. b \in Nat /\ b - 1 \in Slots /\ label' = Entry /\ SP' = SP /\ reg' = [reg EXCEPT !.A = vals[b - 1]]
  BY <1>3, Constants DEF CallBegins, Entry
<1>6. /\ call' = [reg |-> reg, word |-> word, SP |-> SP, vals |-> vals]
      /\ args' = [args EXCEPT ![b] = reg'.A.n]
  BY <1>2, <1>5 DEF CallNext, Entered
<1>7. call'.SP = SP /\ call'.vals = vals /\ call'.reg = reg /\ call'.word = word
  BY <1>6
<1>8. Base' = b /\ Argument' = vals[b - 1]
  <2>1. SP - 2 = b - 1
    BY <1>1, <1>2
  <2> QED BY <1>2, <1>7, <2>1 DEF Base, Argument
<1>9. reg'.A = vals[b - 1] /\ reg'.A.n \in Int
  BY <1>1, <1>5, LiveFacts DEF Regs
<1>10. args' \in [Slots -> Int] /\ args'[b] = reg'.A.n
  BY <1>6, <1>9 DEF CallInv
<1>11. call'.reg \in [Regs -> Value]
  BY <1>1, <1>7, LiveFacts
<1>12. SP \in 2..stacklen
  BY <1>1
<1>13. CallerKept'
  <2>1. ASSUME NEW r \in Regs \ {"A"} PROVE reg'[r] = call'.reg[r]
    BY <1>1, <1>5, <1>7
  <2>2. ASSUME NEW w \in WordRegs \ {"N"} PROVE word'[w] = call'.word[w]
    BY <1>3, <1>7 DEF GoesOnCompiled
  <2> QED BY <1>3, <1>7, <1>8, <2>1, <2>2 DEF CallerKept, CallBegins
<1>14. InCall(Base, 0)'
  BY <1>4, <1>8 DEF InCall
<1>15. ArgumentOrResult(0)'
  BY <1>5, <1>8, <1>9 DEF ArgumentOrResult
<1>16. Calling(0)'
  <2>1. \A k \in 1..0 : FALSE
    OBVIOUS
  <2> QED BY <1>7, <1>8, <1>9, <1>10, <1>12, <1>13, <1>14, <1>15, <2>1 DEF Calling
<1>17. 0 \in 0..stacklen
  BY Constants
<1> QED BY <1>10, <1>11, <1>16, <1>17 DEF CallInv

\* The return to the program.
LEMMA CallEnds ==
    ASSUME MachineOK, CallInv, NEW b, b = Base, b \in Slots, NEW d \in Nat, NEW t \in Int, t = b + 2 * d,
           call.SP \in 2..stacklen, call' = call, CallAt(b, d, Argument), KeptAt(b),
           GoesOnCompiled, ReturnToProgram(b)
    PROVE  Returned(reg.A)'
<1>1. /\ InCall(b, d) /\ label # Entry /\ reg \in [Regs -> Live] /\ vals \in [Slots -> Fitting]
      /\ label = RegisterLabels[3] /\ args \in [Slots -> Int]
  BY LabelFacts DEF CallAt, ReturnToProgram, Entry, MachineOK
<1>2. d = 0 /\ SP = t /\ IsInteger(reg.A)
  BY <1>1, AtLabel DEF Entry
<1>3. /\ b \in Nat /\ b - 1 \in Nat /\ b - 1 \in Slots /\ t = b /\ SP = b
      /\ b = call.SP - 1 /\ call.SP \in Nat
  <2>1. b \in Nat /\ b - 1 \in Nat /\ b - 1 \in Slots
    BY <1>1, TopFrame DEF InCall
  <2>2. t = b /\ SP = b
    BY <1>2, <2>1
  <2>3. b = call.SP - 1 /\ call.SP \in Nat
    BY Constants DEF Base
  <2> QED BY <2>1, <2>2, <2>3
<1>4. /\ reg' = reg /\ vals' = [vals EXCEPT ![b - 1] = reg.A, ![b] = vals[b - 1]] /\ SP' = b
      /\ pc' = vals[b - 1].n
  BY <1>3 DEF ReturnToProgram
<1>5. Argument' = Argument /\ call'.SP = call.SP /\ call'.vals = call.vals
  BY DEF Argument
<1>6. IsInteger(Argument) /\ IsFib(Argument.n, reg.A.n)
  BY <1>1, <1>2, <1>3 DEF CallAt
<1>7. reg.A \in Live /\ reg.A = ToScm(reg.A.n)
  BY <1>1, <1>2, LiveInteger DEF Regs
<1>8. Argument.n \in DOMAIN Fib => reg.A = ToScm(Fib[Argument.n])
  BY <1>6, <1>7 DEF IsFib
<1>9. reg' = [call'.reg EXCEPT !.A = reg'.A]
  <2>1. call.reg \in [Regs -> Value]
    BY DEF CallInv
  <2>2. \A r \in Regs \ {"A"} : reg[r] = call.reg[r]
    BY DEF KeptAt
  <2> QED BY <1>1, <1>4, <2>1, <2>2 DEF Regs
<1>10. \A w \in WordRegs \ {"N"} : word'[w] = call'.word[w]
  BY DEF GoesOnCompiled, KeptAt
<1>11. Stack' = [i \in 1..b |-> IF i = b THEN reg.A ELSE call.vals[i - 1]]
  <2>1. Stack' = [i \in 1..b |-> vals'[i - 1]]
    BY <1>4 DEF Stack
  <2>2. ASSUME NEW i \in 1..b PROVE vals'[i - 1] = IF i = b THEN reg.A ELSE call.vals[i - 1]
    <3>1. CASE i = b
      <4>1. b - 1 # b
        BY <1>3
      <4> QED BY <1>1, <1>3, <1>4, <3>1, <4>1
    <3>2. CASE i # b
      <4>1. PICK j \in Nat : j = i - 1
        BY <2>2
      <4>2. j < b - 1 /\ j # b - 1 /\ j # b /\ j <= b
        BY <1>3, <3>2, <4>1
      <4>3. j \in Slots
        BY <1>3, <4>1, <4>2, Constants
      <4>4. vals'[j] = vals[j]
        BY <1>1, <1>4, <4>2, <4>3
      <4>5. vals[j] = call.vals[j]
        BY <4>2, <4>3 DEF KeptAt
      <4> QED BY <3>2, <4>1, <4>4, <4>5
    <3> QED BY <3>1, <3>2
  <2> QED BY <2>1, <2>2
<1>12. pc' = call.vals[b].n
  BY <1>4 DEF KeptAt
<1> QED BY <1>3, <1>4, <1>5, <1>6, <1>8, <1>9, <1>10, <1>11, <1>12 DEF Returned

\* A call that does not return: what it was given, or how much of the stack its
\* frames take.
LEMMA CallFails ==
    ASSUME MachineOK, NEW b, b = Base, b \in Slots, NEW d \in Nat, NEW t \in Int, t = b + 2 * d,
           call.SP \in 2..stacklen, CallAt(b, d, Argument), NoCall, call' = call
    PROVE  EnoughStack'
<1>1. Argument' = Argument /\ call'.SP = call.SP /\ call'.vals = call.vals /\ label = Entry
  BY DEF Argument, NoCall, Entry
<1>2. InCall(b, d) /\ SP = t + 1 /\ b \in Nat /\ b = call.SP - 1 /\ call.SP \in Nat /\ stacklen \in Nat
  <2>1. InCall(b, d) /\ b \in Nat /\ b = call.SP - 1 /\ call.SP \in Nat /\ stacklen \in Nat
    BY Constants DEF CallAt, Base
  <2>2. SP = b + 2 * d + 1
    BY <1>1, <2>1 DEF InCall, Entry
  <2> QED BY <2>1, <2>2
<1>3. \/ ~ IsInteger(reg.A)
      \/ IsInteger(reg.A) /\ reg.A.n >= 2 /\ (is_fixnum(reg.A) => SP + 2 > stacklen)
  BY DEF NoCall
<1>4. CASE ~ IsInteger(Argument)
  BY <1>1, <1>4 DEF EnoughStack
<1>5. CASE IsInteger(Argument)
  <2>1. args \in [Slots -> Int] /\ args[b] = Argument.n /\ Argument.n \in Int
    BY DEF CallAt
  <2>2. PICK n \in Int : n = Argument.n
    BY <2>1
  <2>3. CASE d = 0
    <3>1. reg.A = Argument
      BY <1>1, <2>3 DEF CallAt
    <3>2. n >= 2 /\ (is_fixnum(Argument) => t + 3 > stacklen) /\ t = b
      BY <1>2, <1>3, <1>5, <2>2, <2>3, <3>1
    <3>3. is_fixnum(Argument) => call.SP + 2 * (n - 1) > stacklen
      BY <1>2, <3>2
    <3> QED BY <1>1, <2>2, <3>2, <3>3 DEF EnoughStack
  <2>4. CASE d > 0
    <3>1. PICK m \in Int : m = args[t] /\ m <= n - d /\ reg.A = FIX(m) /\ reg.A.n = m
      BY <1>1, <2>2, <2>4, TopArgument
    <3>2. is_fixnum(reg.A) /\ IsInteger(reg.A)
      BY <3>1, IntegersLive
    <3>3. m >= 2 /\ t + 3 > stacklen
      BY <1>2, <1>3, <3>1, <3>2
    <3>4. n >= 2 /\ call.SP + 2 * (n - 1) > stacklen
      BY <1>2, <2>2, <2>4, <3>1, <3>3
    <3> QED BY <1>1, <2>2, <3>4 DEF EnoughStack
  <2> QED BY <2>3, <2>4
<1> QED BY <1>4, <1>5

\* After a step of the opcode, the call goes on, has returned or has failed.
Progress ==
    \/ status' = "run" /\ label' # "dispatch"
    \/ status' = "run" /\ label' = "dispatch" /\ Returned(reg.A)'
    \/ status' = "error" /\ label' # "dispatch" /\ EnoughStack'

LEMMA CompiledCall ==
    ASSUME MInv, CallInv, status = "run", Compiled, CallNext
    PROVE  CallInv' /\ Progress
<1>1. /\ MachineOK /\ reg \in [Regs -> Live] /\ vals \in [Slots -> Fitting]
      /\ args \in [Slots -> Int] /\ call.reg \in [Regs -> Value] /\ label # "dispatch"
  BY DEF MInv, MachineOK, CallInv, Compiled
<1>2. PICK d \in 0..stacklen : Calling(d)
  BY <1>1 DEF CallInv
<1>3. call.SP \in 2..stacklen /\ d \in Nat /\ stacklen \in Nat
  BY <1>2, Constants DEF Calling
<1>4. PICK b \in Slots : b = Base
  BY <1>3, Constants DEF Base
<1>5. CallAt(b, d, Argument) /\ KeptAt(b) /\ InCall(b, d)
  BY <1>1, <1>2, <1>3, <1>4, CallingAt DEF CallAt
<1>6. PICK a : a = Argument
  OBVIOUS
<1>7. CallAt(b, d, a) /\ a.n \in Int
  <2>1. args[b] = a.n
    BY <1>5, <1>6 DEF CallAt
  <2> QED BY <1>1, <1>5, <1>6, <2>1
<1>8. PICK t \in Int : t = b + 2 * d
  BY <1>3, Constants
<1>9. call' = call /\ args' = IF label' = Entry THEN [args EXCEPT ![SP' - 1] = reg'.A.n] ELSE args
  BY <1>1 DEF CallNext, Entered
<1>10. call'.reg \in [Regs -> Value]
  BY <1>1, <1>9
\* The call goes on with e frames.
<1>11. ASSUME NEW e \in 0..stacklen, CallAt(b, e, a)', GoesOnCompiled, label' # "dispatch",
              CallOfLeaf(t) \/ FirstCall(t) \/ SecondCall(t) \/ SumOfResults(t)
       PROVE  CallInv' /\ Progress
  <2>1. KeptAt(b)'
    BY <1>1, <1>3, <1>5, <1>8, <1>9, <1>11, KeptByStep
  <2>2. Calling(e)'
    <3>1. e \in Nat
      BY <1>3
    <3> QED BY <1>3, <1>4, <1>6, <1>9, <1>11, <2>1, <3>1, CallingAfter
  <2>3. args' \in [Slots -> Int]
    BY <1>11 DEF CallAt
  <2> QED BY <1>10, <1>11, <2>2, <2>3 DEF CallInv, Progress, GoesOnCompiled, GoesOn
<1>12. CASE CallOfLeaf(t) /\ GoesOnCompiled
  <2>1. label' \notin {"dispatch", Entry}
    <3>1. vals[t].n \in {1, 2, 3}
      BY <1>3, <1>5, <1>8, TopFrame
    <3> QED BY <1>12, <3>1, LabelsDiffer DEF CallOfLeaf, Entry
  <2>2. CallAt(b, d, a)'
    BY <1>1, <1>3, <1>7, <1>8, <1>9, <1>12, <2>1, LeafCall
  <2> QED BY <1>11, <1>12, <2>1, <2>2
<1>13. CASE FirstCall(t) /\ GoesOnCompiled
  <2>1. label' = Entry /\ label' # "dispatch"
    BY <1>13 DEF FirstCall, Entry
  <2>2. CallAt(b, d + 1, a)'
    BY <1>1, <1>3, <1>7, <1>8, <1>9, <1>13, <2>1, CallForOneLess
  <2>3. d + 1 \in 0..stacklen
    <3>1. t + 2 \in Slots
      BY <1>13 DEF FirstCall
    <3> QED BY <1>3, <1>8, <3>1, Constants
  <2> QED BY <1>11, <1>13, <2>1, <2>2, <2>3
<1>14. CASE SecondCall(t) /\ GoesOnCompiled
  <2>1. label' = Entry /\ label' # "dispatch"
    BY <1>14 DEF SecondCall, Entry
  <2>2. CallAt(b, d, a)'
    BY <1>1, <1>3, <1>7, <1>8, <1>9, <1>14, <2>1, CallForTwoLess
  <2> QED BY <1>11, <1>14, <2>1, <2>2
<1>15. CASE SumOfResults(t) /\ GoesOnCompiled
  <2>1. vals[t - 1].n \in Int /\ reg.A.n \in Int
    <3>1. label # Entry /\ label = RegisterLabels[2]
      BY <1>15, LabelFacts DEF SumOfResults, Entry
    <3>2. d > 0 /\ t \in Slots
      BY <1>3, <1>5, <1>8, <3>1, AtLabel, TopFrame DEF Entry
    <3>3. t - 1 \in Slots
      BY <1>3, <1>8, <3>2, Constants
    <3> QED BY <1>1, <3>3, LiveFacts DEF Regs
  <2>2. label' # Entry /\ label' # "dispatch"
    BY <1>1, <1>3, <1>5, <1>8, <1>15, <2>1, SumFrames DEF Entry
  <2>3. d - 1 \in Nat /\ CallAt(b, d - 1, a)'
    BY <1>1, <1>3, <1>7, <1>8, <1>9, <1>15, <2>2, CallReturnsSum
  <2>4. d - 1 \in 0..stacklen
    BY <1>3, <2>3
  <2> QED BY <1>11, <1>15, <2>2, <2>3, <2>4
<1>16. CASE ReturnToProgram(b) /\ GoesOnCompiled
  <2>1. Returned(reg.A)'
    BY <1>1, <1>3, <1>4, <1>5, <1>8, <1>9, <1>16, CallEnds
  <2>2. label' = "dispatch" /\ label' # Entry /\ status' = "run"
    BY <1>16 DEF ReturnToProgram, Entry, GoesOnCompiled, GoesOn
  <2> QED BY <1>1, <1>9, <1>10, <2>1, <2>2 DEF CallInv, Progress
<1>17. CASE NoCall
  <2>1. EnoughStack'
    BY <1>1, <1>3, <1>4, <1>5, <1>8, <1>9, <1>17, CallFails
  <2>2. status' = "error" /\ UNCHANGED <<reg, word, SP, vals, proc, program, pc, label>> /\ label = Entry
    BY <1>17 DEF NoCall, Stop, machine, control, Entry
  <2>3. args' = args
    <3>1. SP = t + 1
      BY <1>5, <1>8, <2>2, Constants DEF InCall, Entry
    <3>2. SP - 1 = t /\ reg.A.n = args[t]
      BY <1>3, <1>7, <1>8, <2>2, <3>1, TopArgument
    <3>3. args' = [args EXCEPT ![t] = args[t]]
      BY <1>9, <2>2, <3>2
    <3> QED BY <1>1, <3>3
  <2>4. Calling(d)'
    <3>1. Base' = Base /\ Argument' = Argument
      BY <1>9 DEF Base, Argument
    <3> QED BY <1>2, <1>9, <2>2, <2>3, <3>1
          DEF Calling, InCall, Frame, ArgumentOrResult, CallerKept
  <2> QED BY <1>1, <1>2, <1>9, <1>10, <2>1, <2>2, <2>3, <2>4 DEF CallInv, Progress, Entry
<1>18. NoCall \/ (GoesOnCompiled /\ CompiledStep(b, t))
  BY <1>1, <1>3, <1>5, <1>8, CompiledSteps
<1> QED BY <1>12, <1>13, <1>14, <1>15, <1>16, <1>17, <1>18 DEF CompiledStep

\* A step of the history.
LEMMA CallStep ==
    ASSUME SafeCode, MInv, CallInv, EnoughStack, CallNext
    PROVE  /\ CallInv' /\ EnoughStack'
           /\ label # "dispatch" /\ label' = "dispatch" => Returned(reg.A)'
<1>1. CASE status = "run" /\ Step
  <2>1. label = "dispatch" /\ (Stop("error") \/ Executed \/ CallMade)
    BY <1>1, StepCases
  <2>2. CASE label' = "dispatch"
    <3>1. call' = call /\ args' = args
      BY <2>2 DEF CallNext, Entered, Entry
    <3> QED BY <2>1, <2>2, <3>1 DEF CallInv, EnoughStack
  <2>3. CASE label' # "dispatch"
    <3>1. CallMade
      BY <2>1, <2>3 DEF Stop, control, Executed
    <3>2. PICK x \in Code[program][pc] : fib_with_registers(x)
      BY <3>1 DEF CallMade
    <3>3. CallInv'
      BY <1>1, <2>1, <3>1, <3>2, CallEntered DEF CallMade
    <3>4. status' = "run"
      BY <1>1, <3>2 DEF fib_with_registers
    <3> QED BY <2>3, <3>3, <3>4 DEF EnoughStack
  <2> QED BY <2>2, <2>3
<1>2. CASE status = "run" /\ Compiled
  <2>1. CallInv' /\ Progress
    BY <1>2, CompiledCall
  <2> QED BY <2>1 DEF Progress, EnoughStack
<1>3. CASE Rerun
  <2>1. label' = "dispatch" /\ status' = "run" /\ status = "halt"
    BY <1>3 DEF Rerun, Run
  <2>2. call' = call /\ args' = args
    BY <2>1 DEF CallNext, Entered, Entry
  <2>3. label = "dispatch"
    BY <2>1 DEF MInv, ControlOK
  <2> QED BY <2>1, <2>2, <2>3 DEF CallInv, EnoughStack
<1> QED BY <1>1, <1>2, <1>3 DEF CallNext, Next, Interpret

LEMMA CallInitial ==
    ASSUME SafeCode, CallInit
    PROVE  MInv /\ CallInv /\ EnoughStack
<1>1. Init /\ call.reg = reg /\ args = [i \in Slots |-> 0]
  BY DEF CallInit
<1>2. MInv
  BY <1>1, InitialInv
<1>3. label = "dispatch" /\ call.reg \in [Regs -> Value]
  BY <1>1, <1>2, LiveFacts DEF Init, MInv, MachineOK
<1> QED BY <1>1, <1>2, <1>3 DEF CallInv, EnoughStack

\* MInv goes along: the history does not change what the interpreter may do.
LEMMA CallInvStep ==
    ASSUME SafeCode, MInv, CallInv, EnoughStack, [CallNext]_callVars
    PROVE  MInv' /\ CallInv' /\ EnoughStack'
<1>1. CASE CallNext
  <2>1. Next
    BY <1>1 DEF CallNext
  <2> QED BY <1>1, <2>1, MInvStep, CallStep
<1>2. CASE UNCHANGED callVars
  <2>1. UNCHANGED vars /\ call' = call /\ args' = args
    BY <1>2 DEF callVars
  <2>2. /\ reg' = reg /\ word' = word /\ SP' = SP /\ vals' = vals /\ program' = program /\ label' = label
        /\ status' = status
    BY <2>1 DEF vars, machine, control
  <2>3. MInv'
    BY <2>1, MInvStep
  <2>4. Base' = Base /\ Argument' = Argument
    BY <2>1 DEF Base, Argument
  <2>5. \A d : Calling(d)' <=> Calling(d)
    BY <2>1, <2>2, <2>4 DEF Calling, InCall, Frame, ArgumentOrResult, CallerKept
  <2> QED BY <2>1, <2>2, <2>3, <2>4, <2>5 DEF CallInv, EnoughStack
<1> QED BY <1>1, <1>2

LEMMA CallsInvariant == ASSUME SafeCode PROVE CallSpec => [](MInv /\ CallInv /\ EnoughStack)
<1>1. CallInit => MInv /\ CallInv /\ EnoughStack
  BY CallInitial
<1>2. (MInv /\ CallInv /\ EnoughStack) /\ [CallNext]_callVars => (MInv /\ CallInv /\ EnoughStack)'
  BY CallInvStep
<1> QED BY <1>1, <1>2, PTL DEF CallSpec

\* Within fib_with_registers, the frames below A are those of the calls that led
\* here: each has the argument of the second call or the result of the first,
\* and what the caller keeps on the stack and in its registers is untouched.
THEOREM CallInvariant == ASSUME SafeCode PROVE CallSpec => []CallInv
BY CallsInvariant, PTL

\* fib_with_registers fails for want of stack only when there are less than
\* 2 (n - 1) free slots for its argument n.
THEOREM CallsNeedNoMore == ASSUME SafeCode PROVE CallSpec => []EnoughStack
BY CallsInvariant, PTL

\* When fib_with_registers returns, it has put the fibonacci number of its
\* argument in the argument's place and into A, and has changed nothing else,
\* however often the additions have collected: the return goes to where the
\* program called it.
THEOREM CallsReturnFib == ASSUME SafeCode PROVE CallSpec => CallReturnsFib
<1>1. (MInv /\ CallInv /\ EnoughStack) /\ [CallNext]_callVars =>
        [label # "dispatch" /\ label' = "dispatch" => Returned(reg.A)']_callVars
  BY CallStep
<1> QED BY <1>1, CallsInvariant, PTL DEF CallSpec, CallReturnsFib
=============================================================================
