----------------------------- MODULE ObjectStore -----------------------------
(***************************************************************************)
(* What the memory of a process promises to the code that uses it: named   *)
(* variables hold immediates or references to immutable objects, a         *)
(* primitive returns a new object made from the arguments it was given,    *)
(* and nothing the client can see ever depends on where objects are or on  *)
(* when memory is reclaimed.  An allocation fails only when the objects    *)
(* that can still be reached leave no room for it.                         *)
(***************************************************************************)
EXTENDS Integers, FiniteSets

CONSTANTS
    Variable,       \* names of the places that hold values
    Permanent,      \* the variables that exist from the start
    ArgA, ArgB,     \* the two of them that hold a primitive's arguments
    Immediate,      \* immediate values
    Digit,          \* digits of bignums
    MaxDigits,      \* the longest bignum
    Capacity        \* words there is room for, heads included

VARIABLES
    value,          \* contents of each variable
    objects,        \* the objects, by reference
    created,        \* number of objects made so far
    request         \* the primitive that is running, if any

store == <<value, objects, created, request>>

None == <<"none", 0>>
Imm(w) == <<"imm", w>>
Ref(i) == <<"ref", i>>
Digits(d) == <<"digit", d>>

Idle == [op |-> "none", n |-> 0, len |-> 0, dst |-> 0]
Failed == [op |-> "failed", n |-> 0, len |-> 0, dst |-> 0]
Stopped == [op |-> "stopped", n |-> 0, len |-> 0, dst |-> 0]
Pending == request.op \in {"cons", "bignum", "add"}

Client == Variable \ {ArgA, ArgB}
Held == {Imm(w) : w \in Immediate} \cup ({value[x] : x \in Client} \ {None})

\* References held by a family of values, and what can be reached from all
\* variables through the fields of objects.
RefsIn(f) == {i \in DOMAIN objects : \E x \in DOMAIN f : f[x] = Ref(i)}
Reachable ==
    LET within[n \in Nat] ==
          IF n = 0 THEN RefsIn(value)
          ELSE within[n - 1] \cup
               UNION {RefsIn(objects[i].body) : i \in within[n - 1]}
    IN  within[Cardinality(DOMAIN objects)]

SizeOf(i) == 1 + Cardinality(DOMAIN objects[i].body)
WordsIn(R) ==
    LET total[S \in SUBSET R] ==
          IF S = {} THEN 0
          ELSE LET i == CHOOSE j \in S : TRUE IN SizeOf(i) + total[S \ {i}]
    IN  total[R]

StoreInit ==
    /\ \E w \in Immediate :
         value = [x \in Variable |-> IF x \in Permanent THEN Imm(w) ELSE None]
    /\ objects = [i \in {} |-> None]
    /\ created = 0
    /\ request = Idle

\* A variable gets a value the client holds: load, move, push, register.
Set(x, v) ==
    /\ request = Idle
    /\ value' = [value EXCEPT ![x] = v]
    /\ UNCHANGED <<objects, created, request>>

\* A field of a pair is read.
Select(x, y, k) ==
    /\ request = Idle
    /\ \E i \in DOMAIN objects :
         /\ value[y] = Ref(i)
         /\ objects[i].type = "pair"
         /\ value' = [value EXCEPT ![x] = objects[i].body[k]]
    /\ UNCHANGED <<objects, created, request>>

\* A value leaves one variable for another: pop.
Move(x, y) ==
    /\ request = Idle
    /\ value' = [value EXCEPT ![x] = value[y], ![y] = None]
    /\ UNCHANGED <<objects, created, request>>

\* Variables cease to exist: unregister.
Drop(X) ==
    /\ request = Idle
    /\ value' = [x \in Variable |-> IF x \in X THEN None ELSE value[x]]
    /\ UNCHANGED <<objects, created, request>>

Request(op, a, b, n, len, x) ==
    /\ request = Idle
    /\ request' = [op |-> op, n |-> n, len |-> len, dst |-> x]
    /\ value' = [value EXCEPT ![ArgA] = a, ![ArgB] = b]
    /\ UNCHANGED <<objects, created>>

\* What cannot be reached goes, while a primitive runs; nothing else does.
Collect ==
    /\ Pending
    /\ objects' = [i \in Reachable |-> objects[i]]
    /\ UNCHANGED <<value, created, request>>

Answer(v) ==
    /\ value' = [value EXCEPT ![ArgA] = None, ![ArgB] = None,
                             ![request.dst] = v]
    /\ request' = Idle

Create(type, body) ==
    /\ objects' = [i \in DOMAIN objects \cup {created} |->
                     IF i = created THEN [type |-> type, body |-> body]
                                    ELSE objects[i]]
    /\ created' = created + 1
    /\ Answer(Ref(created))

CreatePair ==
    /\ request.op = "cons"
    /\ Create("pair", <<value[ArgA], value[ArgB]>>)

CreateBignum(m, d) ==
    /\ \/ request.op = "bignum" /\ m = request.len
       \/ request.op = "add" /\ m <= request.len + 1
    /\ Create("bignum", [k \in 1..m |-> Digits(d)])

AnswerFixnum(w) ==
    /\ request.op = "add"
    /\ Answer(Imm(w))
    /\ UNCHANGED <<objects, created>>

\* Out of memory: only if the reachable objects leave no room.
Fail ==
    /\ Pending
    /\ WordsIn(Reachable) + request.n > Capacity
    /\ request' = Failed
    /\ UNCHANGED <<value, objects, created>>

\* The client violated a limit or passed a non-number.
Stop ==
    /\ request = Idle
    /\ request' = Stopped
    /\ UNCHANGED <<value, objects, created>>

StoreNext ==
    \/ \E x \in Client, v \in Held : Set(x, v)
    \/ \E x, y \in Client, k \in 1..2 : Select(x, y, k)
    \/ \E x, y \in Client : Move(x, y)
    \/ \E X \in SUBSET Client : Drop(X)
    \/ \E a, b \in Held, x \in Client : Request("cons", a, b, 3, 2, x)
    \/ \E m \in 1..2, x \in Client : Request("bignum", None, None, m + 1, m, x)
    \/ \E a, b \in Held, m \in 1..MaxDigits, x \in Client :
         Request("add", a, b, m + 2, m, x)
    \/ Collect
    \/ CreatePair
    \/ \E m \in 1..(MaxDigits + 1), d \in Digit : CreateBignum(m, d)
    \/ \E w \in Immediate : AnswerFixnum(w)
    \/ Fail
    \/ Stop

StoreSpec == StoreInit /\ [][StoreNext]_store
=============================================================================
