------------------------------ MODULE IRBlock ------------------------------
(***************************************************************************)
(* The block optimizer (ir/opt.go, optimizeBlock) beside the interpreter   *)
(* (interp/).  The optimizer walks over the instructions of one block once *)
(* and keeps what it knows: the constants that temporaries and variables   *)
(* hold, and the lengths of arrays that are used for nothing but indexing. *)
(* It uses that for two things: an index is marked unchecked, and a branch *)
(* becomes a jump.  Here every instruction is executed by the interpreter  *)
(* in the same step in which the optimizer passes it; the environment      *)
(* chooses the block, one instruction after the other.                     *)
(*                                                                         *)
(* Values: integers (of a width, with an integer type), booleans,          *)
(* references to variables of the frame and to fields or elements of what  *)
(* they hold, and objects: arrays and structs (closures and their          *)
(* environments are structs), which the interpreter shares as pointers.    *)
(* Strings fold as booleans do (equality) and are left out.                *)
(***************************************************************************)
EXTENDS Integers, FiniteSets

CONSTANTS
  Temps,    \* temporaries
  Vars,     \* variables of the frame
  Objects,  \* arrays and structs on the heap
  Half,     \* integers are -Half .. Half - 1 (2^63 in the code)
  MaxLen,   \* bound: length of an array
  Types,    \* integer types of literals: "" (none), "i" (signed), "u" (unsigned)
  Ops,      \* operators that occur
  Lits,     \* literals that occur, and values a callee returns or stores
  Careful,  \* TRUE: only blocks that keep tracked arrays out of other arrays and of
            \* closures, and call no closure that reaches a variable of known value
  None

VARIABLES
  temps, vars, heap,   \* the interpreter's frame and the objects
  seen,                \* temporaries used or defined in the block so far
  consts, varConsts,   \* the optimizer's constants of temporaries and variables
  lens,                \* its array lengths, of the arrays it takes for safe
  access,              \* the last unchecked index and the length it met
  out                  \* where the block went, and what the optimizer made of the branch

machine == <<temps, vars, heap>>
tables == <<consts, varConsts, lens>>
irVars == <<temps, vars, heap, seen, consts, varConsts, lens, access, out>>

----------------------------------------------------------------------------
(* Values *)

Width == -Half .. Half - 1
IntVal(n, ty) == [k |-> "int", n |-> n, ty |-> ty]
BoolVal(b) == [k |-> "bool", b |-> b]
Ref(x) == [k |-> "ref", of |-> x]
Obj(a) == [k |-> "obj", of |-> a]
Part(x) == [k |-> "part", of |-> x]   \* a field or an element of what x holds
Handle(y) == IF y \in Vars THEN Ref(y) ELSE Obj(y)

Ints == [k : {"int"}, n : Width, ty : Types \cup {""}]
Bools == [k : {"bool"}, b : BOOLEAN]
Scalars == Ints \cup Bools
Refs == [k : {"ref"}, of : Vars]
Objs == [k : {"obj"}, of : Objects]
Parts == [k : {"part"}, of : Vars]
Handles == Refs \cup Objs \cup Parts
Values == Scalars \cup Handles

\* A struct has no length.  What is overwritten in an object still counts as held.
Object == [len : Nat \cup {None}, holds : SUBSET (Vars \cup Objects)]

ASSUME HalfAssumption == Half \in Nat \ {0}
ASSUME BoundsAssumption == MaxLen \in Nat
ASSUME LitsAssumption == Lits \subseteq Scalars
ASSUME NoneAssumption ==
  None \notin Values /\ None \notin Nat /\ None \notin Object /\ None \notin Vars \cup Objects
ASSUME TypesAssumption == Types \subseteq {"", "i", "u"} /\ Careful \in BOOLEAN
ASSUME NamesAssumption == Vars \cap Objects = {}

----------------------------------------------------------------------------
(* Operators: the interpreter's and the optimizer's *)

Wrap(n) == ((n + Half) % (2 * Half)) - Half
Unsigned(n) == n % (2 * Half)
Quotient(a, b) == IF (a < 0) = (b < 0) THEN (IF a < 0 THEN -a ELSE a) \div (IF b < 0 THEN -b ELSE b)
                  ELSE -((IF a < 0 THEN -a ELSE a) \div (IF b < 0 THEN -b ELSE b))
PickType(a, b) == IF a.ty # "" THEN a.ty ELSE b.ty

\* None stands for a runtime error.
EvalInt(op, a, b) ==
  LET ty == PickType(a, b) IN
  LET View(v) == IF ty = "u" THEN Unsigned(v.n) ELSE v.n IN
  CASE op = "+" -> IntVal(Wrap(a.n + b.n), ty)
    [] op = "-" -> IntVal(Wrap(a.n - b.n), ty)
    [] op = "/" -> IF b.n = 0 THEN None ELSE IntVal(Wrap(Quotient(View(a), View(b))), ty)
    [] op = "==" -> BoolVal(a.n = b.n)
    [] op = "<" -> BoolVal(View(a) < View(b))
    [] OTHER -> None

Eval(op, a, b) ==
  IF {a, b} \subseteq Ints THEN EvalInt(op, a, b)
  ELSE IF op = "==" THEN BoolVal(a = b)
  ELSE IF op = "&&" /\ {a, b} \subseteq Bools THEN BoolVal(a.b /\ b.b)
  ELSE None

\* Mutant: the boundary of a folded comparison is off by one.
FoldIntOffByOne(op, a, b) ==
  CASE op = "-" -> IntVal(Wrap(a.n - b.n), PickType(a, b))
    [] op = "<" -> BoolVal(a.n <= b.n)
    [] OTHER -> None

\* None: not folded.
FoldInt(op, a, b) ==
  LET ty == PickType(a, b) IN
  CASE op = "+" -> IntVal(Wrap(a.n + b.n), ty)
    [] op = "-" -> IntVal(Wrap(a.n - b.n), ty)
    [] op = "/" -> IF b.n = 0 THEN None ELSE IntVal(Wrap(Quotient(a.n, b.n)), ty)
    [] op = "==" -> BoolVal(a.n = b.n)
    [] op = "<" -> BoolVal(a.n < b.n)
    [] OTHER -> None

Fold(op, a, b) ==
  IF {a, b} \subseteq Ints THEN FoldInt(op, a, b)
  ELSE IF op = "==" /\ {a, b} \subseteq Bools THEN BoolVal(a.b = b.b)
  ELSE IF op = "&&" /\ {a, b} \subseteq Bools THEN BoolVal(a.b /\ b.b)
  ELSE None

----------------------------------------------------------------------------
(* Operands, and what can be reached from values *)

Operands == Lits \cup Temps
Val(op) == IF op \in Temps THEN temps[op] ELSE op

\* What the optimizer knows of an operand (getOperandConst).
Known(op) == IF op \in Temps THEN consts[op] ELSE op

\* Mutant: the scan forgets the instructions that only read an array.
UntrackedNever(S) == TRUE

\* scanArraySafety looks ahead: a tracked array is a temporary that no instruction of the
\* block but MakeArray, Index and SetIndex mentions, so the others cannot take it.
Untracked(S) == \A t \in S \cap Temps : lens[t] = None

\* A temporary is defined once, and not behind a use (Compiler.newTemp).
Fresh(d) == d \in Temps \ seen

See(S) == seen' = seen \cup (S \cap Temps)

\* One step from a value, a variable or an object to what it refers to.
Names(v) == IF v \in Handles THEN {v.of} ELSE {}
Below(y) ==
  IF y \in Vars THEN Names(vars[y])
  ELSE IF heap[y] # None THEN heap[y].holds ELSE {}
Closed(R) == \A y \in R : Below(y) \subseteq R
Roots(A) == UNION {Names(temps[t]) : t \in A}
Reach(A) == {y \in Vars \cup Objects :
               \A R \in SUBSET (Vars \cup Objects) : Roots(A) \subseteq R /\ Closed(R) => y \in R}

\* What a callee may return or store, given what it reaches.
Results(R) == Lits \cup {Handle(y) : y \in R}

\* The object a value stands for, directly or through a reference (arrayValue,
\* getStructField), what may be read from it, and storing something into it.
ObjectOf(v) ==
  IF v \in Objs THEN v.of
  ELSE IF v \in Refs /\ vars[v.of] \in Objs THEN vars[v.of].of
  ELSE None
Contents(a) == Lits \cup {Handle(y) : y \in heap[a].holds}
Put(a, v) == heap' = [heap EXCEPT ![a].holds = @ \cup Names(v)]
IsArray(a) == a # None /\ heap[a].len # None
IsStruct(a) == a # None /\ heap[a].len = None

----------------------------------------------------------------------------
(* Instructions: what the interpreter does and what the optimizer notes *)

Running == out = None

\* d gets value v, of which the optimizer knows c (None: deleted from the table).
Define(d, v, c) ==
  /\ temps' = [temps EXCEPT ![d] = v]
  /\ consts' = [consts EXCEPT ![d] = c]

LoadVar(d, x) ==
  /\ Running /\ Fresh(d) /\ vars[x] # None
  /\ Define(d, vars[x], varConsts[x])
  /\ See({d})
  /\ UNCHANGED <<vars, heap, varConsts, lens, access, out>>

LoadAddr(d, x) ==
  /\ Running /\ Fresh(d) /\ vars[x] # None
  /\ Define(d, Ref(x), None)
  /\ varConsts' = [varConsts EXCEPT ![x] = None]
  /\ See({d})
  /\ UNCHANGED <<vars, heap, lens, access, out>>

\* What a load through a reference gives (varRef, fieldRef and indexRef).
Loads(v) ==
  IF v \in Refs THEN {vars[v.of]} \ {None}
  ELSE IF v \in Parts /\ ObjectOf(vars[v.of]) # None THEN Contents(ObjectOf(vars[v.of]))
  ELSE {}

LoadRef(d, t) ==
  /\ Running /\ Fresh(d) /\ t # d /\ Untracked({t})
  /\ \E v \in Loads(temps[t]) : Define(d, v, None)
  /\ See({d, t})
  /\ UNCHANGED <<vars, heap, varConsts, lens, access, out>>

StoreVar(x, src) ==
  /\ Running /\ Untracked({src})
  /\ vars' = [vars EXCEPT ![x] = Val(src)]
  /\ varConsts' = [varConsts EXCEPT ![x] = Known(src)]
  /\ See({src})
  /\ UNCHANGED <<temps, heap, consts, lens, access, out>>

\* A store through a reference.  One into a field or an element puts the object, if a
\* reference was in between, into the variable itself (fieldRef.store, indexRef.store).
StoreThrough(r, v) ==
  \/ /\ r \in Refs
     /\ vars' = [vars EXCEPT ![r.of] = v]
     /\ UNCHANGED heap
  \/ /\ r \in Parts /\ ObjectOf(vars[r.of]) # None
     /\ Put(ObjectOf(vars[r.of]), v)
     /\ vars' = [vars EXCEPT ![r.of] = Obj(ObjectOf(vars[r.of]))]

\* Mutant: a store through a reference keeps what is known of variables.
StoreRefKeeps(t, src) ==
  /\ Running /\ Untracked({t, src})
  /\ StoreThrough(temps[t], Val(src))
  /\ See({t, src})
  /\ UNCHANGED <<temps, consts, varConsts, lens, access, out>>

StoreRef(t, src) ==
  /\ Running /\ Untracked({t, src})
  /\ StoreThrough(temps[t], Val(src))
  /\ varConsts' = [y \in Vars |-> None]
  /\ See({t, src})
  /\ UNCHANGED <<temps, consts, lens, access, out>>

\* A runtime error ends the run of the block, there is no step for it.
BinOp(d, op, l, r) ==
  /\ Running /\ Fresh(d) /\ d \notin {l, r} /\ Untracked({l, r})
  /\ {Val(l), Val(r)} \subseteq Scalars
  /\ Eval(op, Val(l), Val(r)) # None
  /\ LET known == Known(l) # None /\ Known(r) # None
     IN  Define(d, Eval(op, Val(l), Val(r)), IF known THEN Fold(op, Known(l), Known(r)) ELSE None)
  /\ See({d, l, r})
  /\ UNCHANGED <<vars, heap, varConsts, lens, access, out>>

\* An object that a callee has changed: resized if it is an array, and it may hold all of R.
Altered(o, n, R) ==
  [len |-> IF o.len = None THEN None ELSE n, holds |-> o.holds \cup R]

\* The effect of a callee that reaches R: it changes some of those variables and objects,
\* and returns something.
CalleeEffect(R, v) ==
  /\ v \in Results(R)
  /\ \E W \in SUBSET (R \cap Vars), w \in Results(R) :
       vars' = [x \in Vars |-> IF x \in W THEN w ELSE vars[x]]
  /\ \E G \in SUBSET (R \cap Objects), n \in 0..MaxLen :
       heap' = [a \in Objects |-> IF a \in G THEN Altered(heap[a], n, R) ELSE heap[a]]

Call(d, A) ==
  /\ Running /\ Fresh(d) /\ d \notin A /\ Untracked(A)
  /\ LET R == Reach(A) IN
       \E v \in Results(R) : CalleeEffect(R, v) /\ Define(d, v, None)
  /\ varConsts' = [x \in Vars |-> None]
  /\ See(A \cup {d})
  /\ UNCHANGED <<lens, access, out>>

\* optimizeBlock has no case for call_closure and instrTemps returns nothing for it: the
\* tables stay as they are, and a tracked array may be among the arguments.
CallClosure(d, c, A) ==
  /\ Running /\ Fresh(d) /\ d \notin A \cup {c}
  /\ temps[c] \in Objs /\ IsStruct(temps[c].of)
  /\ Careful => Untracked(A \cup {c})
  /\ LET R == Reach(A \cup {c}) IN
       /\ Careful => \A x \in R \cap Vars : varConsts[x] = None
       /\ \E v \in Results(R) : CalleeEffect(R, v) /\ temps' = [temps EXCEPT ![d] = v]
  /\ See(A \cup {c, d})
  /\ UNCHANGED <<tables, access, out>>

\* d gets a new object.
Allocate(d, o) ==
  \E a \in Objects : /\ heap[a] = None
                     /\ heap' = [heap EXCEPT ![a] = o]
                     /\ Define(d, Obj(a), None)

\* An array of n elements, with the values of E among them.  The scan decided before
\* whether the block uses it for nothing but indexing.
MakeArray(d, n, E) ==
  /\ Running /\ Fresh(d) /\ d \notin E /\ n >= Cardinality(E)
  /\ Careful => Untracked(E)
  /\ Allocate(d, [len |-> n, holds |-> Roots(E)])
  /\ \E safe \in BOOLEAN : lens' = [lens EXCEPT ![d] = IF safe THEN n ELSE None]
  /\ See(E \cup {d})
  /\ UNCHANGED <<vars, varConsts, access, out>>

InBounds(i, n) == 0 <= i /\ i < n

\* Mutant: the length itself passes for an index.
UncheckedAtLength(t, i) == Known(i) \in Ints /\ lens[t] # None /\ Known(i).n \in 0..lens[t]

\* Whether optimizeBlock marks an access to array temporary t at index operand i.
Unchecked(t, i) ==
  /\ Known(i) \in Ints
  /\ lens[t] # None
  /\ InBounds(Known(i).n, lens[t])

\* The access itself: checked, it must be in bounds; unchecked, it is recorded.
AccessAt(t, i) ==
  /\ Val(i) \in Ints
  /\ IsArray(ObjectOf(temps[t]))
  /\ LET n == heap[ObjectOf(temps[t])].len IN
       \/ /\ Unchecked(t, i)
          /\ access' = [index |-> Val(i).n, len |-> n]
       \/ /\ ~Unchecked(t, i)
          /\ InBounds(Val(i).n, n)
          /\ UNCHANGED access

\* The scan also leaves out Index and SetIndex: whatever they use stays tracked.
Index(d, t, i) ==
  /\ Running /\ Fresh(d) /\ d \notin {t, i}
  /\ AccessAt(t, i)
  /\ \E v \in Contents(ObjectOf(temps[t])) : Define(d, v, None)
  /\ See({d, t, i})
  /\ UNCHANGED <<vars, heap, varConsts, lens, out>>

SetIndex(t, i, src) ==
  /\ Running
  /\ Careful => Untracked({src})
  /\ AccessAt(t, i)
  /\ Put(ObjectOf(temps[t]), Val(src))
  /\ See({t, i, src})
  /\ UNCHANGED <<temps, vars, consts, varConsts, lens, out>>

MakeStruct(d, E) ==
  /\ Running /\ Fresh(d) /\ d \notin E /\ Untracked(E)
  /\ Allocate(d, [len |-> None, holds |-> Roots(E)])
  /\ See(E \cup {d})
  /\ UNCHANGED <<vars, varConsts, lens, access, out>>

GetField(d, s) ==
  /\ Running /\ Fresh(d) /\ d # s /\ Untracked({s})
  /\ IsStruct(ObjectOf(temps[s]))
  /\ \E v \in Contents(ObjectOf(temps[s])) : Define(d, v, None)
  /\ See({d, s})
  /\ UNCHANGED <<vars, heap, varConsts, lens, access, out>>

SetField(s, src) ==
  /\ Running /\ Untracked({s, src})
  /\ IsStruct(ObjectOf(temps[s]))
  /\ Put(ObjectOf(temps[s]), Val(src))
  /\ See({s, src})
  /\ UNCHANGED <<temps, vars, tables, access, out>>

\* FieldAddr and IndexAddr: no case in optimizeBlock, so what is known of d stays.
PartAddr(d, t) ==
  /\ Running /\ Fresh(d) /\ d # t
  /\ temps[t] \in Refs
  /\ temps' = [temps EXCEPT ![d] = Part(temps[t].of)]
  /\ See({d, t})
  /\ UNCHANGED <<vars, heap, tables, access, out>>

\* The terminator: where the interpreter goes, and what the optimizer puts in its place.
Branch(cond) ==
  /\ Running
  /\ Val(cond) \in Bools
  /\ out' = [takes |-> IF Val(cond).b THEN "then" ELSE "else",
             made |-> IF Known(cond) \in Bools THEN IF Known(cond).b THEN "then" ELSE "else"
                      ELSE "branch"]
  /\ See({cond})
  /\ UNCHANGED <<machine, tables, access>>

----------------------------------------------------------------------------

\* A block is entered with nothing known; variables may be set, and references to them may
\* be in temporaries and in structs (closures).
IRInit ==
  /\ vars \in [Vars -> Lits \cup {None}]
  /\ LET Defined == {x \in Vars : vars[x] # None} IN
       /\ heap \in [Objects -> {None, [len |-> None, holds |-> Defined]}]
       /\ temps \in [Temps -> {IntVal(0, "")} \cup {Ref(x) : x \in Defined}
                                 \cup {Obj(a) : a \in {b \in Objects : heap[b] # None}}]
  /\ seen = {}
  /\ consts = [t \in Temps |-> None]
  /\ varConsts = [x \in Vars |-> None]
  /\ lens = [t \in Temps |-> None]
  /\ access = None
  /\ out = None

IRNext ==
  \/ \E d \in Temps, x \in Vars : LoadVar(d, x)
  \/ \E d \in Temps, x \in Vars : LoadAddr(d, x)
  \/ \E d, t \in Temps : LoadRef(d, t)
  \/ \E x \in Vars, src \in Operands : StoreVar(x, src)
  \/ \E t \in Temps, src \in Operands : StoreRef(t, src)
  \/ \E d \in Temps, op \in Ops, l, r \in Operands : BinOp(d, op, l, r)
  \/ \E d \in Temps, A \in SUBSET Temps : Call(d, A)
  \/ \E d, c \in Temps, A \in SUBSET Temps : CallClosure(d, c, A)
  \/ \E d \in Temps, n \in 0..MaxLen, E \in SUBSET Temps : MakeArray(d, n, E)
  \/ \E d, t \in Temps, i \in Operands : Index(d, t, i)
  \/ \E t \in Temps, i, src \in Operands : SetIndex(t, i, src)
  \/ \E d \in Temps, E \in SUBSET Temps : MakeStruct(d, E)
  \/ \E d, s \in Temps : GetField(d, s)
  \/ \E s \in Temps, src \in Operands : SetField(s, src)
  \/ \E d, t \in Temps : PartAddr(d, t)
  \/ \E cond \in Operands : Branch(cond)

IRSpec == IRInit /\ [][IRNext]_irVars

----------------------------------------------------------------------------
(* Properties *)

\* The frame holds values, the tables only constants of values, and lengths are lengths.
IRTypeOK ==
  /\ temps \in [Temps -> Values]
  /\ vars \in [Vars -> Values \cup {None}]
  /\ heap \in [Objects -> Object \cup {None}]
  /\ seen \subseteq Temps
  /\ consts \in [Temps -> Scalars \cup {None}]
  /\ varConsts \in [Vars -> Scalars \cup {None}]
  /\ lens \in [Temps -> Nat \cup {None}]
  /\ access \in [index : Width, len : Nat] \cup {None}
  /\ out \in [takes : {"then", "else"}, made : {"then", "else", "branch"}] \cup {None}

\* What optimizeBlock's tables say of temporaries and variables is what the interpreter's
\* frame holds at that point, whatever was stored through references and by callees.
ConstsTrue ==
  /\ \A t \in Temps : consts[t] # None => temps[t] = consts[t]
  /\ \A x \in Vars : varConsts[x] # None => vars[x] = varConsts[x]

\* A branch that became a jump goes where the interpreter takes the branch.
BranchSound == out # None => out.made \in {"branch", out.takes}

\* An access marked unchecked is within the array as it is when it is executed.
UncheckedSafe == access # None => InBounds(access.index, access.len)

\* Nothing refers to object a but, perhaps, the temporaries S.
Hidden(a, S) ==
  /\ \A t \in Temps \ S : temps[t] # Obj(a)
  /\ \A x \in Vars : vars[x] # Obj(a)
  /\ \A b \in Objects : heap[b] # None => a \notin heap[b].holds

\* What is known of a temporary is known since the block mentioned it.
Noted == \A t \in Temps : consts[t] # None \/ lens[t] # None => t \in seen

\* A tracked array has the length the table says, and only its temporary refers to it.
Tracks(t) == \E a \in Objects : /\ temps[t] = Obj(a)
                              /\ heap[a] # None
                              /\ heap[a].len = lens[t]
                              /\ Hidden(a, {t})
Tracked == \A t \in Temps : lens[t] # None => Tracks(t)

\* Nothing refers to what is not allocated.
Allocated == \A a \in Objects : heap[a] = None => Hidden(a, {})

\* The inductive invariant.
IRInv == IRTypeOK /\ ConstsTrue /\ BranchSound /\ UncheckedSafe
         /\ Noted /\ Tracked /\ Allocated
=============================================================================
