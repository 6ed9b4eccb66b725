--------------------------- MODULE IRBlockProofs ---------------------------
(***************************************************************************)
(* Proof that the block optimizer's conclusions are true of the            *)
(* interpreter, for any number of temporaries, variables and objects, any  *)
(* width of integers and any block, as long as no unsigned type occurs and *)
(* the block is careful (IRBlock).                                         *)
(***************************************************************************)
EXTENDS IRBlock, TLAPS

\* The blocks the theorems are about.
Plain == Careful = TRUE /\ "u" \notin Types

----------------------------------------------------------------------------
(* Values and operators *)

\* Reducing an integer keeps it within the width.
LEMMA WrapType == ASSUME NEW n \in Int PROVE Wrap(n) \in Width
<1>1. Half \in Nat /\ Half > 0 BY HalfAssumption
<1>2. (n + Half) % (2 * Half) \in 0..(2 * Half - 1) BY <1>1
<1> QED BY <1>1, <1>2 DEF Wrap, Width

\* What an integer record is made of.
LEMMA IntFields ==
  ASSUME NEW v \in Ints
  PROVE v = IntVal(v.n, v.ty) /\ v.n \in Width /\ v.n \in Int /\ v.ty \in Types \cup {""}
<1>1. v.k = "int" /\ v.n \in Width /\ v.ty \in Types \cup {""} BY DEF Ints
<1>2. v = [k |-> v.k, n |-> v.n, ty |-> v.ty] BY DEF Ints
<1>3. v = IntVal(v.n, v.ty) BY <1>1, <1>2 DEF IntVal
<1>4. Width \subseteq Int BY HalfAssumption DEF Width
<1> QED BY <1>1, <1>3, <1>4

\* What a boolean record is made of.
LEMMA BoolFields ==
  ASSUME NEW v \in Bools PROVE v = BoolVal(v.b) /\ v.b \in BOOLEAN
BY DEF Bools, BoolVal

\* The kinds of values do not overlap.
LEMMA Kinds ==
  /\ Ints \cap Bools = {}
  /\ Scalars \cap Handles = {}
  /\ None \notin Scalars /\ None \notin Handles
<1>1. \A v \in Ints : v.k = "int" BY DEF Ints
<1>2. \A v \in Bools : v.k = "bool" BY DEF Bools
<1>3. \A v \in Handles : v.k \in {"ref", "obj", "part"}
  BY DEF Handles, Refs, Objs, Parts
<1>4. "int" # "bool" /\ "int" \notin {"ref", "obj", "part"}
      /\ "bool" \notin {"ref", "obj", "part"}
  OBVIOUS
<1>5. Ints \cap Bools = {} BY <1>1, <1>2, <1>4
<1>6. Scalars \cap Handles = {} BY <1>1, <1>2, <1>3, <1>4 DEF Scalars
<1> QED BY <1>5, <1>6, NoneAssumption DEF Values

\* What a handle is made of.
LEMMA HandleFields ==
  /\ \A x : Ref(x).of = x /\ Obj(x).of = x /\ Part(x).of = x
  /\ \A x, y : Ref(x) # Obj(y) /\ Part(x) # Obj(y)
BY DEF Ref, Obj, Part

\* An integer within the width is a scalar.
LEMMA IntType ==
  ASSUME NEW n \in Width, NEW ty \in Types \cup {""} PROVE IntVal(n, ty) \in Scalars
BY DEF Scalars, Ints, IntVal

\* A truth value is a scalar.
LEMMA BoolType == ASSUME NEW b \in BOOLEAN PROVE BoolVal(b) \in Scalars
BY DEF Scalars, Bools, BoolVal

\* Without unsigned types the interpreter computes what the optimizer folds.
LEMMA FoldSound ==
  ASSUME Plain, NEW op, NEW a \in Scalars, NEW b \in Scalars, Fold(op, a, b) # None
  PROVE Eval(op, a, b) = Fold(op, a, b)
<1>1. CASE {a, b} \subseteq Ints
  <2>1. PickType(a, b) # "u"
    BY <1>1, IntFields DEF PickType, Plain
  <2>2. EvalInt(op, a, b) = FoldInt(op, a, b)
    BY <2>1 DEF EvalInt, FoldInt
  <2> QED BY <1>1, <2>2 DEF Eval, Fold
<1>2. CASE ~({a, b} \subseteq Ints)
  <2>1. op = "==" /\ {a, b} \subseteq Bools => (a = b) = (a.b = b.b)
    BY BoolFields
  <2> QED BY <1>2, <2>1 DEF Eval, Fold
<1> QED BY <1>1, <1>2

\* An operator applied to integers and booleans gives one of them, or an error.
LEMMA QuotientInt ==
  ASSUME NEW a \in Int, NEW b \in Int, b # 0 PROVE Quotient(a, b) \in Int
<1> DEFINE p == IF a < 0 THEN -a ELSE a
           q == IF b < 0 THEN -b ELSE b
<1>1. p \in Nat /\ q \in Nat /\ q > 0 OBVIOUS
<1>2. p \div q \in Int BY <1>1
<1> QED BY <1>2 DEF Quotient

\* What is folded is a scalar.
LEMMA FoldType ==
  ASSUME NEW op, NEW a \in Scalars, NEW b \in Scalars
  PROVE Fold(op, a, b) \in Scalars \cup {None}
<1>1. CASE {a, b} \subseteq Ints
  <2>1. PickType(a, b) \in Types \cup {""} BY <1>1, IntFields DEF PickType
  <2>2. a.n \in Int /\ b.n \in Int BY <1>1, IntFields
  <2>3. a.n + b.n \in Int /\ a.n - b.n \in Int BY <2>2
  <2>4. b.n # 0 => Quotient(a.n, b.n) \in Int BY <2>2, QuotientInt
  <2>5. Wrap(a.n + b.n) \in Width /\ Wrap(a.n - b.n) \in Width
        /\ (b.n # 0 => Wrap(Quotient(a.n, b.n)) \in Width)
    BY <2>3, <2>4, WrapType
  <2>6. FoldInt(op, a, b) \in Scalars \cup {None}
    <3>1. CASE op \in {"+", "-"} BY <3>1, <2>1, <2>5, IntType DEF FoldInt
    <3>2. CASE op = "/" BY <3>2, <2>1, <2>5, IntType DEF FoldInt
    <3>3. CASE op = "==" BY <3>3, BoolType DEF FoldInt
    <3>4. CASE op = "<"
      <4>1. FoldInt(op, a, b) = BoolVal(a.n < b.n) BY <3>4 DEF FoldInt
      <4>2. (a.n < b.n) \in BOOLEAN OBVIOUS
      <4>3. BoolVal(a.n < b.n) \in Scalars BY <4>2, BoolType, Zenon
      <4> QED BY <4>1, <4>3, Zenon
    <3>5. CASE op \notin {"+", "-", "/", "==", "<"} BY <3>5 DEF FoldInt
    <3> QED BY <3>1, <3>2, <3>3, <3>4, <3>5
  <2> QED BY <1>1, <2>6 DEF Fold
<1>2. CASE ~({a, b} \subseteq Ints)
  BY <1>2, BoolType DEF Fold
<1> QED BY <1>1, <1>2

\* What is computed without error is a scalar.
LEMMA EvalType ==
  ASSUME NEW op, NEW a \in Scalars, NEW b \in Scalars
  PROVE Eval(op, a, b) \in Scalars \cup {None}
<1>1. CASE {a, b} \subseteq Ints
  <2>1. PickType(a, b) \in Types \cup {""} BY <1>1, IntFields DEF PickType
  <2>2. a.n \in Int /\ b.n \in Int BY <1>1, IntFields
  <2> DEFINE View(v) == IF PickType(a, b) = "u" THEN Unsigned(v.n) ELSE v.n
  <2>3. Half \in Nat /\ Half > 0 /\ Unsigned(a.n) \in Int /\ Unsigned(b.n) \in Int
    BY <2>2, HalfAssumption DEF Unsigned
  <2>4. View(a) \in Int /\ View(b) \in Int BY <2>2, <2>3
  <2>5. b.n # 0 => View(b) # 0
    <3>1. b.n \in -Half .. Half - 1 BY <1>1, IntFields DEF Width
    <3>2. b.n # 0 => b.n % (2 * Half) # 0
      <4>1. b.n > 0 => b.n % (2 * Half) = b.n BY <3>1, <2>3
      <4>2. b.n < 0 => b.n % (2 * Half) = b.n + 2 * Half BY <3>1, <2>3
      <4> QED BY <4>1, <4>2, <3>1, <2>3
    <3> QED BY <3>2 DEF Unsigned
  <2>6. a.n + b.n \in Int /\ a.n - b.n \in Int BY <2>2
  <2>7. b.n # 0 => Quotient(View(a), View(b)) \in Int BY <2>4, <2>5, QuotientInt
  <2>8. Wrap(a.n + b.n) \in Width /\ Wrap(a.n - b.n) \in Width
        /\ (b.n # 0 => Wrap(Quotient(View(a), View(b))) \in Width)
    BY <2>6, <2>7, WrapType
  <2>9. EvalInt(op, a, b) \in Scalars \cup {None}
    <3>1. CASE op \in {"+", "-"} BY <3>1, <2>1, <2>8, IntType DEF EvalInt
    <3>2. CASE op = "/" BY <3>2, <2>1, <2>8, IntType DEF EvalInt
    <3>3. CASE op = "==" BY <3>3, BoolType DEF EvalInt
    <3>4. CASE op = "<"
      <4>1. EvalInt(op, a, b) = BoolVal(View(a) < View(b)) BY <3>4 DEF EvalInt
      <4>2. (View(a) < View(b)) \in BOOLEAN OBVIOUS
      <4>3. BoolVal(View(a) < View(b)) \in Scalars BY <4>2, BoolType, Zenon
      <4> QED BY <4>1, <4>3, Zenon
    <3>5. CASE op \notin {"+", "-", "/", "==", "<"} BY <3>5 DEF EvalInt
    <3> QED BY <3>1, <3>2, <3>3, <3>4, <3>5
  <2> QED BY <1>1, <2>9 DEF Eval
<1>2. CASE ~({a, b} \subseteq Ints)
  BY <1>2, BoolType DEF Eval
<1> QED BY <1>1, <1>2

----------------------------------------------------------------------------
(* What refers to what *)

\* An operand of a known value has that value.
LEMMA KnownVal ==
  ASSUME ConstsTrue, NEW op \in Operands, Known(op) # None
  PROVE Val(op) = Known(op)
BY DEF ConstsTrue, Known, Val

\* Operands are values, and what is known of them is a scalar.
LEMMA OperandType ==
  ASSUME IRTypeOK, NEW op \in Operands
  PROVE Val(op) \in Values /\ Known(op) \in Scalars \cup {None}
<1>1. Lits \subseteq Scalars BY LitsAssumption
<1> QED BY <1>1 DEF IRTypeOK, Operands, Known, Val, Values

\* Handles are values.
LEMMA HandleType ==
  /\ \A x \in Vars : Ref(x) \in Values /\ Part(x) \in Values
  /\ \A a \in Objects : Obj(a) \in Values
<1>1. \A x \in Vars : Ref(x) \in Refs BY DEF Ref, Refs
<1>2. \A a \in Objects : Obj(a) \in Objs BY DEF Obj, Objs
<1>3. \A x \in Vars : Part(x) \in Parts BY DEF Part, Parts
<1> QED BY <1>1, <1>2, <1>3 DEF Values, Handles

\* Which values are not references to an object.
LEMMA OtherThanObj ==
  ASSUME NEW a \in Objects
  PROVE /\ \A v \in Scalars : v # Obj(a)
        /\ \A x : Ref(x) # Obj(a) /\ Part(x) # Obj(a)
        /\ \A b : Obj(b) = Obj(a) => b = a
        /\ None # Obj(a)
<1>1. \A v \in Scalars : v.k \in {"int", "bool"} BY DEF Scalars, Ints, Bools
<1>2. Obj(a).k = "obj" BY DEF Obj
<1>3. \A v \in Scalars : v # Obj(a) BY <1>1, <1>2
<1>4. Obj(a) \in Values BY HandleType
<1> QED BY <1>3, <1>4, HandleFields, NoneAssumption

\* A reference to an object is that object's handle.
LEMMA ObjsAre == ASSUME NEW v \in Objs PROVE v.of \in Objects /\ v = Obj(v.of)
<1>1. v = [k |-> v.k, of |-> v.of] /\ v.k = "obj" /\ v.of \in Objects BY DEF Objs
<1> QED BY <1>1 DEF Obj

\* A value that names an object is a reference to it.
LEMMA NamesObj ==
  ASSUME NEW v, NEW y \in Names(v)
  PROVE y \in Vars \cup Objects /\ (y \in Objects => v = Obj(y))
<1>1. v \in Refs \cup Objs \cup Parts /\ y = v.of BY DEF Names, Handles
<1>2. CASE v \in Refs \cup Parts BY <1>1, <1>2, NamesAssumption DEF Refs, Parts
<1>3. CASE v \in Objs BY <1>1, <1>3, ObjsAre
<1> QED BY <1>1, <1>2, <1>3

\* Handles of variables and objects are values, and only an object's own handle names it.
LEMMA HandleFacts ==
  ASSUME NEW y \in Vars \cup Objects
  PROVE Handle(y) \in Values /\ \A a \in Objects : Handle(y) = Obj(a) => y = a
<1>1. CASE y \in Vars BY <1>1, HandleType, OtherThanObj DEF Handle
<1>2. CASE y \notin Vars BY <1>2, HandleType, OtherThanObj DEF Handle
<1> QED BY <1>1, <1>2

\* Nothing but tracked temporaries refers to object a.
Private(a) == Hidden(a, {t \in Temps : lens[t] # None})

\* A callee that is given no tracked array reaches no private one.
LEMMA ReachPrivate ==
  ASSUME IRTypeOK, NEW a \in Objects, Private(a), NEW A \in SUBSET Temps, Untracked(A)
  PROVE a \notin Reach(A)
<1> DEFINE R == (Vars \cup Objects) \ {a}
<1>1. Roots(A) \subseteq R
  <2> SUFFICES ASSUME NEW t \in A, NEW y \in Names(temps[t]) PROVE y \in R
    BY DEF Roots
  <2>1. temps[t] # Obj(a) BY DEF Private, Hidden, Untracked
  <2> QED BY <2>1, NamesObj
<1>2. Closed(R)
  <2> SUFFICES ASSUME NEW y \in R, NEW z \in Below(y) PROVE z \in R
    BY DEF Closed
  <2>1. CASE y \in Vars
    <3>1. z \in Names(vars[y]) BY <2>1 DEF Below
    <3>2. vars[y] # Obj(a) BY <2>1 DEF Private, Hidden
    <3> QED BY <3>1, <3>2, NamesObj
  <2>2. CASE y \notin Vars
    <3>1. y \in Objects /\ heap[y] # None /\ z \in heap[y].holds BY <2>2 DEF Below
    <3>2. z \in Vars \cup Objects BY <3>1 DEF IRTypeOK, Object
    <3> QED BY <3>1, <3>2 DEF Private, Hidden
  <2> QED BY <2>1, <2>2
<1> QED BY <1>1, <1>2 DEF Reach

\* What a callee returns or stores refers to what it reaches.
LEMMA ResultFacts ==
  ASSUME NEW R, R \subseteq Vars \cup Objects, NEW v \in Results(R)
  PROVE v \in Values /\ \A a \in Objects : a \notin R => v # Obj(a)
<1>1. CASE v \in Lits BY <1>1, LitsAssumption, OtherThanObj DEF Values
<1>2. CASE v \notin Lits
  <2>1. PICK y \in R : v = Handle(y) BY <1>2 DEF Results
  <2> QED BY <2>1, HandleFacts
<1> QED BY <1>1, <1>2

\* A step that gives no private array away, and leaves the lengths of the private ones,
\* keeps what the optimizer relies on.
LEMMA Discreet ==
  ASSUME Tracked, Allocated, lens' = lens,
         \A t \in Temps : lens[t] # None => temps'[t] = temps[t],
         \A a \in Objects : heap'[a] = None <=> heap[a] = None,
         \A a \in Objects : Private(a) =>
           /\ heap[a] # None => heap'[a].len = heap[a].len
           /\ \A t \in Temps : temps'[t] = temps[t] \/ temps'[t] # Obj(a)
           /\ \A x \in Vars : vars'[x] = vars[x] \/ vars'[x] # Obj(a)
           /\ \A b \in Objects : heap'[b] = heap[b] \/ a \notin heap'[b].holds
  PROVE Tracked' /\ Allocated'
<1>1. ASSUME NEW a \in Objects, NEW S \in SUBSET Temps, Hidden(a, S),
             \A t \in S : lens[t] # None
      PROVE Hidden(a, S)' /\ Private(a)
  <2>1. Private(a) BY <1>1 DEF Private, Hidden
  <2> QED BY <1>1, <2>1 DEF Hidden
<1>2. Tracked'
  <2> SUFFICES ASSUME NEW t \in Temps, lens[t] # None PROVE Tracks(t)'
    BY DEF Tracked
  <2>1. PICK a \in Objects : /\ temps[t] = Obj(a) /\ heap[a] # None
                            /\ heap[a].len = lens[t] /\ Hidden(a, {t})
    BY DEF Tracked, Tracks
  <2>2. Hidden(a, {t})' /\ Private(a) BY <1>1, <2>1
  <2>3. temps'[t] = Obj(a) /\ heap'[a] # None /\ heap'[a].len = lens'[t] BY <2>1, <2>2
  <2> QED BY <2>2, <2>3 DEF Tracks
<1>3. Allocated'
  <2> SUFFICES ASSUME NEW a \in Objects, heap'[a] = None PROVE Hidden(a, {})'
    BY DEF Allocated
  <2>1. Hidden(a, {}) BY DEF Allocated
  <2> QED BY <1>1, <2>1
<1> QED BY <1>2, <1>3

----------------------------------------------------------------------------
(* The steps *)

\* An instruction that does nothing but define a temporary.
LEMMA DefineInv ==
  ASSUME IRInv, NEW d \in Temps, Fresh(d), NEW v \in Values, NEW c,
         Define(d, v, c), c = None \/ (c = v /\ v \in Scalars),
         vars' = vars, heap' = heap, lens' = lens, out' = out,
         varConsts' \in [Vars -> Scalars \cup {None}],
         \A x \in Vars : varConsts'[x] \in {None, varConsts[x]},
         access' \in [index : Width, len : Nat] \cup {None}, UncheckedSafe',
         NEW S, d \in S, See(S),
         \A a \in Objects : Private(a) => v # Obj(a)
  PROVE IRInv'
<1> USE DEF IRInv
<1>1. lens[d] = None /\ consts[d] = None BY DEF Fresh, Noted
<1>2. IRTypeOK'
  <2>1. temps' \in [Temps -> Values] /\ consts' \in [Temps -> Scalars \cup {None}]
    BY DEF IRTypeOK, Define
  <2>2. seen' \subseteq Temps BY DEF IRTypeOK, See
  <2> QED BY <2>1, <2>2 DEF IRTypeOK
<1>3. ConstsTrue' BY DEF ConstsTrue, Define, IRTypeOK
<1>4. BranchSound' BY DEF BranchSound
<1>5. Noted' BY DEF Noted, Define, See, IRTypeOK
<1>6. Tracked' /\ Allocated'
  <2>1. \A t \in Temps \ {d} : temps'[t] = temps[t] BY DEF Define, IRTypeOK
  <2>2. temps'[d] = v BY DEF Define, IRTypeOK
  <2> QED BY <1>1, <2>1, <2>2, Discreet
<1> QED BY <1>2, <1>3, <1>4, <1>5, <1>6

\* What the untracked values of the frame do not mention.
LEMMA PrivateFacts ==
  ASSUME NEW a \in Objects, Private(a)
  PROVE /\ \A t \in Temps : Untracked({t}) => temps[t] # Obj(a)
        /\ \A x \in Vars : vars[x] # Obj(a)
        /\ \A b \in Objects : heap[b] # None => a \notin heap[b].holds
BY DEF Private, Hidden, Untracked

\* An operand that is not tracked refers to no private object.
LEMMA OperandPrivate ==
  ASSUME NEW a \in Objects, Private(a), NEW op \in Operands, Untracked({op})
  PROVE Val(op) # Obj(a)
<1>1. CASE op \in Temps BY <1>1, PrivateFacts DEF Val
<1>2. CASE op \notin Temps BY <1>2, LitsAssumption, OtherThanObj DEF Operands, Val
<1> QED BY <1>1, <1>2

\* Loading a variable.
LEMMA LoadVarInv ==
  ASSUME IRInv, NEW d \in Temps, NEW x \in Vars, LoadVar(d, x) PROVE IRInv'
<1>1. vars[x] \in Values /\ (varConsts[x] # None => vars[x] = varConsts[x])
      /\ varConsts[x] \in Scalars \cup {None}
  BY DEF IRInv, IRTypeOK, ConstsTrue, LoadVar
<1>2. varConsts' \in [Vars -> Scalars \cup {None}]
      /\ access' \in [index : Width, len : Nat] \cup {None} /\ UncheckedSafe'
  BY DEF IRInv, IRTypeOK, UncheckedSafe, LoadVar
<1> QED BY <1>1, <1>2, PrivateFacts, DefineInv DEF LoadVar

\* Taking the address of a variable forgets its constant.
LEMMA LoadAddrInv ==
  ASSUME IRInv, NEW d \in Temps, NEW x \in Vars, LoadAddr(d, x) PROVE IRInv'
<1>1. Ref(x) \in Values BY HandleType
<1>2. varConsts' \in [Vars -> Scalars \cup {None}]
      /\ access' \in [index : Width, len : Nat] \cup {None} /\ UncheckedSafe'
  BY DEF IRInv, IRTypeOK, UncheckedSafe, LoadAddr
<1>3. \A y \in Vars : varConsts'[y] \in {None, varConsts[y]}
  BY DEF IRInv, IRTypeOK, LoadAddr
<1> QED BY <1>1, <1>2, <1>3, OtherThanObj, DefineInv DEF LoadAddr

\* What a value of the frame stands for is allocated.
LEMMA ObjectOfAlloc ==
  ASSUME IRInv, NEW v, (\E t \in Temps : v = temps[t]) \/ (\E x \in Vars : v = vars[x]),
         ObjectOf(v) # None
  PROVE ObjectOf(v) \in Objects /\ heap[ObjectOf(v)] \in Object /\ heap[ObjectOf(v)] # None
<1>1. CASE v \in Objs
  <2>1. ObjectOf(v) = v.of /\ v.of \in Objects /\ v = Obj(v.of) BY <1>1, ObjsAre DEF ObjectOf
  <2>2. heap[v.of] # None BY <2>1 DEF IRInv, Allocated, Hidden
  <2> QED BY <2>1, <2>2 DEF IRInv, IRTypeOK
<1>2. CASE v \notin Objs
  <2> DEFINE y == v.of
  <2>1. v \in Refs /\ vars[y] \in Objs /\ ObjectOf(v) = vars[y].of BY <1>2 DEF ObjectOf
  <2>2. y \in Vars BY <2>1 DEF Refs
  <2>3. ObjectOf(v) \in Objects /\ vars[y] = Obj(ObjectOf(v)) BY <2>1, ObjsAre
  <2>4. heap[ObjectOf(v)] # None BY <2>2, <2>3 DEF IRInv, Allocated, Hidden
  <2> QED BY <2>3, <2>4 DEF IRInv, IRTypeOK
<1> QED BY <1>1, <1>2

\* What is read from an object is no reference to a private one.
LEMMA ContentsFacts ==
  ASSUME IRInv, NEW b \in Objects, heap[b] # None, NEW v \in Contents(b)
  PROVE v \in Values /\ \A a \in Objects : Private(a) => v # Obj(a)
<1>1. CASE v \in Lits BY <1>1, LitsAssumption, OtherThanObj DEF Values
<1>2. CASE v \notin Lits
  <2>1. PICK y \in heap[b].holds : v = Handle(y) BY <1>2 DEF Contents
  <2>2. y \in Vars \cup Objects BY DEF IRInv, IRTypeOK, Object
  <2>3. \A a \in Objects : Private(a) => a # y BY PrivateFacts
  <2> QED BY <2>1, <2>2, <2>3, HandleFacts
<1> QED BY <1>1, <1>2

\* Storing into an object keeps its length, and gives away only what is stored.
LEMMA PutFacts ==
  ASSUME IRInv, NEW b \in Objects, heap[b] # None, NEW v, Put(b, v)
  PROVE /\ heap' \in [Objects -> Object \cup {None}]
        /\ \A a \in Objects : heap'[a] = None <=> heap[a] = None
        /\ \A a \in Objects : heap[a] # None => heap'[a].len = heap[a].len
        /\ \A a \in Objects : Private(a) /\ v # Obj(a) =>
             \A c \in Objects : heap'[c] = heap[c] \/ a \notin heap'[c].holds
<1> DEFINE r == [heap[b] EXCEPT !.holds = heap[b].holds \cup Names(v)]
<1>1. heap' = [heap EXCEPT ![b] = r] BY DEF Put
<1>2. heap[b] \in Object BY DEF IRInv, IRTypeOK
<1>3. Names(v) \subseteq Vars \cup Objects BY NamesObj
<1>4. r \in Object /\ r.len = heap[b].len /\ r.holds = heap[b].holds \cup Names(v)
  BY <1>2, <1>3 DEF Object
<1> HIDE DEF r
<1>5. heap'[b] = r /\ (\A a \in Objects \ {b} : heap'[a] = heap[a])
      /\ heap' \in [Objects -> Object \cup {None}]
  BY <1>1, <1>4 DEF IRInv, IRTypeOK
<1>6. r # None BY <1>4, NoneAssumption
<1>7. ASSUME NEW a \in Objects, Private(a), v # Obj(a) PROVE a \notin r.holds
  <2>1. a \notin heap[b].holds BY <1>7, PrivateFacts
  <2>2. a \notin Names(v) BY <1>7, NamesObj
  <2> QED BY <2>1, <2>2, <1>4
<1> QED BY <1>4, <1>5, <1>6, <1>7

\* Loading through a reference.
LEMMA LoadRefInv ==
  ASSUME IRInv, NEW d \in Temps, NEW t \in Temps, LoadRef(d, t) PROVE IRInv'
<1>1. PICK v \in Loads(temps[t]) : Define(d, v, None) BY DEF LoadRef
<1>2. v \in Values /\ \A a \in Objects : Private(a) => v # Obj(a)
  <2>1. CASE temps[t] \in Refs
    <3>1. temps[t].of \in Vars /\ v = vars[temps[t].of] /\ v # None BY <2>1 DEF Loads, Refs
    <3> QED BY <3>1, PrivateFacts DEF IRInv, IRTypeOK
  <2>2. CASE temps[t] \notin Refs
    <3> DEFINE x == temps[t].of
               b == ObjectOf(vars[x])
    <3>1. temps[t] \in Parts /\ b # None /\ v \in Contents(b) BY <2>2 DEF Loads
    <3>2. x \in Vars BY <3>1 DEF Parts
    <3>3. b \in Objects /\ heap[b] # None BY <3>1, <3>2, ObjectOfAlloc
    <3> QED BY <3>1, <3>3, ContentsFacts
  <2> QED BY <2>1, <2>2
<1>3. varConsts' \in [Vars -> Scalars \cup {None}]
      /\ access' \in [index : Width, len : Nat] \cup {None} /\ UncheckedSafe'
  BY DEF IRInv, IRTypeOK, UncheckedSafe, LoadRef
<1> QED BY <1>1, <1>2, <1>3, DefineInv DEF LoadRef

\* A folded operation gives what the interpreter computes.
LEMMA BinOpInv ==
  ASSUME IRInv, Plain, NEW d \in Temps, NEW op, NEW l \in Operands, NEW r \in Operands,
         BinOp(d, op, l, r)
  PROVE IRInv'
<1> DEFINE v == Eval(op, Val(l), Val(r))
           c == IF Known(l) # None /\ Known(r) # None THEN Fold(op, Known(l), Known(r)) ELSE None
<1>1. Val(l) \in Scalars /\ Val(r) \in Scalars BY DEF BinOp
<1>2. v \in Scalars BY <1>1, EvalType DEF BinOp
<1>3. c = None \/ c = v
  <2> SUFFICES ASSUME c # None PROVE c = v OBVIOUS
  <2>1. Known(l) # None /\ Known(r) # None /\ c = Fold(op, Known(l), Known(r)) OBVIOUS
  <2>2. Known(l) = Val(l) /\ Known(r) = Val(r) BY <2>1, KnownVal DEF IRInv
  <2> QED BY <1>1, <2>1, <2>2, FoldSound
<1>4. varConsts' \in [Vars -> Scalars \cup {None}]
      /\ access' \in [index : Width, len : Nat] \cup {None} /\ UncheckedSafe'
  BY DEF IRInv, IRTypeOK, UncheckedSafe, BinOp
<1>5. Fresh(d) /\ Define(d, v, c) /\ See({d, l, r}) /\ vars' = vars /\ heap' = heap
      /\ lens' = lens /\ out' = out /\ varConsts' = varConsts
  BY DEF BinOp
<1>6. v \in Values BY <1>2 DEF Values
<1> HIDE DEF v, c
<1> QED BY <1>2, <1>3, <1>4, <1>5, <1>6, OtherThanObj, DefineInv

\* Reading a field.
LEMMA GetFieldInv ==
  ASSUME IRInv, NEW d \in Temps, NEW s \in Temps, GetField(d, s) PROVE IRInv'
<1> DEFINE b == ObjectOf(temps[s])
<1>1. PICK v \in Contents(b) : Define(d, v, None) BY DEF GetField
<1>2. b \in Objects /\ heap[b] # None BY ObjectOfAlloc DEF GetField, IsStruct
<1>3. v \in Values /\ \A a \in Objects : Private(a) => v # Obj(a) BY <1>2, ContentsFacts
<1>4. varConsts' \in [Vars -> Scalars \cup {None}]
      /\ access' \in [index : Width, len : Nat] \cup {None} /\ UncheckedSafe'
  BY DEF IRInv, IRTypeOK, UncheckedSafe, GetField
<1> QED BY <1>1, <1>3, <1>4, DefineInv DEF GetField

\* Taking the address of a field or an element.
LEMMA PartAddrInv ==
  ASSUME IRInv, NEW d \in Temps, NEW t \in Temps, PartAddr(d, t) PROVE IRInv'
<1> DEFINE v == Part(temps[t].of)
<1>1. consts[d] = None BY DEF IRInv, Noted, PartAddr, Fresh
<1>2. Define(d, v, None) BY <1>1 DEF PartAddr, Define, tables, IRInv, IRTypeOK
<1>3. v \in Values BY HandleType DEF PartAddr, Refs
<1>4. varConsts' \in [Vars -> Scalars \cup {None}]
      /\ access' \in [index : Width, len : Nat] \cup {None} /\ UncheckedSafe'
  BY DEF IRInv, IRTypeOK, UncheckedSafe, PartAddr, tables
<1>5. \A a \in Objects : v # Obj(a) BY OtherThanObj
<1> HIDE DEF v
<1> QED BY <1>2, <1>3, <1>4, <1>5, DefineInv DEF PartAddr, tables

\* An unchecked access is in bounds: the index is the constant the optimizer knows, and
\* the array has the length its table says.
LEMMA AccessInv ==
  ASSUME IRInv, NEW t \in Temps, NEW i \in Operands, AccessAt(t, i)
  PROVE access' \in [index : Width, len : Nat] \cup {None} /\ UncheckedSafe'
<1>1. CASE access' = access BY <1>1 DEF IRInv, IRTypeOK, UncheckedSafe
<1>2. CASE access' # access
  <2> DEFINE b == ObjectOf(temps[t])
  <2>1. /\ Val(i) \in Ints /\ Unchecked(t, i)
        /\ access' = [index |-> Val(i).n, len |-> heap[b].len]
    BY <1>2 DEF AccessAt
  <2>2. Known(i) = Val(i)
    BY <2>1, KnownVal, Kinds DEF Unchecked, IRInv, Scalars
  <2>3. lens[t] # None /\ lens[t] \in Nat BY <2>1 DEF Unchecked, IRInv, IRTypeOK
  <2>4. PICK a \in Objects : temps[t] = Obj(a) /\ heap[a].len = lens[t]
    BY <2>3 DEF IRInv, Tracked, Tracks
  <2>5. b = a BY <2>4, HandleFields DEF ObjectOf, Objs, Obj
  <2>6. InBounds(Val(i).n, heap[b].len) BY <2>1, <2>2, <2>4, <2>5 DEF Unchecked
  <2>7. Val(i).n \in Width BY <2>1, IntFields
  <2> QED BY <2>1, <2>3, <2>4, <2>5, <2>6, <2>7 DEF UncheckedSafe
<1> QED BY <1>1, <1>2

\* Reading an element.
LEMMA IndexInv ==
  ASSUME IRInv, NEW d \in Temps, NEW t \in Temps, NEW i \in Operands, Index(d, t, i)
  PROVE IRInv'
<1> DEFINE b == ObjectOf(temps[t])
<1>1. PICK v \in Contents(b) : Define(d, v, None) BY DEF Index
<1>2. b \in Objects /\ heap[b] # None BY ObjectOfAlloc DEF Index, AccessAt, IsArray
<1>3. v \in Values /\ \A a \in Objects : Private(a) => v # Obj(a) BY <1>2, ContentsFacts
<1>4. varConsts' \in [Vars -> Scalars \cup {None}] BY DEF IRInv, IRTypeOK, Index
<1>5. access' \in [index : Width, len : Nat] \cup {None} /\ UncheckedSafe'
  BY AccessInv DEF Index
<1> HIDE DEF b
<1> QED BY <1>1, <1>3, <1>4, <1>5, DefineInv DEF Index

\* An instruction that does nothing but store into an object.
LEMMA PutInv ==
  ASSUME IRInv, NEW b \in Objects, heap[b] # None, NEW src \in Operands, Untracked({src}),
         Put(b, Val(src)), NEW S, seen' = seen \cup (S \cap Temps),
         temps' = temps, vars' = vars, consts' = consts, varConsts' = varConsts,
         lens' = lens, out' = out,
         access' \in [index : Width, len : Nat] \cup {None}, UncheckedSafe'
  PROVE IRInv'
<1>1. heap' \in [Objects -> Object \cup {None}] BY PutFacts
<1>2. IRTypeOK' BY <1>1 DEF IRInv, IRTypeOK
<1>3. ConstsTrue' /\ BranchSound' /\ Noted' BY DEF IRInv, ConstsTrue, BranchSound, Noted
<1>4. \A a \in Objects : Private(a) => Val(src) # Obj(a) BY OperandPrivate
<1>5. Tracked' /\ Allocated'
  <2>1. \A a \in Objects : heap'[a] = None <=> heap[a] = None BY PutFacts
  <2>2. \A a \in Objects : heap[a] # None => heap'[a].len = heap[a].len BY PutFacts
  <2>3. \A a \in Objects : Private(a) =>
          \A c \in Objects : heap'[c] = heap[c] \/ a \notin heap'[c].holds
    BY <1>4, PutFacts
  <2> QED BY <2>1, <2>2, <2>3, Discreet DEF IRInv
<1> QED BY <1>2, <1>3, <1>5 DEF IRInv

\* Storing into an element.
LEMMA SetIndexInv ==
  ASSUME IRInv, Plain, NEW t \in Temps, NEW i \in Operands, NEW src \in Operands,
         SetIndex(t, i, src)
  PROVE IRInv'
<1> DEFINE b == ObjectOf(temps[t])
<1>1. b \in Objects /\ heap[b] # None BY ObjectOfAlloc DEF SetIndex, AccessAt, IsArray
<1>2. Untracked({src}) BY DEF SetIndex, Plain
<1>3. Put(b, Val(src)) BY DEF SetIndex
<1>4. access' \in [index : Width, len : Nat] \cup {None} /\ UncheckedSafe'
  BY AccessInv DEF SetIndex
<1>5. temps' = temps /\ vars' = vars /\ consts' = consts /\ varConsts' = varConsts
      /\ lens' = lens /\ out' = out /\ seen' = seen \cup ({t, i, src} \cap Temps)
  BY DEF SetIndex, See
<1> HIDE DEF b
<1> QED BY <1>1, <1>2, <1>3, <1>4, <1>5, PutInv

\* Storing into a field.
LEMMA SetFieldInv ==
  ASSUME IRInv, NEW s \in Temps, NEW src \in Operands, SetField(s, src) PROVE IRInv'
<1> DEFINE b == ObjectOf(temps[s])
<1>1. b \in Objects /\ heap[b] # None BY ObjectOfAlloc DEF SetField, IsStruct
<1>2. Untracked({src}) BY DEF SetField, Untracked
<1>3. Put(b, Val(src)) BY DEF SetField
<1>4. access' \in [index : Width, len : Nat] \cup {None} /\ UncheckedSafe'
  BY DEF SetField, IRInv, IRTypeOK, UncheckedSafe
<1>5. temps' = temps /\ vars' = vars /\ consts' = consts /\ varConsts' = varConsts
      /\ lens' = lens /\ out' = out /\ seen' = seen \cup ({s, src} \cap Temps)
  BY DEF SetField, See, tables
<1> HIDE DEF b
<1> QED BY <1>1, <1>2, <1>3, <1>4, <1>5, PutInv

\* A store notes the constant stored, or forgets the variable.
LEMMA StoreVarInv ==
  ASSUME IRInv, NEW x \in Vars, NEW src \in Operands, StoreVar(x, src) PROVE IRInv'
<1>1. Val(src) \in Values /\ Known(src) \in Scalars \cup {None}
  BY OperandType DEF IRInv
<1>2. Known(src) # None => Val(src) = Known(src) BY KnownVal DEF IRInv
<1>3. vars' \in [Vars -> Values \cup {None}] /\ varConsts' \in [Vars -> Scalars \cup {None}]
      /\ vars'[x] = Val(src) /\ varConsts'[x] = Known(src)
      /\ \A y \in Vars \ {x} : vars'[y] = vars[y] /\ varConsts'[y] = varConsts[y]
  BY <1>1 DEF StoreVar, IRInv, IRTypeOK
<1>4. temps' = temps /\ heap' = heap /\ consts' = consts /\ lens' = lens /\ access' = access
      /\ out' = out /\ seen' = seen \cup ({src} \cap Temps)
  BY DEF StoreVar, See
<1>5. IRTypeOK' BY <1>3, <1>4 DEF IRInv, IRTypeOK
<1>6. ConstsTrue' BY <1>2, <1>3, <1>4 DEF IRInv, ConstsTrue
<1>7. BranchSound' /\ UncheckedSafe' /\ Noted'
  BY <1>4 DEF IRInv, BranchSound, UncheckedSafe, Noted
<1>8. \A a \in Objects : Private(a) => vars'[x] # Obj(a)
  BY <1>3, OperandPrivate DEF StoreVar
<1>9. Tracked' /\ Allocated' BY <1>3, <1>4, <1>8, Discreet DEF IRInv
<1> QED BY <1>5, <1>6, <1>7, <1>9 DEF IRInv

\* A store through a reference forgets all variables.
LEMMA StoreRefInv ==
  ASSUME IRInv, NEW t \in Temps, NEW src \in Operands, StoreRef(t, src) PROVE IRInv'
<1> DEFINE v == Val(src)
           x == temps[t].of
           b == ObjectOf(vars[x])
<1>1. v \in Values BY OperandType DEF IRInv
<1>2. temps' = temps /\ consts' = consts /\ lens' = lens /\ access' = access
      /\ out' = out /\ seen' = seen \cup ({t, src} \cap Temps)
      /\ varConsts' = [y \in Vars |-> None]
  BY DEF StoreRef, See
<1>3. \A a \in Objects : Private(a) => v # Obj(a)
  <2>1. Untracked({src}) BY DEF StoreRef, Untracked
  <2> QED BY <2>1, OperandPrivate
\* Either way one variable changes, and nothing private is given away.
<1>4. /\ vars' \in [Vars -> Values \cup {None}]
      /\ heap' \in [Objects -> Object \cup {None}]
      /\ \A a \in Objects : heap'[a] = None <=> heap[a] = None
      /\ \A a \in Objects : heap[a] # None => heap'[a].len = heap[a].len
      /\ \A a \in Objects : Private(a) =>
           /\ \A y \in Vars : vars'[y] = vars[y] \/ vars'[y] # Obj(a)
           /\ \A c \in Objects : heap'[c] = heap[c] \/ a \notin heap'[c].holds
  <2>1. CASE temps[t] \in Refs
    <3>1. x \in Vars BY <2>1 DEF Refs
    <3>2. temps[t] \notin Parts BY <2>1 DEF Refs, Parts
    <3>3. vars' = [vars EXCEPT ![x] = v] /\ heap' = heap
      BY <3>2 DEF StoreRef, StoreThrough
    <3> HIDE DEF v
    <3> QED BY <1>1, <1>3, <3>1, <3>3 DEF IRInv, IRTypeOK
  <2>2. CASE temps[t] \notin Refs
    <3>1. temps[t] \in Parts /\ b # None /\ Put(b, v)
          /\ vars' = [vars EXCEPT ![x] = Obj(b)]
      BY <2>2 DEF StoreRef, StoreThrough
    <3>2. x \in Vars BY <3>1 DEF Parts
    <3>3. b \in Objects /\ heap[b] # None BY <3>1, <3>2, ObjectOfAlloc
    <3>4. \A a \in Objects : Private(a) => Obj(b) # Obj(a)
      <4> SUFFICES ASSUME NEW a \in Objects, Private(a), b = a PROVE FALSE
        BY <3>3, OtherThanObj
      <4>1. \A y \in Vars : vars[y] # Obj(b) BY PrivateFacts
      <4>2. \E y \in Vars : vars[y] = Obj(b)
        <5>1. CASE vars[x] \in Objs BY <5>1, <3>2, ObjsAre DEF ObjectOf
        <5>2. CASE vars[x] \notin Objs
          <6>1. vars[x] \in Refs /\ vars[vars[x].of] \in Objs /\ b = vars[vars[x].of].of
            BY <5>2, <3>1 DEF ObjectOf
          <6>2. vars[x].of \in Vars BY <6>1 DEF Refs
          <6> QED BY <6>1, <6>2, ObjsAre
        <5> QED BY <5>1, <5>2
      <4> QED BY <4>1, <4>2
    <3>5. Obj(b) \in Values BY <3>3, HandleType
    <3> HIDE DEF v, b, x
    <3>6. vars' \in [Vars -> Values \cup {None}]
          /\ \A y \in Vars : vars'[y] = vars[y] \/ vars'[y] = Obj(b)
      BY <3>1, <3>2, <3>5 DEF IRInv, IRTypeOK
    <3>7. heap' \in [Objects -> Object \cup {None}]
          /\ \A a \in Objects : heap'[a] = None <=> heap[a] = None
      BY <3>1, <3>3, PutFacts
    <3>8. \A a \in Objects : heap[a] # None => heap'[a].len = heap[a].len
      BY <3>1, <3>3, PutFacts
    <3>9. \A a \in Objects : Private(a) =>
            \A c \in Objects : heap'[c] = heap[c] \/ a \notin heap'[c].holds
      BY <1>3, <3>1, <3>3, PutFacts
    <3> QED BY <3>4, <3>6, <3>7, <3>8, <3>9
  <2> QED BY <2>1, <2>2
<1>5. IRTypeOK' BY <1>2, <1>4 DEF IRInv, IRTypeOK
<1>6. ConstsTrue' BY <1>2 DEF IRInv, ConstsTrue
<1>7. BranchSound' /\ UncheckedSafe' /\ Noted'
  BY <1>2 DEF IRInv, BranchSound, UncheckedSafe, Noted
<1>8. Tracked' /\ Allocated' BY <1>2, <1>4, Discreet DEF IRInv
<1> QED BY <1>5, <1>6, <1>7, <1>8 DEF IRInv

\* Whatever a callee does with what it reaches, private arrays stay as they are.
LEMMA CalleeFacts ==
  ASSUME IRInv, NEW A \in SUBSET Temps, Untracked(A), NEW v, CalleeEffect(Reach(A), v)
  PROVE /\ vars' \in [Vars -> Values \cup {None}]
        /\ \A x \in Vars : x \notin Reach(A) => vars'[x] = vars[x]
        /\ heap' \in [Objects -> Object \cup {None}]
        /\ \A a \in Objects : heap'[a] = None <=> heap[a] = None
        /\ v \in Values
        /\ \A a \in Objects : a \notin Reach(A) =>
             /\ heap'[a] = heap[a] /\ v # Obj(a)
             /\ \A x \in Vars : vars'[x] = vars[x] \/ vars'[x] # Obj(a)
             /\ \A b \in Objects : heap'[b] = heap[b] \/ a \notin heap'[b].holds
                                  \/ (heap[b] # None /\ a \in heap[b].holds)
<1> DEFINE R == Reach(A)
<1>1. R \subseteq Vars \cup Objects BY DEF Reach
<1>2. PICK W \in SUBSET (R \cap Vars), w \in Results(R) :
        vars' = [x \in Vars |-> IF x \in W THEN w ELSE vars[x]]
  BY DEF CalleeEffect
<1>3. PICK G \in SUBSET (R \cap Objects), n \in 0..MaxLen :
        heap' = [a \in Objects |-> IF a \in G THEN Altered(heap[a], n, R) ELSE heap[a]]
  BY DEF CalleeEffect
<1>4. v \in Results(R) BY DEF CalleeEffect
<1>5. \A a \in R \cap Objects : heap[a] # None
  <2> SUFFICES ASSUME NEW a \in R \cap Objects, heap[a] = None PROVE FALSE OBVIOUS
  <2>1. Hidden(a, {}) BY DEF IRInv, Allocated
  <2>2. Private(a) BY <2>1 DEF Private, Hidden
  <2> QED BY <2>2, ReachPrivate DEF IRInv
<1> HIDE DEF R
<1>6. v \in Values /\ \A a \in Objects : a \notin R => v # Obj(a)
  BY <1>1, <1>4, ResultFacts
<1>7. w \in Values /\ \A a \in Objects : a \notin R => w # Obj(a)
  BY <1>1, <1>2, ResultFacts
<1>8. vars' \in [Vars -> Values \cup {None}] BY <1>2, <1>7 DEF IRInv, IRTypeOK
<1>9. \A x \in Vars : vars'[x] = (IF x \in W THEN w ELSE vars[x]) BY <1>2
<1>10. ASSUME NEW a \in G
       PROVE /\ heap'[a] \in Object /\ heap'[a] # None
             /\ heap'[a].holds = heap[a].holds \cup R
  <2>1. heap[a] \in Object BY <1>3, <1>5 DEF IRInv, IRTypeOK
  <2>2. heap'[a] = Altered(heap[a], n, R) BY <1>3
  <2>3. n \in Nat BY BoundsAssumption
  <2>4. heap[a].holds \cup R \in SUBSET (Vars \cup Objects) BY <1>1, <2>1 DEF Object
  <2>5. heap'[a] \in Object BY <2>2, <2>3, <2>4 DEF Object, Altered
  <2> QED BY <2>2, <2>5, NoneAssumption DEF Altered
<1>11. \A a \in Objects : a \notin G => heap'[a] = heap[a] BY <1>3
<1>12. heap' \in [Objects -> Object \cup {None}]
  <2>1. \A a \in Objects : heap'[a] \in Object \cup {None}
    BY <1>10, <1>11 DEF IRInv, IRTypeOK
  <2>2. heap' = [a \in Objects |-> heap'[a]] BY <1>3
  <2> QED BY <2>1, <2>2
<1>13. \A a \in Objects : heap'[a] = None <=> heap[a] = None
  BY <1>3, <1>5, <1>10, <1>11
<1>14. ASSUME NEW a \in Objects, a \notin R
       PROVE /\ heap'[a] = heap[a]
             /\ \A x \in Vars : vars'[x] = vars[x] \/ vars'[x] # Obj(a)
             /\ \A b \in Objects : heap'[b] = heap[b] \/ a \notin heap'[b].holds
                                  \/ (heap[b] # None /\ a \in heap[b].holds)
  <2>1. heap'[a] = heap[a] BY <1>3, <1>11, <1>14
  <2>2. \A x \in Vars : vars'[x] = vars[x] \/ vars'[x] # Obj(a) BY <1>7, <1>9, <1>14
  <2>3. ASSUME NEW b \in Objects
        PROVE heap'[b] = heap[b] \/ a \notin heap'[b].holds
              \/ (heap[b] # None /\ a \in heap[b].holds)
    <3>1. CASE b \in G BY <3>1, <1>3, <1>5, <1>10, <1>14
    <3>2. CASE b \notin G BY <3>2, <1>11
    <3> QED BY <3>1, <3>2
  <2> QED BY <2>1, <2>2, <2>3
<1>15. \A x \in Vars : x \notin R => vars'[x] = vars[x] BY <1>9
<1> QED BY <1>6, <1>8, <1>12, <1>13, <1>14, <1>15 DEF R

\* The part of a call's proof that does not depend on the optimizer's tables.
LEMMA CallTracked ==
  ASSUME IRInv, NEW A \in SUBSET Temps, Untracked(A), NEW d \in Temps, Fresh(d), NEW v,
         CalleeEffect(Reach(A), v), temps' = [temps EXCEPT ![d] = v], lens' = lens
  PROVE Tracked' /\ Allocated'
<1>1. lens[d] = None BY DEF IRInv, Noted, Fresh
<1>2. temps'[d] = v /\ \A t \in Temps \ {d} : temps'[t] = temps[t] BY DEF IRInv, IRTypeOK
<1>3. \A a \in Objects : heap'[a] = None <=> heap[a] = None BY CalleeFacts
<1>4. ASSUME NEW a \in Objects, Private(a)
      PROVE /\ heap'[a] = heap[a] /\ v # Obj(a)
            /\ \A x \in Vars : vars'[x] = vars[x] \/ vars'[x] # Obj(a)
            /\ \A b \in Objects : heap'[b] = heap[b] \/ a \notin heap'[b].holds
  <2>1. a \notin Reach(A) BY <1>4, ReachPrivate DEF IRInv
  <2>2. \A b \in Objects : ~(heap[b] # None /\ a \in heap[b].holds) BY <1>4, PrivateFacts
  <2> QED BY <2>1, <2>2, CalleeFacts
<1> QED BY <1>1, <1>2, <1>3, <1>4, Discreet DEF IRInv

\* Calls forget all variables, so whatever the callee stored, nothing false is kept.
LEMMA CallInv ==
  ASSUME IRInv, NEW d \in Temps, NEW A \in SUBSET Temps, Call(d, A) PROVE IRInv'
<1>1. PICK v : CalleeEffect(Reach(A), v) /\ Define(d, v, None) BY DEF Call
<1>2. lens' = lens /\ access' = access /\ out' = out /\ varConsts' = [x \in Vars |-> None]
      /\ seen' = seen \cup ((A \cup {d}) \cap Temps) /\ Fresh(d) /\ Untracked(A)
      /\ temps' = [temps EXCEPT ![d] = v] /\ consts' = [consts EXCEPT ![d] = None]
  BY <1>1 DEF Call, See, Define
<1>3. vars' \in [Vars -> Values \cup {None}] /\ heap' \in [Objects -> Object \cup {None}]
      /\ v \in Values
  BY <1>1, <1>2, CalleeFacts
<1>4. IRTypeOK' BY <1>2, <1>3 DEF IRInv, IRTypeOK
<1>5. ConstsTrue' BY <1>2 DEF IRInv, IRTypeOK, ConstsTrue
<1>6. BranchSound' /\ UncheckedSafe' BY <1>2 DEF IRInv, BranchSound, UncheckedSafe
<1>7. Noted' BY <1>2 DEF IRInv, IRTypeOK, Noted
<1>8. Tracked' /\ Allocated' BY <1>1, <1>2, CallTracked
<1> QED BY <1>4, <1>5, <1>6, <1>7, <1>8 DEF IRInv

\* A closure that reaches no variable of known value leaves the tables true.
LEMMA CallClosureInv ==
  ASSUME IRInv, Plain, NEW d \in Temps, NEW c \in Temps, NEW A \in SUBSET Temps,
         CallClosure(d, c, A)
  PROVE IRInv'
<1> DEFINE B == A \cup {c}
<1>0. B \in SUBSET Temps OBVIOUS
<1>1. PICK v : CalleeEffect(Reach(B), v) /\ temps' = [temps EXCEPT ![d] = v] BY DEF CallClosure
<1>2. lens' = lens /\ access' = access /\ out' = out /\ varConsts' = varConsts
      /\ consts' = consts /\ seen' = seen \cup ((A \cup {c, d}) \cap Temps) /\ Fresh(d)
  BY DEF CallClosure, See, tables
<1>3. Untracked(B) /\ \A x \in Reach(B) \cap Vars : varConsts[x] = None
  BY DEF CallClosure, Plain
<1> HIDE DEF B
<1>4. vars' \in [Vars -> Values \cup {None}] /\ heap' \in [Objects -> Object \cup {None}]
      /\ v \in Values /\ \A x \in Vars : x \notin Reach(B) => vars'[x] = vars[x]
  BY <1>0, <1>1, <1>3, CalleeFacts
<1>5. IRTypeOK' BY <1>1, <1>2, <1>4 DEF IRInv, IRTypeOK
<1>6. consts[d] = None BY <1>2 DEF IRInv, Noted, Fresh
<1>7. ConstsTrue'
  <2>1. \A x \in Vars : varConsts'[x] # None => vars'[x] = varConsts'[x]
    BY <1>2, <1>3, <1>4 DEF IRInv, ConstsTrue
  <2>2. \A t \in Temps : consts'[t] # None => temps'[t] = consts'[t]
    BY <1>1, <1>2, <1>6 DEF IRInv, IRTypeOK, ConstsTrue
  <2> QED BY <2>1, <2>2 DEF ConstsTrue
<1>8. BranchSound' /\ UncheckedSafe' /\ Noted'
  BY <1>2 DEF IRInv, BranchSound, UncheckedSafe, Noted
<1>9. Tracked' /\ Allocated' BY <1>0, <1>1, <1>2, <1>3, CallTracked
<1> QED BY <1>5, <1>7, <1>8, <1>9 DEF IRInv

\* A step that defines d as a new object that holds what the untracked temporaries E refer to.
LEMMA AllocateInv ==
  ASSUME IRInv, NEW d \in Temps, NEW E \in SUBSET Temps, Fresh(d), Untracked(E),
         NEW n \in Nat \cup {None}, Allocate(d, [len |-> n, holds |-> Roots(E)]),
         NEW m \in {n, None}, lens' = [lens EXCEPT ![d] = m],
         vars' = vars, varConsts' = varConsts, access' = access, out' = out, See(E \cup {d})
  PROVE IRInv'
<1>1. PICK a \in Objects :
        /\ heap[a] = None
        /\ heap' = [heap EXCEPT ![a] = [len |-> n, holds |-> Roots(E)]]
        /\ Define(d, Obj(a), None)
  BY DEF Allocate
<1>2. temps'[d] = Obj(a) /\ (\A t \in Temps \ {d} : temps'[t] = temps[t])
      /\ temps' \in [Temps -> Values]
      /\ consts'[d] = None /\ (\A t \in Temps \ {d} : consts'[t] = consts[t])
      /\ consts' \in [Temps -> Scalars \cup {None}]
  BY <1>1, HandleType DEF Define, IRInv, IRTypeOK
<1>3. lens' \in [Temps -> Nat \cup {None}] /\ lens'[d] = m
      /\ (\A t \in Temps \ {d} : lens'[t] = lens[t])
  BY DEF IRInv, IRTypeOK
<1>4. seen' = seen \cup ((E \cup {d}) \cap Temps) BY DEF See
<1>5. Roots(E) \subseteq Vars \cup Objects BY NamesObj DEF Roots
<1>6. [len |-> n, holds |-> Roots(E)] \in Object BY <1>5 DEF Object
<1>7. heap' \in [Objects -> Object \cup {None}] /\ heap'[a] # None /\ heap'[a].len = n
      /\ heap'[a].holds = Roots(E)
      /\ \A b \in Objects \ {a} : heap'[b] = heap[b]
  BY <1>1, <1>6, NoneAssumption DEF IRInv, IRTypeOK
<1>8. IRTypeOK' BY <1>2, <1>3, <1>4, <1>7 DEF IRInv, IRTypeOK
<1>9. ConstsTrue' BY <1>2 DEF IRInv, ConstsTrue
<1>10. BranchSound' /\ UncheckedSafe' BY DEF IRInv, BranchSound, UncheckedSafe
<1>11. Noted' BY <1>2, <1>3, <1>4 DEF IRInv, Noted
\* What nothing refers to but tracked temporaries, the new object does not hold.
<1>12. ASSUME NEW b \in Objects, Private(b) PROVE b \notin heap'[a].holds
  <2> SUFFICES ASSUME NEW t \in E, b \in Names(temps[t]) PROVE FALSE
    BY <1>7 DEF Roots
  <2>1. temps[t] = Obj(b) BY NamesObj
  <2>2. lens[t] = None BY DEF Untracked
  <2> QED BY <2>1, <2>2, <1>12 DEF Private, Hidden
<1>13. ASSUME NEW b \in Objects, NEW S \in SUBSET Temps, Hidden(b, S), Private(b), d \notin S
       PROVE Hidden(b, S \cup {d})' /\ (b # a => Hidden(b, S)')
  <2>1. \A x \in Vars : vars'[x] # Obj(b) BY <1>13 DEF Hidden
  <2>2. \A c \in Objects : heap'[c] # None => b \notin heap'[c].holds
    BY <1>7, <1>12, <1>13 DEF Hidden
  <2>3. \A t \in Temps \ (S \cup {d}) : temps'[t] # Obj(b) BY <1>2, <1>13 DEF Hidden
  <2>4. b # a => temps'[d] # Obj(b) BY <1>2, OtherThanObj
  <2> QED BY <2>1, <2>2, <2>3, <2>4 DEF Hidden
<1>14. lens'[d] # None => Tracks(d)'
  <2>1. Hidden(a, {}) BY <1>1 DEF IRInv, Allocated
  <2>2. Private(a) BY <2>1 DEF Private, Hidden
  <2>3. Hidden(a, {} \cup {d})' BY <1>13, <2>1, <2>2
  <2>4. {} \cup {d} = {d} OBVIOUS
  <2>5. Hidden(a, {d})' BY <2>3, <2>4
  <2>6. lens'[d] # None => lens'[d] = n BY <1>3
  <2> QED BY <1>2, <1>7, <2>5, <2>6 DEF Tracks
<1>15. Tracked'
  <2> SUFFICES ASSUME NEW t \in Temps, lens'[t] # None PROVE Tracks(t)'
    BY DEF Tracked
  <2>1. CASE t = d BY <1>14, <2>1
  <2>2. CASE t # d
    <3>1. lens[t] # None BY <1>3, <2>2
    <3>2. PICK b \in Objects : /\ temps[t] = Obj(b) /\ heap[b] # None
                               /\ heap[b].len = lens[t] /\ Hidden(b, {t})
      BY <3>1 DEF IRInv, Tracked, Tracks
    <3>3. Private(b) BY <3>1, <3>2 DEF Private, Hidden
    <3>4. b # a BY <1>1, <3>2
    <3>5. Hidden(b, {t})' BY <1>13, <2>2, <3>2, <3>3, <3>4
    <3> QED BY <1>2, <1>3, <1>7, <2>2, <3>2, <3>4, <3>5 DEF Tracks
  <2> QED BY <2>1, <2>2
<1>16. Allocated'
  <2> SUFFICES ASSUME NEW b \in Objects, heap'[b] = None PROVE Hidden(b, {})'
    BY DEF Allocated
  <2>1. b # a /\ heap[b] = None BY <1>7
  <2>2. Hidden(b, {}) BY <2>1 DEF IRInv, Allocated
  <2>3. Private(b) BY <2>2 DEF Private, Hidden
  <2> QED BY <1>13, <2>1, <2>2, <2>3
<1> QED BY <1>8, <1>9, <1>10, <1>11, <1>15, <1>16 DEF IRInv

\* A new array, tracked or not.
LEMMA MakeArrayInv ==
  ASSUME IRInv, Plain, NEW d \in Temps, NEW n \in 0..MaxLen, NEW E \in SUBSET Temps,
         MakeArray(d, n, E)
  PROVE IRInv'
<1>1. PICK safe \in BOOLEAN : lens' = [lens EXCEPT ![d] = IF safe THEN n ELSE None]
  BY DEF MakeArray
<1>2. PICK m \in {n, None} : lens' = [lens EXCEPT ![d] = m]
  BY <1>1
<1>3. n \in Nat \cup {None} BY BoundsAssumption
<1> QED BY <1>2, <1>3, AllocateInv DEF MakeArray, Plain

\* A new struct, never tracked.
LEMMA MakeStructInv ==
  ASSUME IRInv, NEW d \in Temps, NEW E \in SUBSET Temps, MakeStruct(d, E) PROVE IRInv'
<1>1. lens[d] = None BY DEF MakeStruct, IRInv, Noted, Fresh
<1>2. lens' = [lens EXCEPT ![d] = None] BY <1>1 DEF MakeStruct, IRInv, IRTypeOK
<1> QED BY <1>2, AllocateInv DEF MakeStruct

\* The terminator.
LEMMA BranchInv ==
  ASSUME IRInv, NEW cond \in Operands, Branch(cond) PROVE IRInv'
<1>1. temps' = temps /\ vars' = vars /\ heap' = heap /\ consts' = consts
      /\ varConsts' = varConsts /\ lens' = lens /\ access' = access
      /\ seen' = seen \cup ({cond} \cap Temps)
  BY DEF Branch, machine, tables, See
<1>2. out' = [takes |-> IF Val(cond).b THEN "then" ELSE "else",
              made |-> IF Known(cond) \in Bools THEN IF Known(cond).b THEN "then" ELSE "else"
                       ELSE "branch"]
  BY DEF Branch
<1>3. Known(cond) \in Bools => Known(cond) = Val(cond)
  BY KnownVal, Kinds DEF IRInv, Scalars
<1>4. BranchSound' BY <1>2, <1>3 DEF BranchSound
<1>5. IRTypeOK' BY <1>1, <1>2 DEF IRInv, IRTypeOK
<1>6. ConstsTrue' /\ UncheckedSafe' /\ Noted'
  BY <1>1 DEF IRInv, ConstsTrue, UncheckedSafe, Noted
<1>7. Tracked' /\ Allocated' BY <1>1, Discreet DEF IRInv
<1> QED BY <1>4, <1>5, <1>6, <1>7 DEF IRInv

----------------------------------------------------------------------------
(* The theorems *)

\* The invariant holds when the block is entered.
LEMMA InitInv == IRInit => IRInv
<1> SUFFICES ASSUME IRInit PROVE IRInv OBVIOUS
<1> DEFINE Set == {x \in Vars : vars[x] # None}
           Made == {a \in Objects : heap[a] # None}
           First == {IntVal(0, "")} \cup {Ref(x) : x \in Set} \cup {Obj(a) : a \in Made}
<1>1. temps \in [Temps -> First] BY DEF IRInit
<1>2. IntVal(0, "") \in Scalars
  <2>1. 0 \in Width BY HalfAssumption DEF Width
  <2> QED BY <2>1, IntType
<1>3. IRTypeOK
  <2>1. Lits \subseteq Values BY LitsAssumption DEF Values
  <2>2. First \subseteq Values BY <1>2, HandleType DEF Values
  <2>3. temps \in [Temps -> Values] BY <1>1, <2>2
  <2>4. vars \in [Vars -> Values \cup {None}] BY <2>1 DEF IRInit
  <2>5. [len |-> None, holds |-> Set] \in Object BY DEF Object
  <2>6. heap \in [Objects -> Object \cup {None}] BY <2>5 DEF IRInit
  <2> QED BY <2>3, <2>4, <2>6 DEF IRInit, IRTypeOK
<1>4. ConstsTrue /\ BranchSound /\ UncheckedSafe /\ Noted /\ Tracked
  BY DEF IRInit, ConstsTrue, BranchSound, UncheckedSafe, Noted, Tracked
<1>5. ASSUME NEW a \in Objects, heap[a] = None PROVE Hidden(a, {})
  <2>1. \A t \in Temps : temps[t] # Obj(a)
    <3>1. Obj(a) \notin First BY <1>2, <1>5, OtherThanObj
    <3> QED BY <1>1, <3>1
  <2>2. \A x \in Vars : vars[x] # Obj(a)
    BY LitsAssumption, OtherThanObj DEF IRInit
  <2>3. \A b \in Objects : heap[b] # None => heap[b].holds = Set
    <3> SUFFICES ASSUME NEW b \in Objects, heap[b] # None PROVE heap[b].holds = Set OBVIOUS
    <3>1. heap[b] = [len |-> None, holds |-> Set] BY DEF IRInit
    <3> QED BY <3>1
  <2> QED BY <2>1, <2>2, <2>3, NamesAssumption DEF Hidden
<1> QED BY <1>3, <1>4, <1>5 DEF IRInv, Allocated

\* Every instruction preserves the invariant.
LEMMA NextInv == ASSUME Plain, IRInv, [IRNext]_irVars PROVE IRInv'
<1>1. CASE IRNext
  BY <1>1, LoadVarInv, LoadAddrInv, LoadRefInv, StoreVarInv, StoreRefInv, BinOpInv, CallInv,
     CallClosureInv, MakeArrayInv, IndexInv, SetIndexInv, MakeStructInv, GetFieldInv,
     SetFieldInv, PartAddrInv, BranchInv DEF IRNext
<1>2. CASE UNCHANGED irVars
  BY <1>2 DEF irVars, IRInv, IRTypeOK, ConstsTrue, BranchSound, UncheckedSafe, Noted, Tracked,
     Tracks, Allocated, Hidden
<1> QED BY <1>1, <1>2

\* In blocks of signed integers that keep tracked arrays and known variables out of closures,
\* what the optimizer notes is true, and what it concludes from it is what the
\* interpreter does: for every block and every width of integers.
THEOREM BlockInvariant == ASSUME Plain PROVE IRSpec => []IRInv
BY InitInv, NextInv, PTL DEF IRSpec

\* The constants in optimizeBlock's tables are the values in the interpreter's frame.
THEOREM BlockConstsTrue == ASSUME Plain PROVE IRSpec => []ConstsTrue
<1>1. IRInv => ConstsTrue BY DEF IRInv
<1> QED BY <1>1, BlockInvariant, PTL

\* A branch that optimizeBlock replaced by a jump is taken that way.
THEOREM BlockBranchSound == ASSUME Plain PROVE IRSpec => []BranchSound
<1>1. IRInv => BranchSound BY DEF IRInv
<1> QED BY <1>1, BlockInvariant, PTL

\* An index that optimizeBlock marked unchecked is in bounds.
THEOREM BlockUncheckedSafe == ASSUME Plain PROVE IRSpec => []UncheckedSafe
<1>1. IRInv => UncheckedSafe BY DEF IRInv
<1> QED BY <1>1, BlockInvariant, PTL
=============================================================================
