------------------------------ MODULE MonoProofs ------------------------------
(***************************************************************************)
(* That the type checker is right in what it hands on and in what it says, *)
(* for all programs: the types of every signature have instances in the    *)
(* end (TypesExistAlways), no function or struct that has been asked for   *)
(* is called undefined (NoFalseUndefinedAlways), and a second check of     *)
(* what is handed on finds a type for every expression (RechecksAlways).   *)
(*                                                                         *)
(* TypesInv says what is asked for and what is declared, and what the body *)
(* that is being checked may rely on.  UndefinedInv adds how far ahead of  *)
(* the check the names in the tree are.  TypedInv says that every body     *)
(* that has been checked is typed as its operations require.  An instance  *)
(* copies the names of its template, which was checked for any T: that its *)
(* types are those of the template, with a type in the place of T, is      *)
(* TypedTwins.                                                             *)
(***************************************************************************)
EXTENDS Mono, SequenceTheorems, WellFoundedInduction, TLAPS

Elements(s) == {s[i] : i \in DOMAIN s}
Distinct(s) == \A i, j \in DOMAIN s : s[i] = s[j] => i = j

----------------------------------------------------------------------------
(* Numbers and sequences.                                                  *)

\* Everything that holds at 0 and is passed on holds of every number (induction over a set).
LEMMA Inductive ==
  ASSUME NEW S, 0 \in S, \A n \in Nat : n \in S => n + 1 \in S
  PROVE  Nat \subseteq S
<1> SUFFICES ASSUME Nat \ S # {} PROVE FALSE
  OBVIOUS
<1>1. PICK n \in Nat \ S : \A m \in Nat \ S : <<m, n>> \notin OpToRel(<, Nat)
  BY NatLessThanWellFounded, WFMin, Zenon
<1>2. n # 0 /\ n - 1 \in Nat /\ n - 1 \in S
  <2>1. n - 1 \in Nat /\ n - 1 < n
    OBVIOUS
  <2> QED
    BY <1>1, <2>1 DEF OpToRel
<1> QED
  BY <1>2

\* A sequence is indexed from 1 to its length.
LEMMA SequenceShape ==
  ASSUME NEW s, IsSequence(s)
  PROVE  s \in Seq(Elements(s)) /\ Len(s) \in Nat /\ DOMAIN s = 1 .. Len(s)
BY LenProperties DEF IsSequence, Elements

\* A sequence of anything is one of its own elements.
LEMMA IntoSequence ==
  ASSUME NEW S, NEW s \in Seq(S)
  PROVE  IsSequence(s)
<1>1. s \in [1 .. Len(s) -> Elements(s)] /\ Len(s) \in Nat
  BY LenProperties DEF Elements
<1> QED
  BY <1>1, SeqDef DEF IsSequence, Elements

\* Nothing is a sequence.
LEMMA EmptySequence == IsSequence(<<>>) /\ Elements(<<>>) = {} /\ Distinct(<<>>) /\ DOMAIN <<>> = {}
<1>1. IsSequence(<<>>)
  <2>1. <<>> \in Seq({})
    BY EmptySeq
  <2> QED
    BY <2>1, IntoSequence
<1>2. DOMAIN <<>> = {}
  BY EmptySeq
<1> QED
  BY <1>1, <1>2 DEF Elements, Distinct

\* One element more.
LEMMA AppendOne ==
  ASSUME NEW s, IsSequence(s), NEW x
  PROVE  /\ IsSequence(Append(s, x)) /\ Elements(Append(s, x)) = Elements(s) \cup {x}
         /\ Distinct(s) /\ x \notin Elements(s) => Distinct(Append(s, x))
         /\ Len(Append(s, x)) = Len(s) + 1 /\ Append(s, x)[Len(s) + 1] = x
         /\ \A i \in 1 .. Len(s) : Append(s, x)[i] = s[i]
<1> DEFINE a == Append(s, x)
           T == Elements(s) \cup {x}
<1>1. s \in Seq(T) /\ x \in T /\ Len(s) \in Nat /\ DOMAIN s = 1 .. Len(s)
  <2>1. s \in Seq(Elements(s)) /\ Len(s) \in Nat /\ DOMAIN s = 1 .. Len(s)
    BY SequenceShape
  <2>2. s \in Seq(T)
    BY <2>1, SeqDef
  <2> QED
    BY <2>1, <2>2
<1>2. a \in Seq(T) /\ Len(a) = Len(s) + 1 /\ a[Len(s) + 1] = x /\ \A i \in 1 .. Len(s) : a[i] = s[i]
  BY <1>1, AppendProperties
<1>3. DOMAIN a = 1 .. Len(s) + 1
  BY <1>2, LenProperties
<1>4. IsSequence(a)
  BY <1>2, IntoSequence
<1> HIDE DEF a, T
<1>5. Elements(a) = Elements(s) \cup {x}
  <2>1. \A i \in DOMAIN a : i \in DOMAIN s \/ i = Len(s) + 1
    BY <1>1, <1>3
  <2>2. \A i \in DOMAIN s : i \in DOMAIN a /\ a[i] = s[i]
    BY <1>1, <1>2, <1>3
  <2>3. Len(s) + 1 \in DOMAIN a
    BY <1>1, <1>3
  <2> QED
    BY <1>2, <2>1, <2>2, <2>3 DEF Elements
<1>6. ASSUME Distinct(s), x \notin Elements(s) PROVE Distinct(a)
  <2>1. \A i \in DOMAIN a : i \in DOMAIN s \/ i = Len(s) + 1
    BY <1>1, <1>3
  <2>2. \A i \in DOMAIN s : a[i] = s[i] /\ s[i] # x
    BY <1>1, <1>2, <1>6 DEF Elements
  <2> QED
    BY <1>2, <1>6, <2>1, <2>2 DEF Distinct
<1> QED
  BY <1>2, <1>4, <1>5, <1>6 DEF a

\* The first element taken.
LEMMA TakeOne ==
  ASSUME NEW s, IsSequence(s), s # <<>>
  PROVE  /\ IsSequence(Tail(s)) /\ Head(s) \in Elements(s) /\ Head(s) = s[1]
         /\ Elements(s) = Elements(Tail(s)) \cup {Head(s)}
         /\ Distinct(s) => Distinct(Tail(s)) /\ Head(s) \notin Elements(Tail(s))
<1> DEFINE t == Tail(s)
<1>1. s \in Seq(Elements(s)) /\ Len(s) \in Nat /\ DOMAIN s = 1 .. Len(s)
  BY SequenceShape
<1>2. /\ Head(s) = s[1] /\ t \in Seq(Elements(s)) /\ Len(t) = Len(s) - 1
      /\ \A i \in 1 .. Len(t) : t[i] = s[i + 1]
  BY <1>1, HeadTailProperties
<1>3. Len(s) # 0
  BY <1>1, EmptySeq
<1>4. DOMAIN t = 1 .. Len(s) - 1 /\ IsSequence(t)
  BY <1>1, <1>2, LenProperties, IntoSequence
<1> HIDE DEF t
<1>5. \A i \in DOMAIN t : i + 1 \in DOMAIN s /\ t[i] = s[i + 1] /\ i + 1 # 1
  BY <1>1, <1>2, <1>4
<1>6. \A i \in DOMAIN s : i = 1 \/ (i - 1 \in DOMAIN t /\ t[i - 1] = s[i])
  BY <1>1, <1>2, <1>4
<1>7. 1 \in DOMAIN s
  BY <1>1, <1>3
<1>8. Elements(s) = Elements(t) \cup {s[1]}
  BY <1>5, <1>6, <1>7 DEF Elements
<1>9. ASSUME Distinct(s) PROVE Distinct(t) /\ s[1] \notin Elements(t)
  <2>1. \A i, j \in DOMAIN t : t[i] = t[j] => i + 1 = j + 1
    BY <1>5, <1>9 DEF Distinct
  <2>2. \A i, j \in DOMAIN t : i + 1 = j + 1 => i = j
    BY <1>1, <1>4
  <2>3. \A i \in DOMAIN t : t[i] # s[1]
    BY <1>5, <1>7, <1>9 DEF Distinct
  <2> QED
    BY <2>1, <2>2, <2>3 DEF Distinct, Elements
<1> QED
  BY <1>2, <1>4, <1>7, <1>8, <1>9 DEF t, Elements

\* One sequence behind another.
LEMMA ConcatTwo ==
  ASSUME NEW s, IsSequence(s), NEW t, IsSequence(t)
  PROVE  /\ IsSequence(s \o t) /\ Len(s \o t) = Len(s) + Len(t)
         /\ Elements(s \o t) = Elements(s) \cup Elements(t)
<1> DEFINE T == Elements(s) \cup Elements(t)
           u == s \o t
<1>1. /\ s \in Seq(T) /\ Len(s) \in Nat /\ DOMAIN s = 1 .. Len(s)
      /\ t \in Seq(T) /\ Len(t) \in Nat /\ DOMAIN t = 1 .. Len(t)
  <2>1. /\ s \in Seq(Elements(s)) /\ Len(s) \in Nat /\ DOMAIN s = 1 .. Len(s)
        /\ t \in Seq(Elements(t)) /\ Len(t) \in Nat /\ DOMAIN t = 1 .. Len(t)
    BY SequenceShape
  <2>2. s \in Seq(T) /\ t \in Seq(T)
    BY <2>1, SeqDef
  <2> QED
    BY <2>1, <2>2
<1>2. /\ u \in Seq(T) /\ Len(u) = Len(s) + Len(t)
      /\ \A i \in 1 .. Len(s) + Len(t) : u[i] = IF i <= Len(s) THEN s[i] ELSE t[i - Len(s)]
  BY <1>1, ConcatProperties
<1>3. DOMAIN u = 1 .. Len(s) + Len(t) /\ IsSequence(u)
  BY <1>2, LenProperties, IntoSequence
<1> HIDE DEF T, u
<1>4. \A i \in DOMAIN u : (i \in DOMAIN s /\ u[i] = s[i]) \/ (i - Len(s) \in DOMAIN t /\ u[i] = t[i - Len(s)])
  BY <1>1, <1>2, <1>3
<1>5. \A i \in DOMAIN s : i \in DOMAIN u /\ u[i] = s[i]
  BY <1>1, <1>2, <1>3
<1>6. \A i \in DOMAIN t : i + Len(s) \in DOMAIN u /\ u[i + Len(s)] = t[i]
  <2> SUFFICES ASSUME NEW i \in DOMAIN t PROVE i + Len(s) \in DOMAIN u /\ u[i + Len(s)] = t[i]
    OBVIOUS
  <2>1. i + Len(s) \in 1 .. Len(s) + Len(t) /\ ~(i + Len(s) <= Len(s)) /\ (i + Len(s)) - Len(s) = i
    BY <1>1
  <2> QED
    BY <1>2, <1>3, <2>1
<1>7. Elements(u) = Elements(s) \cup Elements(t)
  BY <1>4, <1>5, <1>6 DEF Elements
<1> QED
  BY <1>2, <1>3, <1>7 DEF u

\* One element replaced.
LEMMA ReplaceOne ==
  ASSUME NEW s, IsSequence(s), NEW i \in DOMAIN s, NEW x
  PROVE  LET r == [s EXCEPT ![i] = x]
         IN  /\ IsSequence(r) /\ Len(r) = Len(s) /\ DOMAIN r = DOMAIN s /\ r[i] = x
             /\ \A j \in DOMAIN s : j # i => r[j] = s[j]
<1> DEFINE r == [s EXCEPT ![i] = x]
           T == Elements(s) \cup {x}
<1>1. s \in Seq(Elements(s)) /\ Len(s) \in Nat /\ DOMAIN s = 1 .. Len(s)
  BY SequenceShape
<1>2. s \in [1 .. Len(s) -> Elements(s)]
  BY <1>1, LenProperties
<1>3. r \in [1 .. Len(s) -> T]
  BY <1>2
<1>4. r \in Seq(T)
  BY <1>1, <1>3, SeqDef
<1>5. Len(r) = Len(s) /\ DOMAIN r = DOMAIN s
  BY <1>1, <1>3, <1>4, LenProperties
<1>6. IsSequence(r)
  BY <1>4, IntoSequence
<1>7. r[i] = x /\ \A j \in DOMAIN s : j # i => r[j] = s[j]
  BY <1>2
<1> QED
  BY <1>5, <1>6, <1>7

\* The last element dropped.
LEMMA DropLast ==
  ASSUME NEW s, IsSequence(s), Len(s) # 0
  PROVE  LET r == SubSeq(s, 1, Len(s) - 1)
         IN  /\ IsSequence(r) /\ Len(r) = Len(s) - 1 /\ DOMAIN r = 1 .. Len(s) - 1
             /\ \A j \in 1 .. Len(s) - 1 : r[j] = s[j]
<1> DEFINE r == SubSeq(s, 1, Len(s) - 1)
           S == Elements(s)
<1>1. s \in Seq(S) /\ Len(s) \in Nat /\ DOMAIN s = 1 .. Len(s) /\ Len(s) - 1 \in Nat
  BY SequenceShape
<1> HIDE DEF S
<1>2. \A i \in 1 .. Len(s) - 1 : s[i] \in S
  BY <1>1, ElementOfSeq
<1>3. r \in Seq(S) /\ Len(r) = Len(s) - 1 /\ \A i \in 1 .. Len(s) - 1 : r[i] = s[i]
  <2>1. 1 \in 1 .. Len(s) /\ Len(s) - 1 <= Len(s) /\ Len(s) - 1 \in 1 - 1 .. Len(s) /\ 1 \in 1 .. Len(s) - 1 + 1
    BY <1>1
  <2>2. /\ SubSeq(s, 1, Len(s) - 1) \in Seq(S)
        /\ Len(SubSeq(s, 1, Len(s) - 1)) = IF 1 <= Len(s) - 1 THEN (Len(s) - 1) - 1 + 1 ELSE 0
        /\ \A i \in 1 .. Len(SubSeq(s, 1, Len(s) - 1)) : SubSeq(s, 1, Len(s) - 1)[i] = s[1 + i - 1]
    BY <1>1, <2>1, SubSeqProperties
  <2>3. Len(r) = Len(s) - 1
    BY <1>1, <2>2
  <2>4. \A i \in 1 .. Len(s) - 1 : 1 + i - 1 = i
    BY <1>1
  <2> QED
    BY <2>2, <2>3, <2>4
<1> QED
  BY <1>3, LenProperties, IntoSequence

----------------------------------------------------------------------------
(* What holds of the checker and of the body that is being checked.        *)

Fields == {"names", "sigs", "structs", "owedStructs", "owedFuncs", "structKeys", "funcKeys", "diags"}

IsName(n) == \E i \in DOMAIN Order : Order[i].name = n
IsArg(t) == IsType(t) /\ t.of # "T"
Fn(f) == f = <<f[1], f[2]>> /\ IsName(f[1]) /\ (f[2] = None \/ IsArg(f[2]))
IsResult(t) == IsType(t) \/ t = Bad
ResultIn(f, t) == IsResult(t) /\ (~IsGeneric(f) => t.of # "T")
Struct(t) == IsArg(t) /\ t.n # 0

\* Every instance of S in a type has been asked for.
Asked(c, t) == Concrete(t) => \A n \in 1 .. t.n : Ty(n, t.of) \in c.structKeys

StructsOK(c) ==
  /\ DOMAIN c = Fields
  /\ IsSequence(c.owedStructs) /\ Distinct(c.owedStructs)
  /\ Elements(c.owedStructs) = c.structKeys \ c.structs /\ c.structs \subseteq c.structKeys
  /\ \A t \in c.structKeys : Struct(t)

IsFunc(n) == \E i \in DOMAIN prog.fns : prog.fns[i].name = n
Asks(f) == f = <<f[1], f[2]>> /\ IsFunc(f[1]) /\ Item(f[1]).generic /\ IsArg(f[2])
FuncsOK(c) ==
  /\ IsSequence(c.owedFuncs) /\ Distinct(c.owedFuncs)
  /\ Elements(c.owedFuncs) = c.funcKeys \ DOMAIN c.sigs
  /\ \A f \in c.funcKeys : Asks(f)
  /\ \A f \in DOMAIN c.sigs : Asks(f) => f \in c.funcKeys

SigsOK(c) ==
  \A f \in DOMAIN c.sigs : Fn(f) /\ ResultIn(f, c.sigs[f]) /\ Asked(c, c.sigs[f]) /\ Asked(c, ParamOf(f))

OpAt(at) == Body(at[1])[at[2]][at[3]]
IsPlace(at) ==
  /\ at = <<at[1], at[2], at[3]>> /\ Fn(at[1])
  /\ at[2] \in DOMAIN Body(at[1]) /\ at[3] \in DOMAIN Body(at[1])[at[2]]

\* A struct literal is given an instance, a call one of the generic function it names.
Fits(c, at, name) ==
  /\ IsPlace(at) /\ OpAt(at).op \in {"new", "call"}
  /\ OpAt(at).op = "new" => Struct(name) /\ Asked(c, name)
  /\ OpAt(at).op = "call" =>
       name = <<OpAt(at).f, name[2]>> /\ name \in c.funcKeys /\ <<OpAt(at).f, None>> \in DOMAIN c.sigs
NameOK(c, at) == Fits(c, at, c.names[at])
NamesOK(c) == \A at \in DOMAIN c.names : NameOK(c, at)

CheckerOK(c) == StructsOK(c) /\ FuncsOK(c) /\ SigsOK(c) /\ NamesOK(c)

\* An activation: T stands for a type of the function's, and the callee of a call is declared.
CallOK(k) ==
  LET t == task.calls[k]
  IN  /\ k \in DOMAIN Expr /\ Expr[k].op \notin {"lit", "arg"}
      /\ t = None \/ (IsType(t) /\ (~IsGeneric(task.fn) => t.of # "T"))
      /\ Expr[k].op = "call" =>
           Callee(k) \in DOMAIN checker.sigs /\ (t # None => Generic(k) /\ Asked(checker, Subst(checker.sigs[Callee(k)], t)))
BodyOK ==
  /\ task = [fn |-> task.fn, stmt |-> task.stmt, calls |-> task.calls, type |-> task.type]
  /\ task.fn \in DOMAIN checker.sigs
  /\ task.stmt \in DOMAIN Body(task.fn)
  /\ IsSequence(task.calls)
  /\ \A k \in DOMAIN task.calls : CallOK(k)
  /\ task.type = None \/ (ResultIn(task.fn, task.type) /\ Asked(checker, task.type))
TaskOK == Idle \/ BodyOK

\* Which declarations there are: of what is written, those collected so far.
Written(i) == <<Order[i].name, None>>
IsMethod(n) == \E i \in DOMAIN prog.methods : prog.methods[i].name = n
StageOK ==
  /\ stage \in {"collect", "items", "structs", "funcs", "over"}
  /\ turn \in Nat \ {0}
  /\ stage = "collect" => Idle /\ checker.names = <<>>
  /\ stage \notin {"structs"} => todo = <<>>
  /\ \A i \in DOMAIN Order : stage # "collect" \/ i < turn => Written(i) \in DOMAIN checker.sigs
TodoOK ==
  /\ IsSequence(todo)
  /\ \A f \in Elements(todo) : f = <<f[1], f[2]>> /\ IsMethod(f[1]) /\ IsArg(f[2])
OverOK == stage = "over" => Idle /\ checker.owedStructs = <<>> /\ checker.owedFuncs = <<>>

\* An instance of S, and its methods for what it is an instance with.
Whole(t) == Ty(t.n + 1, t.of)
Inner(s) == Ty(s.n - 1, s.of)
MethodsOK ==
  /\ \A f \in DOMAIN checker.sigs : f[2] # None /\ IsMethod(f[1]) => Whole(f[2]) \in checker.structs
  /\ \A s \in checker.structs : \A m \in {prog.methods[i].name : i \in DOMAIN prog.methods} : <<m, Inner(s)>> \in DOMAIN checker.sigs \cup Elements(todo)
  /\ Distinct(todo)
  /\ \A f \in Elements(todo) : f \notin DOMAIN checker.sigs /\ Whole(f[2]) \in checker.structs

TypesInv ==
  /\ CheckerOK(checker) /\ TaskOK /\ StageOK /\ TodoOK /\ OverOK /\ MethodsOK

----------------------------------------------------------------------------
(* Items and types.                                                        *)

\* The declarations are a sequence: the functions, then the methods.
LEMMA Declarations ==
  ASSUME ProgramOK(prog)
  PROVE  /\ IsSequence(Order) /\ Len(Order) \in Nat /\ DOMAIN Order = 1 .. Len(Order)
         /\ \A i \in DOMAIN Order : ItemOK(prog, Order[i])
         /\ \A i, j \in DOMAIN Order : Order[i].name = Order[j].name => i = j
<1>1. IsSequence(Order)
  BY ConcatTwo DEF ProgramOK, Order
<1>2. Len(Order) \in Nat /\ DOMAIN Order = 1 .. Len(Order)
  BY <1>1, SequenceShape
<1> QED
  BY <1>1, <1>2 DEF ProgramOK, Order

\* What is written of a function or a method has a declaration.
LEMMA Declared ==
  ASSUME ProgramOK(prog)
  PROVE  \A n : IsFunc(n) \/ IsMethod(n) <=> IsName(n)
<1> SUFFICES ASSUME NEW n PROVE IsFunc(n) \/ IsMethod(n) <=> IsName(n)
  OBVIOUS
<1>1. Elements(Order) = Elements(prog.fns) \cup Elements(prog.methods)
  BY ConcatTwo DEF ProgramOK, Order
<1>2. IsName(n) <=> \E x \in Elements(Order) : x.name = n
  BY DEF IsName, Elements
<1>3. IsFunc(n) <=> \E x \in Elements(prog.fns) : x.name = n
  BY DEF IsFunc, Elements
<1>4. IsMethod(n) <=> \E x \in Elements(prog.methods) : x.name = n
  BY DEF IsMethod, Elements
<1> QED
  BY <1>1, <1>2, <1>3, <1>4

\* Each name has one declaration.
LEMMA ItemIs ==
  ASSUME ProgramOK(prog), NEW i \in DOMAIN Order
  PROVE  Item(Order[i].name) = Order[i] /\ Position(Order[i].name) = i
<1> DEFINE P(j) == j \in DOMAIN Order /\ Order[j].name = Order[i].name
           p == CHOOSE j \in DOMAIN Order : Order[j].name = Order[i].name
<1>1. p \in DOMAIN Order /\ Order[p].name = Order[i].name
  OBVIOUS
<1>2. p = i
  BY <1>1, Declarations
<1> QED
  BY <1>2 DEF Item, Position

\* The declaration of a name.
LEMMA NameIs ==
  ASSUME ProgramOK(prog), NEW n, IsName(n)
  PROVE  /\ ItemOK(prog, Item(n)) /\ Item(n).name = n
         /\ Position(n) \in DOMAIN Order /\ Order[Position(n)] = Item(n)
<1>1. PICK i \in DOMAIN Order : Order[i].name = n
  BY DEF IsName
<1>2. Item(n) = Order[i] /\ Position(n) = i
  BY <1>1, ItemIs
<1> QED
  BY <1>1, <1>2, Declarations

\* Methods are declared for any T.
LEMMA MethodIs ==
  ASSUME ProgramOK(prog), NEW n, IsMethod(n)
  PROVE  IsName(n) /\ Item(n).generic /\ Item(n).param = Ty(1, "T") /\ ~IsFunc(n)
<1>1. PICK m \in DOMAIN prog.methods : prog.methods[m].name = n
  BY DEF IsMethod
<1>2. IsSequence(prog.fns) /\ IsSequence(prog.methods)
  BY DEF ProgramOK
<1> DEFINE F == prog.fns
           M == prog.methods
<1>3. /\ F \in Seq(Elements(F) \cup Elements(M)) /\ Len(F) \in Nat /\ DOMAIN F = 1 .. Len(F)
      /\ M \in Seq(Elements(F) \cup Elements(M)) /\ Len(M) \in Nat /\ DOMAIN M = 1 .. Len(M)
  <2>1. /\ F \in Seq(Elements(F)) /\ Len(F) \in Nat /\ DOMAIN F = 1 .. Len(F)
        /\ M \in Seq(Elements(M)) /\ Len(M) \in Nat /\ DOMAIN M = 1 .. Len(M)
    BY <1>2, SequenceShape
  <2>2. F \in Seq(Elements(F) \cup Elements(M)) /\ M \in Seq(Elements(F) \cup Elements(M))
    BY <2>1, SeqDef
  <2> QED
    BY <2>1, <2>2
<1>4. /\ Len(Order) = Len(F) + Len(M)
      /\ \A i \in 1 .. Len(F) + Len(M) : Order[i] = IF i <= Len(F) THEN F[i] ELSE M[i - Len(F)]
  BY <1>3, ConcatProperties DEF Order
<1>a. m \in DOMAIN M /\ M[m].name = n /\ Len(F) \in Nat /\ Len(M) \in Nat
  BY <1>1, <1>3
<1> HIDE DEF F, M
<1>5. Len(F) + m \in DOMAIN Order /\ Order[Len(F) + m] = M[m]
  <2>1. m \in 1 .. Len(M)
    BY <1>3, <1>a
  <2>2. Len(F) + m \in 1 .. Len(F) + Len(M) /\ ~(Len(F) + m <= Len(F)) /\ (Len(F) + m) - Len(F) = m
    BY <1>a, <2>1
  <2> QED
    BY <1>4, <2>2, Declarations
<1>6. Item(n) = M[m] /\ IsName(n)
  BY <1>a, <1>5, ItemIs DEF IsName
<1>7. ASSUME NEW i \in DOMAIN F PROVE F[i].name # n
  <2>0. i \in 1 .. Len(F) /\ m \in 1 .. Len(M)
    BY <1>3, <1>a
  <2>1. i \in 1 .. Len(F) + Len(M) /\ i <= Len(F) /\ i # Len(F) + m
    BY <1>a, <2>0
  <2>2. i \in DOMAIN Order /\ Order[i] = F[i]
    BY <1>4, <2>1, Declarations
  <2> QED
    BY <1>a, <1>5, <2>1, <2>2, Declarations
<1> QED
  BY <1>1, <1>6, <1>7 DEF ProgramOK, IsFunc, F, M

\* The parts of a type.
LEMMA TyIs == ASSUME NEW n, NEW s PROVE Ty(n, s).n = n /\ Ty(n, s).of = s
BY DEF Ty

\* What stands for a type that is not known is none.
LEMMA NoType == None.of = "none" /\ None.n = 0 /\ Bad.of = "?" /\ Bad.n = 0 /\ None # Bad /\ ~IsType(None) /\ ~IsType(Bad)
BY TyIs DEF None, Bad, IsType

\* What a type is.
LEMMA TypeIs ==
  ASSUME NEW t, IsType(t)
  PROVE  t = Ty(t.n, t.of) /\ t.n \in Nat /\ t.of # "none" /\ t.of # "?" /\ t # None /\ t # Bad
BY NoType DEF IsType

\* A type made of its parts.
LEMMA TypeOf ==
  ASSUME NEW n, n \in Nat, NEW s, s # "none", s # "?"
  PROVE  IsType(Ty(n, s))
BY TyIs DEF IsType

\* A type for T in a type.
LEMMA SubstType ==
  ASSUME NEW u, IsType(u), NEW t, IsType(t)
  PROVE  /\ IsType(Subst(t, u)) /\ (t.of # "T" => Subst(t, u) = t)
         /\ t.of = "T" => Subst(t, u) = Ty(t.n + u.n, u.of) /\ Subst(t, u).of = u.of /\ Subst(t, u).n = t.n + u.n
         /\ u.of # "T" => Subst(t, u).of # "T"
<1>1. u.n \in Nat /\ u.of # "none" /\ u.of # "?" /\ t.n \in Nat
  BY TypeIs
<1>2. t.n + u.n \in Nat
  BY <1>1
<1>3. CASE t.of = "T"
  <2>1. Subst(t, u) = Ty(t.n + u.n, u.of)
    BY <1>3 DEF Subst
  <2> QED
    BY <1>1, <1>2, <1>3, <2>1, TyIs, TypeOf
<1>4. CASE t.of # "T"
  BY <1>4 DEF Subst
<1> QED
  BY <1>3, <1>4

\* Nothing to put a type into.
LEMMA SubstNone ==
  ASSUME NEW u
  PROVE  Subst(Bad, u) = Bad /\ Subst(None, u) = None
BY NoType DEF Subst

\* The types of a function's declaration.
LEMMA SignatureIs ==
  ASSUME ProgramOK(prog), NEW f, Fn(f)
  PROVE  /\ IsType(ParamOf(f)) /\ (~IsGeneric(f) => ParamOf(f).of # "T")
         /\ RetOf(f) = None \/ (IsType(RetOf(f)) /\ (~IsGeneric(f) => RetOf(f).of # "T"))
         /\ RetOf(f) = None <=> Item(f[1]).ret = None
<1> DEFINE it == Item(f[1])
<1>1. ItemOK(prog, it)
  BY NameIs DEF Fn
<1>2. /\ IsType(it.param) /\ (it.ret = None \/ IsType(it.ret)) /\ it.generic \in BOOLEAN
      /\ ~it.generic => it.param.of # "T" /\ it.ret.of # "T"
  BY <1>1 DEF ItemOK
<1>3. IsGeneric(f) <=> (it.generic /\ f[2] = None)
  BY DEF IsGeneric
<1> HIDE DEF it
<1>4. CASE f[2] = None
  BY <1>2, <1>3, <1>4 DEF ParamOf, RetOf, InFunction, it
<1>5. CASE f[2] # None
  <2>1. IsType(f[2]) /\ f[2].of # "T"
    BY <1>5 DEF Fn, IsArg
  <2>2. ParamOf(f) = Subst(it.param, f[2]) /\ RetOf(f) = Subst(it.ret, f[2])
    BY <1>5 DEF ParamOf, RetOf, InFunction, it
  <2>3. IsType(Subst(it.param, f[2])) /\ Subst(it.param, f[2]).of # "T"
    BY <1>2, <2>1, SubstType
  <2>4. CASE it.ret = None
    BY <2>2, <2>3, <2>4, SubstNone DEF it
  <2>5. CASE IsType(it.ret)
    <3>1. IsType(Subst(it.ret, f[2])) /\ Subst(it.ret, f[2]).of # "T"
      BY <2>1, <2>5, SubstType
    <3>2. it.ret # None /\ Subst(it.ret, f[2]) # None
      BY <2>5, <3>1, NoType
    <3> QED
      BY <2>2, <2>3, <3>1, <3>2 DEF it
  <2> QED
    BY <1>2, <2>4, <2>5
<1> QED
  BY <1>4, <1>5

\* The expressions of a function and their operations.
LEMMA BodyIs ==
  ASSUME ProgramOK(prog), NEW f, Fn(f)
  PROVE  /\ IsSequence(Body(f)) /\ Len(Body(f)) \in Nat \ {0} /\ DOMAIN Body(f) = 1 .. Len(Body(f))
         /\ \A j \in DOMAIN Body(f) :
              LET e == Body(f)[j]
              IN  /\ IsSequence(e) /\ Len(e) \in Nat \ {0} /\ DOMAIN e = 1 .. Len(e)
                  /\ \A k \in DOMAIN e : OpOK(prog, Item(f[1]), e[k]) /\ (e[k].op \in {"lit", "arg"} <=> k = Len(e))
<1>1. ItemOK(prog, Item(f[1]))
  BY NameIs DEF Fn
<1>2. IsSequence(Body(f)) /\ Body(f) # <<>> /\ \A j \in DOMAIN Body(f) : ExprOK(prog, Item(f[1]), Body(f)[j])
  BY <1>1 DEF ItemOK, Body
<1>3. Len(Body(f)) \in Nat /\ DOMAIN Body(f) = 1 .. Len(Body(f)) /\ Len(Body(f)) # 0
  BY <1>2, SequenceShape, EmptySeq
<1>4. ASSUME NEW j \in DOMAIN Body(f)
      PROVE  LET e == Body(f)[j]
             IN  /\ IsSequence(e) /\ Len(e) \in Nat \ {0} /\ DOMAIN e = 1 .. Len(e)
                 /\ \A k \in DOMAIN e : OpOK(prog, Item(f[1]), e[k]) /\ (e[k].op \in {"lit", "arg"} <=> k = Len(e))
  <2> DEFINE e == Body(f)[j]
  <2>1. IsSequence(e) /\ e # <<>> /\ \A k \in DOMAIN e : OpOK(prog, Item(f[1]), e[k]) /\ (e[k].op \in {"lit", "arg"} <=> k = Len(e))
    BY <1>2 DEF ExprOK
  <2>2. Len(e) \in Nat /\ DOMAIN e = 1 .. Len(e) /\ Len(e) # 0
    BY <2>1, SequenceShape, EmptySeq
  <2> QED
    BY <2>1, <2>2
<1> QED
  BY <1>2, <1>3, <1>4

\* An operation with types given is spoken of in its function.
LEMMA OpIs ==
  ASSUME ProgramOK(prog), NEW f, Fn(f), NEW j \in DOMAIN Body(f), NEW k \in DOMAIN Body(f)[j]
  PROVE  LET op == Body(f)[j][k]
         IN  /\ op.op \in {"lit", "arg", "call", "new", "value", "method"}
             /\ op.op = "call" => IsFunc(op.f) /\ IsName(op.f)
             /\ op.op = "method" => IsMethod(op.f) /\ IsName(op.f)
             /\ InFunction(op.type, f) = None <=> op.type = None
             /\ op.type # None => op.op = "call" /\ IsType(op.type) /\ IsType(InFunction(op.type, f)) /\ (~IsGeneric(f) => InFunction(op.type, f).of # "T")
<1> DEFINE op == Body(f)[j][k]
           t == InFunction(op.type, f)
<1>0. ~Item(f[1]).generic => Item(f[1]).param.of # "T"
  BY NameIs DEF Fn, ItemOK
<1>1. OpOK(prog, Item(f[1]), op)
  BY BodyIs
<1>2. /\ op.op \in {"lit", "arg", "call", "new", "value", "method"}
      /\ op.op = "call" => IsFunc(op.f)
      /\ op.op = "method" => IsMethod(op.f)
      /\ op.type = None \/ (IsType(op.type) /\ op.op = "call")
      /\ ~Item(f[1]).generic => op.type.of # "T"
  BY <1>0, <1>1 DEF OpOK, IsFunc, IsMethod
<1>3. (IsFunc(op.f) => IsName(op.f)) /\ (IsMethod(op.f) => IsName(op.f))
  BY Declared
<1>4. IsGeneric(f) <=> (Item(f[1]).generic /\ f[2] = None)
  BY DEF IsGeneric
<1> HIDE DEF op
<1>5. (t = None <=> op.type = None) /\ (op.type # None => IsType(op.type) /\ IsType(t) /\ (~IsGeneric(f) => t.of # "T"))
  <2>1. CASE f[2] = None
    <3>1. t = op.type
      BY <2>1 DEF InFunction
    <3> QED
      BY <1>2, <1>4, <2>1, <3>1
  <2>2. CASE f[2] # None
    <3>1. IsType(f[2]) /\ f[2].of # "T"
      BY <2>2 DEF Fn, IsArg
    <3>2. t = Subst(op.type, f[2])
      BY <2>2 DEF InFunction
    <3>3. CASE op.type = None
      BY <3>2, <3>3, SubstNone
    <3>4. CASE IsType(op.type)
      <4>1. IsType(t) /\ t.of # "T"
        BY <3>1, <3>2, <3>4, SubstType
      <4> QED
        BY <3>4, <4>1, NoType
    <3>5. op.type = None \/ IsType(op.type)
      BY <1>2
    <3> QED
      BY <3>3, <3>4, <3>5
  <2> QED
    BY <2>1, <2>2
<1> QED
  BY <1>2, <1>3, <1>5 DEF op

----------------------------------------------------------------------------
(* A program stays as it is written.                                       *)

\* What is said of a program's functions is not changed by checking them.
LEMMA SameProgram ==
  ASSUME prog' = prog
  PROVE  /\ Order' = Order
         /\ \A n : Item(n)' = Item(n) /\ Position(n)' = Position(n) /\ IsName(n)' = IsName(n)
                   /\ IsFunc(n)' = IsFunc(n) /\ IsMethod(n)' = IsMethod(n)
         /\ \A f : /\ IsGeneric(f)' = IsGeneric(f) /\ ParamOf(f)' = ParamOf(f) /\ RetOf(f)' = RetOf(f)
                   /\ Body(f)' = Body(f) /\ Fn(f)' = Fn(f) /\ Asks(f)' = Asks(f)
         /\ \A at : OpAt(at)' = OpAt(at) /\ IsPlace(at)' = IsPlace(at)
<1>1. Order' = Order
  BY DEF Order
<1>2. \A n : Item(n)' = Item(n)
  BY <1>1 DEF Item
<1>3. \A n : Position(n)' = Position(n)
  BY <1>1 DEF Position
<1>4. \A n : IsName(n)' = IsName(n) /\ IsFunc(n)' = IsFunc(n) /\ IsMethod(n)' = IsMethod(n)
  BY <1>1 DEF IsName, IsFunc, IsMethod
<1>5. \A f : IsGeneric(f)' = IsGeneric(f) /\ ParamOf(f)' = ParamOf(f) /\ RetOf(f)' = RetOf(f) /\ Body(f)' = Body(f)
  BY <1>2 DEF IsGeneric, ParamOf, RetOf, Body
<1>6. \A f : Fn(f)' = Fn(f) /\ Asks(f)' = Asks(f)
  BY <1>2, <1>4 DEF Fn, Asks
<1>7. \A at : OpAt(at)' = OpAt(at) /\ IsPlace(at)' = IsPlace(at)
  BY <1>5, <1>6 DEF OpAt, IsPlace
<1> QED
  BY <1>1, <1>2, <1>3, <1>4, <1>5, <1>6, <1>7

----------------------------------------------------------------------------
(* Instances asked for.                                                    *)

\* What asking for instances of S leaves alone.
Rest(c, d) ==
  /\ d.names = c.names /\ d.sigs = c.sigs /\ d.structs = c.structs
  /\ d.owedFuncs = c.owedFuncs /\ d.funcKeys = c.funcKeys /\ d.diags = c.diags
Grows(c, d) == StructsOK(d) /\ Rest(c, d) /\ c.structKeys \subseteq d.structKeys

\* One instance.
LEMMA OweOne ==
  ASSUME NEW c, StructsOK(c), NEW t, Struct(t)
  PROVE  Grows(c, OweStruct(c, t)) /\ t \in OweStruct(c, t).structKeys
<1>1. CASE t \in c.structKeys
  BY <1>1 DEF OweStruct, Grows, Rest
<1>2. CASE t \notin c.structKeys
  <2> DEFINE d == OweStruct(c, t)
  <2>1. d = [c EXCEPT !.owedStructs = Append(@, t), !.structKeys = @ \cup {t}]
    BY <1>2 DEF OweStruct
  <2>2. DOMAIN c = Fields
    BY DEF StructsOK
  <2>3. DOMAIN d = Fields /\ d.owedStructs = Append(c.owedStructs, t) /\ d.structKeys = c.structKeys \cup {t} /\ Rest(c, d)
    BY <2>1, <2>2 DEF Rest, Fields
  <2> HIDE DEF d
  <2>4. t \notin Elements(c.owedStructs) /\ t \notin c.structs
    BY <1>2 DEF StructsOK
  <2>5. /\ IsSequence(d.owedStructs) /\ Distinct(d.owedStructs)
        /\ Elements(d.owedStructs) = Elements(c.owedStructs) \cup {t}
    BY <2>3, <2>4, AppendOne DEF StructsOK
  <2>6. StructsOK(d)
    BY <2>3, <2>4, <2>5 DEF StructsOK, Rest
  <2> QED
    BY <2>3, <2>6 DEF Grows, d
<1> QED
  BY <1>1, <1>2

\* Instances asked for one after the other.
LEMMA GrowsOn ==
  ASSUME NEW c, NEW d, NEW e, Grows(c, d), Grows(d, e)
  PROVE  Grows(c, e) /\ \A t : Asked(d, t) => Asked(e, t)
BY DEF Grows, Rest, Asked

\* What there is is enough.
LEMMA GrowsNot == ASSUME NEW c, StructsOK(c) PROVE Grows(c, c)
BY DEF Grows, Rest

Askable(t) == IsType(t) \/ t = None \/ t = Bad

\* All the instances of S in a type, innermost first.
LEMMA OweMany ==
  ASSUME NEW c, StructsOK(c), NEW t, Askable(t)
  PROVE  Grows(c, OweStructs(c, t)) /\ Asked(OweStructs(c, t), t)
<1>1. t.n \in Nat /\ (t.n = 0 \/ IsType(t))
  BY TypeIs, NoType DEF Askable
<1>2. CASE ~Concrete(t)
  <2>1. OweStructs(c, t) = c
    BY <1>2 DEF OweStructs
  <2> QED
    BY <1>2, <2>1, GrowsNot DEF Asked
<1>3. CASE Concrete(t)
  <2> DEFINE N == t.n
             Runs(g, k) == g = [n \in 0 .. k |-> IF n = 0 THEN c ELSE OweStruct(g[n - 1], Ty(n, t.of))]
             S == {k \in Nat : \E g : Runs(g, k)}
             up == CHOOSE x : Runs(x, N)
  <2>1. OweStructs(c, t) = up[N]
    BY <1>3 DEF OweStructs
  <2>2. N \in Nat /\ (N = 0 \/ IsType(t))
    BY <1>1
  <2> HIDE DEF N
  <2>3. 0 \in S
    <3>1. Runs([n \in 0 .. 0 |-> c], 0)
      <4>1. \A n \in 0 .. 0 : n = 0
        OBVIOUS
      <4> QED
        BY <4>1
    <3> QED
      BY <3>1
  <2>4. ASSUME NEW k \in Nat, k \in S PROVE k + 1 \in S
    <3>1. PICK g : Runs(g, k)
      BY <2>4
    <3> DEFINE h == [n \in 0 .. k + 1 |-> IF n = k + 1 THEN OweStruct(g[k], Ty(k + 1, t.of)) ELSE g[n]]
    <3>2. Runs(h, k + 1)
      <4> SUFFICES ASSUME NEW n \in 0 .. k + 1
                   PROVE  h[n] = IF n = 0 THEN c ELSE OweStruct(h[n - 1], Ty(n, t.of))
        OBVIOUS
      <4>1. CASE n = 0
        BY <3>1, <4>1
      <4>2. CASE n = k + 1
        BY <3>1, <4>2
      <4>3. CASE n # 0 /\ n # k + 1
        <5>1. n \in 0 .. k /\ n - 1 \in 0 .. k /\ n - 1 # k + 1
          BY <4>3
        <5>2. g[n] = OweStruct(g[n - 1], Ty(n, t.of))
          BY <3>1, <4>3, <5>1
        <5> QED
          BY <4>3, <5>1, <5>2
      <4> QED
        BY <4>1, <4>2, <4>3
    <3> HIDE DEF h
    <3> QED
      BY <3>2
  <2>5. N \in S
    <3> HIDE DEF S
    <3> QED
      BY <2>2, <2>3, <2>4, Inductive
  <2>6. Runs(up, N)
    <3> HIDE DEF Runs
    <3> QED
      BY <2>5
  <2>7. up[0] = c /\ \A n \in 1 .. N : up[n] = OweStruct(up[n - 1], Ty(n, t.of))
    <3>1. up = [n \in 0 .. N |-> IF n = 0 THEN c ELSE OweStruct(up[n - 1], Ty(n, t.of))]
      BY <2>6
    <3> HIDE DEF up
    <3>2. 0 \in 0 .. N /\ \A n \in 1 .. N : n \in 0 .. N /\ n # 0
      BY <2>2
    <3> QED
      BY <3>1, <3>2
  <2> HIDE DEF up
  <2> DEFINE Good(n) == n <= N => Grows(c, up[n]) /\ \A m \in 1 .. n : Ty(m, t.of) \in up[n].structKeys
             G == {n \in Nat : Good(n)}
  <2>8. 0 \in G
    BY <2>7, GrowsNot
  <2>9. ASSUME NEW n \in Nat, n \in G PROVE n + 1 \in G
    <3> SUFFICES ASSUME n + 1 <= N
                 PROVE  Grows(c, up[n + 1]) /\ \A m \in 1 .. n + 1 : Ty(m, t.of) \in up[n + 1].structKeys
      OBVIOUS
    <3>1. n <= N /\ n + 1 \in 1 .. N /\ (n + 1) - 1 = n /\ n + 1 # 0 /\ n + 1 \in Nat /\ N # 0
      BY <2>2
    <3>2. Grows(c, up[n]) /\ \A m \in 1 .. n : Ty(m, t.of) \in up[n].structKeys
      BY <2>9, <3>1
    <3>3. up[n + 1] = OweStruct(up[n], Ty(n + 1, t.of))
      BY <2>7, <3>1
    <3>4. Struct(Ty(n + 1, t.of))
      <4>1. IsType(t) /\ t.of # "T"
        BY <1>3, <2>2, <3>1 DEF Concrete
      <4>2. t.of # "none" /\ t.of # "?"
        BY <4>1, TypeIs
      <4>3. IsType(Ty(n + 1, t.of)) /\ Ty(n + 1, t.of).of = t.of /\ Ty(n + 1, t.of).n = n + 1
        BY <3>1, <4>2, TypeOf, TyIs
      <4> QED
        BY <3>1, <4>1, <4>3 DEF Struct, IsArg
    <3>5. Grows(up[n], up[n + 1]) /\ Ty(n + 1, t.of) \in up[n + 1].structKeys
      BY <3>2, <3>3, <3>4, OweOne DEF Grows
    <3>6. Grows(c, up[n + 1])
      BY <3>2, <3>5, GrowsOn
    <3>7. \A m \in 1 .. n + 1 : m \in 1 .. n \/ m = n + 1
      OBVIOUS
    <3> QED
      BY <3>2, <3>5, <3>6, <3>7 DEF Grows
  <2>10. N \in G
    <3> HIDE DEF G
    <3> QED
      BY <2>2, <2>8, <2>9, Inductive
  <2>11. Grows(c, up[N]) /\ \A m \in 1 .. N : Ty(m, t.of) \in up[N].structKeys
    BY <2>2, <2>10
  <2> QED
    BY <2>1, <2>11 DEF Asked, N
<1> QED
  BY <1>2, <1>3

\* The instances in an instance's signature.
LEMMA OweBoth ==
  ASSUME NEW c, StructsOK(c), NEW t, Askable(t), NEW u, Askable(u)
  PROVE  LET d == OweStructs(OweStructs(c, t), u)
         IN  Grows(c, d) /\ Asked(d, t) /\ Asked(d, u)
<1>1. Grows(c, OweStructs(c, t)) /\ Asked(OweStructs(c, t), t)
  BY OweMany
<1>2. StructsOK(OweStructs(c, t))
  BY <1>1 DEF Grows
<1> DEFINE b == OweStructs(c, t)
<1> HIDE DEF b
<1>3. Grows(b, OweStructs(b, u)) /\ Asked(OweStructs(b, u), u)
  BY <1>2, OweMany DEF b
<1> QED
  BY <1>1, <1>3, GrowsOn DEF b

----------------------------------------------------------------------------
(* The checker on its way.                                                 *)

\* Checking an expression adds to what is asked for and reported, and to nothing else but names.
Goes(c, d) ==
  /\ DOMAIN d = Fields /\ d.sigs = c.sigs /\ d.structs = c.structs
  /\ c.structKeys \subseteq d.structKeys /\ c.funcKeys \subseteq d.funcKeys /\ c.diags \subseteq d.diags

\* One step after the other.
LEMMA GoesOn == ASSUME NEW b, NEW c, NEW d, Goes(b, c), Goes(c, d) PROVE Goes(b, d)
BY DEF Goes

\* What has been asked for stays.
LEMMA AskedStill == ASSUME NEW c, NEW d, Goes(c, d), NEW t, Asked(c, t) PROVE Asked(d, t)
BY DEF Goes, Asked

\* Asking for instances of S keeps the checker as it should be.
LEMMA GrownOK ==
  ASSUME NEW c, CheckerOK(c), NEW d, Grows(c, d)
  PROVE  CheckerOK(d) /\ Goes(c, d)
<1>1. Goes(c, d)
  BY DEF Grows, Goes, Rest, StructsOK
<1>2. StructsOK(d) /\ FuncsOK(d)
  BY DEF CheckerOK, Grows, Rest, FuncsOK
<1>3. SigsOK(d)
  BY <1>1, AskedStill DEF CheckerOK, SigsOK, Grows, Rest
<1>4. NamesOK(d)
  <2> SUFFICES ASSUME NEW at \in DOMAIN d.names PROVE NameOK(d, at)
    BY DEF NamesOK
  <2>1. d.names = c.names /\ d.funcKeys = c.funcKeys /\ d.sigs = c.sigs /\ NameOK(c, at)
    BY DEF Grows, Rest, CheckerOK, NamesOK
  <2> QED
    BY <1>1, <2>1, AskedStill DEF NameOK, Fits
<1> QED
  BY <1>1, <1>2, <1>3, <1>4 DEF CheckerOK

\* So does a diagnostic.
LEMMA ReportOK ==
  ASSUME NEW c, CheckerOK(c), NEW what
  PROVE  /\ CheckerOK(Report(c, what)) /\ Goes(c, Report(c, what)) /\ Report(c, what).diags = c.diags \cup {what}
         /\ Report(c, what).names = c.names /\ Report(c, what).structKeys = c.structKeys
         /\ Report(c, what).funcKeys = c.funcKeys
<1> DEFINE d == Report(c, what)
<1>1. DOMAIN c = Fields
  BY DEF CheckerOK, StructsOK
<1>2. /\ DOMAIN d = Fields /\ d.names = c.names /\ d.sigs = c.sigs /\ d.structs = c.structs
      /\ d.owedStructs = c.owedStructs /\ d.structKeys = c.structKeys
      /\ d.owedFuncs = c.owedFuncs /\ d.funcKeys = c.funcKeys /\ d.diags = c.diags \cup {what}
  BY <1>1 DEF Report, Fields
<1> HIDE DEF d
<1>3. StructsOK(d) /\ FuncsOK(d)
  BY <1>2 DEF CheckerOK, StructsOK, FuncsOK
<1>4. Goes(c, d)
  BY <1>2 DEF Goes
<1>5. SigsOK(d)
  BY <1>2, <1>4, AskedStill DEF CheckerOK, SigsOK
<1>6. NamesOK(d)
  <2> SUFFICES ASSUME NEW at \in DOMAIN d.names PROVE NameOK(d, at)
    BY DEF NamesOK
  <2>1. NameOK(c, at)
    BY <1>2 DEF CheckerOK, NamesOK
  <2> QED
    BY <1>2, <1>4, <2>1, AskedStill DEF NameOK, Fits
<1> QED
  BY <1>2, <1>3, <1>4, <1>5, <1>6 DEF CheckerOK, d

\* With or without one.
LEMMA ReportIfOK ==
  ASSUME NEW c, CheckerOK(c), NEW bad, NEW what
  PROVE  LET d == ReportIf(bad, c, what)
         IN  /\ CheckerOK(d) /\ Goes(c, d) /\ d.names = c.names /\ d.structKeys = c.structKeys /\ d.funcKeys = c.funcKeys
             /\ d.diags \subseteq c.diags \cup {what} /\ (bad => what \in d.diags) /\ (~bad => d = c)
<1>1. Goes(c, c)
  BY DEF CheckerOK, StructsOK, Goes
<1> QED
  BY <1>1, ReportOK DEF ReportIf

\* So does the name of an instance that is asked for, written at a call.
LEMMA OweFuncOK ==
  ASSUME NEW c, CheckerOK(c), NEW f, Asks(f)
  PROVE  /\ CheckerOK(OweFunc(c, f)) /\ Goes(c, OweFunc(c, f)) /\ f \in OweFunc(c, f).funcKeys
         /\ OweFunc(c, f).names = c.names /\ OweFunc(c, f).diags = c.diags /\ OweFunc(c, f).structKeys = c.structKeys
         /\ OweFunc(c, f).funcKeys = c.funcKeys \cup {f}
<1> DEFINE d == OweFunc(c, f)
<1>1. CASE f \in c.funcKeys
  <2>1. d = c
    BY <1>1 DEF OweFunc
  <2>2. Goes(c, c)
    BY DEF CheckerOK, StructsOK, Goes
  <2> QED
    BY <1>1, <2>1, <2>2
<1>2. CASE f \notin c.funcKeys
  <2>1. DOMAIN c = Fields
    BY DEF CheckerOK, StructsOK
  <2>2. d = [c EXCEPT !.owedFuncs = Append(@, f), !.funcKeys = @ \cup {f}]
    BY <1>2 DEF OweFunc
  <2>3. /\ DOMAIN d = Fields /\ d.names = c.names /\ d.sigs = c.sigs /\ d.structs = c.structs
        /\ d.owedStructs = c.owedStructs /\ d.structKeys = c.structKeys /\ d.diags = c.diags
        /\ d.owedFuncs = Append(c.owedFuncs, f) /\ d.funcKeys = c.funcKeys \cup {f}
    BY <2>1, <2>2 DEF Fields
  <2> HIDE DEF d
  <2>4. StructsOK(d) /\ Goes(c, d)
    BY <2>3 DEF CheckerOK, StructsOK, Goes
  <2>5. f \notin Elements(c.owedFuncs) /\ f \notin DOMAIN c.sigs
    BY <1>2 DEF CheckerOK, FuncsOK
  <2>6. /\ IsSequence(d.owedFuncs) /\ Distinct(d.owedFuncs)
        /\ Elements(d.owedFuncs) = Elements(c.owedFuncs) \cup {f}
    BY <2>3, <2>5, AppendOne DEF CheckerOK, FuncsOK
  <2>8. SigsOK(d)
    BY <2>3, <2>4, AskedStill DEF CheckerOK, SigsOK
  <2>9. NamesOK(d)
    <3> SUFFICES ASSUME NEW at \in DOMAIN d.names PROVE NameOK(d, at)
      BY DEF NamesOK
    <3>1. NameOK(c, at)
      BY <2>3 DEF CheckerOK, NamesOK
    <3> QED
      BY <2>3, <2>4, <3>1, AskedStill DEF NameOK, Fits
  <2>7. FuncsOK(d)
    BY <2>3, <2>5, <2>6 DEF CheckerOK, FuncsOK
  <2> QED
    BY <2>3, <2>4, <2>7, <2>8, <2>9 DEF CheckerOK, d
<1> QED
  BY <1>1, <1>2

\* A name is written.
LEMMA RenameOK ==
  ASSUME NEW c, CheckerOK(c), NEW at, NEW name, Fits(c, at, name)
  PROVE  LET d == Rename(c, at, name)
         IN  /\ CheckerOK(d) /\ Goes(c, d) /\ d.diags = c.diags /\ d.structKeys = c.structKeys /\ d.funcKeys = c.funcKeys
             /\ DOMAIN d.names = DOMAIN c.names \cup {at} /\ d.names[at] = name
             /\ \A n \in DOMAIN c.names : n # at => d.names[n] = c.names[n]
<1> DEFINE d == Rename(c, at, name)
<1>1. DOMAIN c = Fields
  BY DEF CheckerOK, StructsOK
<1>2. /\ DOMAIN d = Fields /\ d.sigs = c.sigs /\ d.structs = c.structs
      /\ d.owedStructs = c.owedStructs /\ d.structKeys = c.structKeys /\ d.diags = c.diags
      /\ d.owedFuncs = c.owedFuncs /\ d.funcKeys = c.funcKeys
      /\ d.names = [n \in DOMAIN c.names \cup {at} |-> IF n = at THEN name ELSE c.names[n]]
  BY <1>1 DEF Rename, Fields
<1> HIDE DEF d
<1>3. /\ DOMAIN d.names = DOMAIN c.names \cup {at} /\ d.names[at] = name
      /\ \A n \in DOMAIN c.names : n # at => d.names[n] = c.names[n]
  BY <1>2
<1>4. StructsOK(d) /\ FuncsOK(d) /\ Goes(c, d)
  BY <1>2 DEF CheckerOK, StructsOK, FuncsOK, Goes
<1>5. SigsOK(d)
  BY <1>2, <1>4, AskedStill DEF CheckerOK, SigsOK
<1>6. NamesOK(d)
  <2> SUFFICES ASSUME NEW n \in DOMAIN d.names PROVE NameOK(d, n)
    BY DEF NamesOK
  <2>1. Fits(c, n, d.names[n])
    BY <1>3 DEF CheckerOK, NamesOK, NameOK
  <2> QED
    BY <1>2, <1>4, <2>1, AskedStill DEF NameOK, Fits
<1> QED
  BY <1>2, <1>3, <1>4, <1>5, <1>6 DEF CheckerOK, d

----------------------------------------------------------------------------
(* A step of checkExpr.                                                    *)

\* The body that is being checked, in a checker that is as it should be.
Busy == ProgramOK(prog) /\ CheckerOK(checker) /\ BodyOK /\ StageOK /\ stage # "collect"

\* What a step of checkExpr makes: names change at one place only.
Works(at) ==
  /\ Goes(checker, checker') /\ CheckerOK(checker)' /\ BodyOK'
  /\ task'.fn = task.fn /\ task'.stmt = task.stmt /\ UNCHANGED <<prog, stage, turn, todo>>
  /\ task.type # None /\ Len(task'.calls) # Len(task.calls) => task'.type # None
  /\ DOMAIN checker.names \subseteq DOMAIN checker'.names /\ DOMAIN checker'.names \subseteq DOMAIN checker.names \cup {at}
  /\ \A n \in DOMAIN checker.names : n # at => checker'.names[n] = checker.names[n]

\* A checker that goes with the program goes with it in the next state too.
LEMMA CheckerNext ==
  ASSUME prog' = prog, NEW c, CheckerOK(c), checker' = c
  PROVE  CheckerOK(checker)'
<1>1. StructsOK(checker)'
  BY DEF CheckerOK, StructsOK
<1>2. FuncsOK(checker)'
  BY SameProgram DEF CheckerOK, FuncsOK
<1>3. SigsOK(checker)'
  <2>1. \A f, t : ResultIn(f, t)' = ResultIn(f, t)
    BY SameProgram DEF ResultIn
  <2> QED
    BY <2>1, SameProgram DEF CheckerOK, SigsOK
<1>4. NamesOK(checker)'
  BY SameProgram DEF CheckerOK, NamesOK, NameOK, Fits
<1> QED
  BY <1>1, <1>2, <1>3, <1>4 DEF CheckerOK

\* Where the check of a body is.
LEMMA Here ==
  ASSUME Busy
  PROVE  /\ Fn(task.fn) /\ task.fn \in DOMAIN checker.sigs /\ task.stmt \in DOMAIN Body(task.fn)
         /\ Len(task.calls) \in Nat /\ DOMAIN task.calls = 1 .. Len(task.calls)
         /\ \A k \in DOMAIN Expr : IsPlace(Place(k)) /\ OpAt(Place(k)) = Expr[k] /\ k \in Nat
<1>1. /\ Fn(task.fn) /\ task.fn \in DOMAIN checker.sigs /\ task.stmt \in DOMAIN Body(task.fn)
  BY DEF Busy, CheckerOK, SigsOK, BodyOK
<1>2. Len(task.calls) \in Nat /\ DOMAIN task.calls = 1 .. Len(task.calls)
  BY SequenceShape DEF Busy, BodyOK
<1>3. ASSUME NEW k \in DOMAIN Expr PROVE IsPlace(Place(k)) /\ OpAt(Place(k)) = Expr[k] /\ k \in Nat
  <2>1. k \in Nat
    <3>1. DOMAIN Expr = 1 .. Len(Expr) /\ Len(Expr) \in Nat
      BY <1>1, BodyIs DEF Busy, Expr
    <3> QED
      BY <3>1
  <2> QED
    BY <1>1, <2>1 DEF IsPlace, Place, OpAt, Expr
<1> QED
  BY <1>1, <1>2, <1>3

\* The operation at hand.
LEMMA OpHere ==
  ASSUME Busy, NEW k \in DOMAIN Expr
  PROVE  /\ Expr[k].op \in {"lit", "arg", "call", "new", "value", "method"}
         /\ Expr[k].op = "call" => IsFunc(Expr[k].f) /\ IsName(Expr[k].f)
         /\ Expr[k].op = "method" => IsMethod(Expr[k].f) /\ IsName(Expr[k].f) /\ <<Expr[k].f, None>> \in DOMAIN checker.sigs
         /\ Expr[k].type # None =>
              /\ Expr[k].op = "call" /\ IsType(Expr[k].type) /\ IsType(InFunction(Expr[k].type, task.fn))
              /\ ~IsGeneric(task.fn) => InFunction(Expr[k].type, task.fn).of # "T"
<1>1. /\ Expr[k].op \in {"lit", "arg", "call", "new", "value", "method"}
      /\ Expr[k].op = "call" => IsFunc(Expr[k].f) /\ IsName(Expr[k].f)
      /\ Expr[k].op = "method" => IsMethod(Expr[k].f) /\ IsName(Expr[k].f)
      /\ Expr[k].type # None =>
              /\ Expr[k].op = "call" /\ IsType(Expr[k].type) /\ IsType(InFunction(Expr[k].type, task.fn))
              /\ ~IsGeneric(task.fn) => InFunction(Expr[k].type, task.fn).of # "T"
  BY Here, OpIs DEF Busy, Expr
<1>2. ASSUME NEW n, IsName(n) PROVE <<n, None>> \in DOMAIN checker.sigs
  <2>1. PICK i \in DOMAIN Order : Order[i].name = n
    BY <1>2 DEF IsName
  <2> QED
    BY <2>1 DEF Busy, StageOK, Written
<1> QED
  BY <1>1, <1>2

\* What T stands for in an operation, in a body of f.
Stands(f, t) == t = None \/ (IsType(t) /\ (~IsGeneric(f) => t.of # "T"))

\* The function that a call names.
LEMMA CalleeIs ==
  ASSUME Busy, NEW k \in DOMAIN Expr, Expr[k].op = "call"
  PROVE  Generic(k) => Callee(k) = <<Expr[k].f, None>> /\ Item(Expr[k].f).generic /\ ~Named(k)
<1> SUFFICES ASSUME Generic(k), Named(k) PROVE FALSE
  BY DEF Callee, Generic, IsGeneric
<1> DEFINE name == checker.names[Place(k)]
<1>1. name \in checker.funcKeys
  BY Here DEF Busy, CheckerOK, NamesOK, NameOK, Fits, Named
<1>2. IsArg(name[2])
  BY <1>1 DEF Busy, CheckerOK, FuncsOK, Asks
<1>3. name[2] = None
  BY DEF Callee, Generic, IsGeneric
<1> QED
  BY <1>2, <1>3, NoType DEF IsArg

\* An activation stays as it is while others go on.
LEMMA CallStays ==
  ASSUME Busy, prog' = prog, task'.fn = task.fn, task'.stmt = task.stmt, Goes(checker, checker'),
         NEW k \in DOMAIN task.calls, k \in DOMAIN task'.calls, task'.calls[k] = task.calls[k],
         Place(k) \in DOMAIN checker'.names <=> Place(k) \in DOMAIN checker.names,
         Place(k) \in DOMAIN checker.names => checker'.names[Place(k)] = checker.names[Place(k)]
  PROVE  CallOK(k)'
<1>1. CallOK(k)
  BY DEF Busy, BodyOK
<1>2. Expr' = Expr /\ Place(k)' = Place(k) /\ IsGeneric(task.fn)' = IsGeneric(task.fn)
  BY SameProgram DEF Expr, Place
<1>3. Callee(k)' = Callee(k)
  BY <1>2 DEF Callee, Named
<1>4. Generic(k)' = Generic(k)
  BY <1>3, SameProgram DEF Generic
<1>5. checker'.sigs = checker.sigs
  BY DEF Goes
<1>6. \A t : Asked(checker, t) => Asked(checker', t)
  BY AskedStill
<1> QED
  BY <1>1, <1>2, <1>3, <1>4, <1>5, <1>6 DEF CallOK

\* An operation begins.
LEMMA DescendOK ==
  ASSUME Busy, NEW ops, NEW k \in DOMAIN Expr, Enters(k, ops), Expr[k].op \notin {"lit", "arg"},
         NEW c, CheckerOK(c), Goes(checker, c), c.names = checker.names,
         NEW t, Descend(c, t), Stands(task.fn, t),
         Expr[k].op = "call" =>
           Callee(k) \in DOMAIN c.sigs /\ (t # None => Generic(k) /\ Asked(c, Subst(c.sigs[Callee(k)], t)))
  PROVE  Works(Place(k))
<1>1. /\ UNCHANGED <<prog, stage, turn, todo>> /\ k = Len(task.calls) + 1 /\ task.type = None
      /\ checker' = c /\ task' = [task EXCEPT !.calls = Append(@, t)]
  BY DEF Enters, Descend
<1>2. task = [fn |-> task.fn, stmt |-> task.stmt, calls |-> task.calls, type |-> task.type]
  BY DEF Busy, BodyOK
<1>3. task' = [fn |-> task.fn, stmt |-> task.stmt, calls |-> Append(task.calls, t), type |-> task.type]
  BY <1>1, <1>2
<1>4. task'.fn = task.fn /\ task'.stmt = task.stmt /\ task'.calls = Append(task.calls, t) /\ task'.type = None
  BY <1>1, <1>3
<1>5. /\ IsSequence(task.calls) /\ IsSequence(task'.calls) /\ Len(task'.calls) = Len(task.calls) + 1
      /\ task'.calls[Len(task.calls) + 1] = t
      /\ \A i \in 1 .. Len(task.calls) : task'.calls[i] = task.calls[i]
  BY <1>4, AppendOne DEF Busy, BodyOK
<1>6. DOMAIN task'.calls = 1 .. Len(task.calls) + 1 /\ DOMAIN task.calls = 1 .. Len(task.calls) /\ Len(task.calls) \in Nat
  BY <1>5, SequenceShape
<1>7. Expr' = Expr /\ Place(k)' = Place(k) /\ IsGeneric(task.fn)' = IsGeneric(task.fn) /\ Callee(k)' = Callee(k) /\ Generic(k)' = Generic(k)
  <2>1. Expr' = Expr /\ Place(k)' = Place(k) /\ IsGeneric(task.fn)' = IsGeneric(task.fn)
    BY <1>1, <1>4, SameProgram DEF Expr, Place
  <2>2. Callee(k)' = Callee(k)
    BY <1>1, <2>1 DEF Callee, Named
  <2> QED
    BY <1>1, <2>1, <2>2, SameProgram DEF Generic
<1>8. ASSUME NEW i \in DOMAIN task'.calls PROVE CallOK(i)'
  <2>1. CASE i \in DOMAIN task.calls
    <3>1. task'.calls[i] = task.calls[i] /\ Goes(checker, checker') /\ checker'.names = checker.names /\ prog' = prog
      BY <1>1, <1>5, <1>6, <2>1
    <3> QED
      BY <1>4, <1>8, <2>1, <3>1, CallStays
  <2>2. CASE i \notin DOMAIN task.calls
    <3>1. i = k /\ task'.calls[i] = t
      BY <1>1, <1>5, <1>6, <2>2
    <3> QED
      BY <1>1, <1>4, <1>7, <3>1 DEF CallOK, Stands
  <2> QED
    BY <2>1, <2>2
<1>9. BodyOK'
  <2>1. task.fn \in DOMAIN c.sigs /\ task.stmt \in DOMAIN Body(task.fn) /\ Body(task.fn)' = Body(task.fn)
    BY <1>1, <1>4, Here, SameProgram DEF Goes
  <2> QED
    BY <1>1, <1>3, <1>4, <1>5, <1>8, <2>1 DEF BodyOK
<1>10. CheckerOK(checker)'
  BY <1>1, CheckerNext
<1> QED
  BY <1>1, <1>4, <1>9, <1>10 DEF Works

\* An operation has a type at once.
LEMMA YieldOK ==
  ASSUME Busy, NEW ops, NEW k \in DOMAIN Expr, Enters(k, ops),
         NEW c, CheckerOK(c), Goes(checker, c), c.names = checker.names,
         NEW t, Yield(c, t), ResultIn(task.fn, t), Asked(c, t)
  PROVE  Works(Place(k))
<1>1. /\ UNCHANGED <<prog, stage, turn, todo>> /\ checker' = c /\ task' = [task EXCEPT !.type = t]
  BY DEF Enters, Yield
<1>2. task = [fn |-> task.fn, stmt |-> task.stmt, calls |-> task.calls, type |-> task.type]
  BY DEF Busy, BodyOK
<1>3. task' = [fn |-> task.fn, stmt |-> task.stmt, calls |-> task.calls, type |-> t]
  BY <1>1, <1>2
<1>4. task'.fn = task.fn /\ task'.stmt = task.stmt /\ task'.calls = task.calls /\ task'.type = t
  BY <1>3
<1>5. ASSUME NEW i \in DOMAIN task'.calls PROVE CallOK(i)'
  BY <1>1, <1>4, CallStays
<1>6. ResultIn(task.fn, t)'
  BY <1>1, <1>4, SameProgram DEF ResultIn
<1>7. BodyOK'
  <2>1. task.fn \in DOMAIN c.sigs /\ task.stmt \in DOMAIN Body(task.fn) /\ Body(task.fn)' = Body(task.fn)
    BY <1>1, <1>4, Here, SameProgram DEF Goes
  <2>2. IsSequence(task.calls)
    BY DEF Busy, BodyOK
  <2> QED
    BY <1>1, <1>3, <1>4, <1>5, <1>6, <2>1, <2>2 DEF BodyOK
<1>8. CheckerOK(checker)'
  BY <1>1, CheckerNext
<1> QED
  BY <1>1, <1>4, <1>7, <1>8 DEF Works

\* What is inside an operation is checked again.
LEMMA AgainOK ==
  ASSUME Busy, NEW ops, NEW k \in DOMAIN Expr, Leaves(k, ops),
         NEW c, CheckerOK(c), Goes(checker, c), c.names = checker.names,
         NEW t, Again(c, t), Stands(task.fn, t), t # None,
         Expr[k].op = "call" => Generic(k) /\ Asked(c, Subst(c.sigs[Callee(k)], t))
  PROVE  Works(Place(k))
<1>1. /\ UNCHANGED <<prog, stage, turn, todo>> /\ k = Len(task.calls) /\ k # 0
      /\ checker' = c /\ task' = [task EXCEPT !.calls = [@ EXCEPT ![Len(@)] = t], !.type = None]
  BY DEF Leaves, Again
<1>2. task = [fn |-> task.fn, stmt |-> task.stmt, calls |-> task.calls, type |-> task.type]
  BY DEF Busy, BodyOK
<1>3. task' = [fn |-> task.fn, stmt |-> task.stmt, calls |-> [task.calls EXCEPT ![k] = t], type |-> None]
  BY <1>1, <1>2
<1>4. task'.fn = task.fn /\ task'.stmt = task.stmt /\ task'.calls = [task.calls EXCEPT ![k] = t] /\ task'.type = None
  BY <1>3
<1>5. k \in DOMAIN task.calls
  BY <1>1, Here
<1>6. /\ IsSequence(task'.calls) /\ DOMAIN task'.calls = DOMAIN task.calls /\ task'.calls[k] = t
      /\ \A i \in DOMAIN task.calls : i # k => task'.calls[i] = task.calls[i]
  BY <1>4, <1>5, ReplaceOne DEF Busy, BodyOK
<1>7. CallOK(k)
  BY <1>5 DEF Busy, BodyOK
<1>8. Expr' = Expr /\ Place(k)' = Place(k) /\ IsGeneric(task.fn)' = IsGeneric(task.fn) /\ Callee(k)' = Callee(k) /\ Generic(k)' = Generic(k)
  <2>1. Expr' = Expr /\ Place(k)' = Place(k) /\ IsGeneric(task.fn)' = IsGeneric(task.fn)
    BY <1>1, <1>4, SameProgram DEF Expr, Place
  <2>2. Callee(k)' = Callee(k)
    BY <1>1, <2>1 DEF Callee, Named
  <2> QED
    BY <1>1, <2>1, <2>2, SameProgram DEF Generic
<1>9. ASSUME NEW i \in DOMAIN task'.calls PROVE CallOK(i)'
  <2>1. CASE i = k
    <3>1. c.sigs = checker.sigs
      BY DEF Goes
    <3> QED
      BY <1>1, <1>4, <1>6, <1>7, <1>8, <2>1, <3>1 DEF CallOK, Stands
  <2>2. CASE i # k
    BY <1>1, <1>4, <1>6, <2>2, CallStays
  <2> QED
    BY <2>1, <2>2
<1>10. BodyOK'
  <2>1. task.fn \in DOMAIN c.sigs /\ task.stmt \in DOMAIN Body(task.fn) /\ Body(task.fn)' = Body(task.fn)
    BY <1>1, <1>4, Here, SameProgram DEF Goes
  <2> QED
    BY <1>1, <1>3, <1>4, <1>6, <1>9, <2>1 DEF BodyOK
<1>11. CheckerOK(checker)'
  BY <1>1, CheckerNext
<1> QED
  BY <1>1, <1>4, <1>10, <1>11 DEF Works

\* An operation has a type.
LEMMA ReturnOK ==
  ASSUME Busy, NEW ops, NEW k \in DOMAIN Expr, Leaves(k, ops),
         NEW c, CheckerOK(c), Goes(checker, c),
         DOMAIN checker.names \subseteq DOMAIN c.names, DOMAIN c.names \subseteq DOMAIN checker.names \cup {Place(k)},
         \A n \in DOMAIN checker.names : n # Place(k) => c.names[n] = checker.names[n],
         NEW t, Return(c, t), ResultIn(task.fn, t), Asked(c, t)
  PROVE  Works(Place(k))
<1>1. /\ UNCHANGED <<prog, stage, turn, todo>> /\ k = Len(task.calls) /\ k # 0
      /\ checker' = c /\ task' = [task EXCEPT !.calls = SubSeq(@, 1, Len(@) - 1), !.type = t]
  BY DEF Leaves, Return
<1>2. task = [fn |-> task.fn, stmt |-> task.stmt, calls |-> task.calls, type |-> task.type]
  BY DEF Busy, BodyOK
<1>3. task' = [fn |-> task.fn, stmt |-> task.stmt, calls |-> SubSeq(task.calls, 1, Len(task.calls) - 1), type |-> t]
  BY <1>1, <1>2
<1>4. /\ task'.fn = task.fn /\ task'.stmt = task.stmt /\ task'.calls = SubSeq(task.calls, 1, Len(task.calls) - 1)
      /\ task'.type = t
  BY <1>3
<1>5. /\ IsSequence(task'.calls) /\ DOMAIN task'.calls = 1 .. Len(task.calls) - 1
      /\ \A i \in 1 .. Len(task.calls) - 1 : task'.calls[i] = task.calls[i]
  BY <1>1, <1>4, DropLast DEF Busy, BodyOK
<1>6. ASSUME NEW i \in DOMAIN task'.calls PROVE CallOK(i)'
  <2>1. i \in DOMAIN task.calls /\ i # k /\ task'.calls[i] = task.calls[i]
    BY <1>1, <1>5, Here
  <2>2. Place(i) # Place(k)
    BY <2>1 DEF Place
  <2> QED
    BY <1>1, <1>4, <1>6, <2>1, <2>2, CallStays
<1>7. ResultIn(task.fn, t)'
  BY <1>1, <1>4, SameProgram DEF ResultIn
<1>8. BodyOK'
  <2>1. task.fn \in DOMAIN c.sigs /\ task.stmt \in DOMAIN Body(task.fn) /\ Body(task.fn)' = Body(task.fn)
    BY <1>1, <1>4, Here, SameProgram DEF Goes
  <2> QED
    BY <1>1, <1>3, <1>4, <1>5, <1>6, <1>7, <2>1 DEF BodyOK
<1>9. CheckerOK(checker)'
  BY <1>1, CheckerNext
<1>10. t # None
  BY NoType DEF ResultIn, IsResult
<1> QED
  BY <1>1, <1>4, <1>8, <1>9, <1>10 DEF Works

----------------------------------------------------------------------------
(* Each step of checkExpr.                                                 *)

\* The checker as it is goes on from itself.
LEMMA GoesNot == ASSUME Busy PROVE Goes(checker, checker) /\ CheckerOK(checker) /\ StructsOK(checker)
BY DEF Busy, CheckerOK, StructsOK, Goes

\* Types without T inside hold of any function, as does an unknown one.
LEMMA BadIn == ASSUME NEW f, NEW c PROVE ResultIn(f, Bad) /\ Asked(c, Bad)
BY NoType DEF ResultIn, IsResult, Asked, Concrete

\* A literal, or the argument.
LEMMA LeafWorks ==
  ASSUME Busy, NEW k \in DOMAIN Expr, Enters(k, {"lit", "arg"}),
         Yield(checker, IF Expr[k].op = "lit" THEN Ty(0, "A") ELSE ParamOf(task.fn))
  PROVE  Works(Place(k))
<1> DEFINE t == IF Expr[k].op = "lit" THEN Ty(0, "A") ELSE ParamOf(task.fn)
<1>1. ResultIn(task.fn, t) /\ Asked(checker, t)
  <2>1. CASE Expr[k].op = "lit"
    <3>1. t = Ty(0, "A") /\ t.n = 0 /\ t.of = "A" /\ IsType(t)
      BY <2>1, TyIs, TypeOf
    <3> HIDE DEF t
    <3>2. ResultIn(task.fn, t)
      BY <3>1 DEF ResultIn, IsResult
    <3> QED
      BY <3>1, <3>2 DEF Asked
  <2>2. CASE Expr[k].op # "lit"
    <3>1. t = ParamOf(task.fn)
      BY <2>2
    <3>2. IsType(t) /\ (~IsGeneric(task.fn) => t.of # "T")
      BY <3>1, Here, SignatureIs DEF Busy
    <3> QED
      BY <3>1, <3>2, Here DEF Busy, CheckerOK, SigsOK, ResultIn, IsResult
  <2> QED
    BY <2>1, <2>2
<1> HIDE DEF t
<1>2. Yield(checker, t)
  BY DEF t
<1> QED
  BY <1>1, <1>2, YieldOK, GoesNot

\* A diagnostic instead of a type.
LEMMA UnknownWorks ==
  ASSUME Busy, NEW ops, NEW k \in DOMAIN Expr, Enters(k, ops), Yield(Report(checker, "undefined"), Bad)
  PROVE  Works(Place(k)) /\ checker'.names = checker.names /\ "undefined" \in checker'.diags
<1> DEFINE c == Report(checker, "undefined")
<1>1. CheckerOK(c) /\ Goes(checker, c) /\ c.names = checker.names /\ c.diags = checker.diags \cup {"undefined"}
  BY ReportOK, GoesNot
<1> HIDE DEF c
<1>2. Yield(c, Bad) /\ checker' = c
  BY DEF c, Yield
<1> QED
  BY <1>1, <1>2, YieldOK, BadIn

\* An operation that begins without a type for T.
LEMMA EnterWorks ==
  ASSUME Busy, NEW ops, NEW k \in DOMAIN Expr, Enters(k, ops), ops \cap {"lit", "arg"} = {}, Descend(checker, None),
         Expr[k].op = "call" => Callee(k) \in DOMAIN checker.sigs
  PROVE  Works(Place(k))
<1>1. Expr[k].op \notin {"lit", "arg"}
  BY DEF Enters
<1> QED
  BY <1>1, DescendOK, GoesNot DEF Stands

\* The types of a signature that is found.
LEMMA SignatureOwed ==
  ASSUME Busy, NEW c, CheckerOK(c), Goes(checker, c), c.names = checker.names,
         NEW f \in DOMAIN checker.sigs, NEW t, IsType(t)
  PROVE  LET d == OweSignature(c, f, t)
         IN  CheckerOK(d) /\ Goes(checker, d) /\ d.names = checker.names /\ d.diags = c.diags /\ Asked(d, Subst(d.sigs[f], t))
<1> DEFINE u == Subst(c.sigs[f], t)
           v == Subst(ParamOf(f), t)
           d == OweSignature(c, f, t)
<1>1. c.sigs = checker.sigs
  BY DEF Goes
<1>2. Fn(f) /\ IsResult(c.sigs[f])
  BY <1>1 DEF Busy, CheckerOK, SigsOK, ResultIn
<1>3. Askable(u) /\ Askable(v)
  <2>1. IsType(ParamOf(f))
    BY <1>2, SignatureIs DEF Busy
  <2> QED
    BY <1>2, <2>1, SubstType, SubstNone DEF Askable, IsResult
<1>4. d = OweStructs(OweStructs(c, u), v)
  BY DEF OweSignature
<1> HIDE DEF u, v, d
<1>5. Grows(c, d) /\ Asked(d, u)
  BY <1>3, <1>4, OweBoth DEF CheckerOK
<1>6. CheckerOK(d) /\ Goes(c, d)
  BY <1>5, GrownOK
<1>7. Goes(checker, d)
  BY <1>6, GoesOn
<1>8. d.sigs = checker.sigs /\ d.names = checker.names /\ d.diags = c.diags
  BY <1>5, <1>7 DEF Goes, Grows, Rest
<1>9. u = Subst(d.sigs[f], t)
  BY <1>1, <1>8 DEF u
<1> QED
  BY <1>5, <1>6, <1>7, <1>8, <1>9 DEF d

\* A call with its type arguments given.
LEMMA EnterGivenWorks ==
  ASSUME Busy, NEW k \in DOMAIN Expr, Enters(k, {"call"}), Callee(k) \in DOMAIN checker.sigs, Generic(k), ~Infers(Expr[k]),
         LET t == InFunction(Expr[k].type, task.fn)
         IN  Descend(OweSignature(OweStructs(checker, t), Callee(k), t), t)
  PROVE  Works(Place(k)) /\ checker'.diags = checker.diags /\ checker'.names = checker.names
<1> DEFINE t == InFunction(Expr[k].type, task.fn)
           b == OweStructs(checker, t)
           c == OweSignature(b, Callee(k), t)
<1>1. IsType(t) /\ Stands(task.fn, t)
  BY OpHere DEF Infers, Stands
<1>2. Descend(c, t)
  OBVIOUS
<1> HIDE DEF t
<1>3. Grows(checker, b)
  BY <1>1, OweMany, GoesNot DEF Askable
<1>4. CheckerOK(b) /\ Goes(checker, b) /\ b.names = checker.names /\ b.diags = checker.diags
  BY <1>3, GrownOK, GoesNot DEF Grows, Rest
<1> HIDE DEF b
<1>5. CheckerOK(c) /\ Goes(checker, c) /\ c.names = checker.names /\ c.diags = b.diags /\ Asked(c, Subst(c.sigs[Callee(k)], t))
  BY <1>1, <1>4, SignatureOwed
<1> HIDE DEF c
<1>6. Expr[k].op = "call" /\ Callee(k) \in DOMAIN c.sigs
  BY <1>5 DEF Goes, Enters
<1>7. checker' = c
  BY <1>2 DEF Descend
<1> QED
  BY <1>1, <1>2, <1>4, <1>5, <1>6, <1>7, DescendOK

\* Back from a call that is not generic.
LEMMA LeavePlainWorks ==
  ASSUME Busy, NEW k \in DOMAIN Expr, Leaves(k, {"call"}), ~Generic(k),
         NEW bad, Return(ReportIf(bad, checker, "mismatch"), checker.sigs[Callee(k)])
  PROVE  /\ Works(Place(k)) /\ checker'.diags \subseteq checker.diags \cup {"mismatch"}
         /\ checker'.names = checker.names /\ (bad => "mismatch" \in checker'.diags)
<1> DEFINE c == ReportIf(bad, checker, "mismatch")
           t == checker.sigs[Callee(k)]
<1>1. /\ CheckerOK(c) /\ Goes(checker, c) /\ c.names = checker.names /\ c.diags \subseteq checker.diags \cup {"mismatch"}
      /\ bad => "mismatch" \in c.diags
  BY ReportIfOK, GoesNot
<1> HIDE DEF c
<1>2. Return(c, t) /\ checker' = c
  BY DEF Return, c
<1>3. Callee(k) \in DOMAIN checker.sigs
  <2>1. k \in DOMAIN task.calls /\ Expr[k].op = "call"
    BY Here DEF Leaves
  <2> QED
    BY <2>1 DEF Busy, BodyOK, CallOK
<1>4. ResultIn(Callee(k), t) /\ Asked(checker, t)
  BY <1>3 DEF Busy, CheckerOK, SigsOK
<1>5. ResultIn(task.fn, t)
  BY <1>4 DEF ResultIn, Generic
<1>6. Asked(c, t)
  BY <1>1, <1>4, AskedStill
<1> HIDE DEF t
<1> QED
  BY <1>1, <1>2, <1>5, <1>6, ReturnOK

\* A call, a literal or a member that has no type.
LEMMA NoTypeWorks ==
  ASSUME Busy, NEW ops, NEW k \in DOMAIN Expr, Leaves(k, ops), NEW bad, NEW what,
         Return(ReportIf(bad, checker, what), Bad) \/ (bad /\ Return(Report(checker, what), Bad))
  PROVE  /\ Works(Place(k)) /\ checker'.diags \subseteq checker.diags \cup {what}
         /\ checker'.names = checker.names /\ (bad => what \in checker'.diags)
<1>1. PICK c : /\ CheckerOK(c) /\ Goes(checker, c) /\ c.names = checker.names /\ c.diags \subseteq checker.diags \cup {what}
               /\ Return(c, Bad) /\ (bad => what \in c.diags)
  BY ReportIfOK, ReportOK, GoesNot
<1>2. checker' = c
  BY <1>1 DEF Return
<1> QED
  BY <1>1, <1>2, ReturnOK, BadIn

\* What T stands for, found by comparing a type with the parameter's.
LEMMA BoundIs ==
  ASSUME NEW pattern, IsType(pattern), pattern.of = "T", NEW t, IsResult(t), Unifies(pattern, t)
  PROVE  /\ IsType(t) /\ IsType(Bound(pattern, t)) /\ Bound(pattern, t).of = t.of
         /\ Subst(pattern, Bound(pattern, t)) = t
<1>1. t # Bad /\ pattern.n <= t.n
  BY DEF Unifies, Known
<1>2. IsType(t)
  BY <1>1 DEF IsResult
<1>3. pattern.n \in Nat /\ t.n \in Nat /\ t.of # "none" /\ t.of # "?" /\ t = Ty(t.n, t.of)
  BY <1>2, TypeIs
<1>4. t.n - pattern.n \in Nat /\ pattern.n + (t.n - pattern.n) = t.n
  BY <1>1, <1>3
<1>5. Bound(pattern, t) = Ty(t.n - pattern.n, t.of)
  BY DEF Bound
<1>6. IsType(Bound(pattern, t)) /\ Bound(pattern, t).of = t.of /\ Bound(pattern, t).n = t.n - pattern.n
  BY <1>3, <1>4, <1>5, TyIs, TypeOf
<1>7. Subst(pattern, Bound(pattern, t)) = t
  BY <1>3, <1>4, <1>6, SubstType
<1> QED
  BY <1>2, <1>6, <1>7

\* The type of what is inside.
LEMMA InsideIs ==
  ASSUME Busy, NEW ops, NEW k \in DOMAIN Expr, Leaves(k, ops)
  PROVE  /\ IsResult(task.type) /\ (~IsGeneric(task.fn) => task.type.of # "T") /\ Asked(checker, task.type)
         /\ task.type.n \in Nat /\ k \in DOMAIN task.calls /\ CallOK(k) /\ Stands(task.fn, task.calls[k])
         /\ Known(task.type) => IsType(task.type)
<1>1. task.type # None /\ k = Len(task.calls) /\ k # 0
  BY DEF Leaves
<1>2. ResultIn(task.fn, task.type) /\ Asked(checker, task.type)
  BY <1>1 DEF Busy, BodyOK
<1>3. k \in DOMAIN task.calls
  BY <1>1, Here
<1>4. CallOK(k)
  BY <1>3 DEF Busy, BodyOK
<1>5. task.type.n \in Nat
  BY <1>2, TypeIs, NoType DEF ResultIn, IsResult
<1> QED
  BY <1>2, <1>3, <1>4, <1>5 DEF ResultIn, IsResult, Known, CallOK, Stands

\* The argument of a call is checked again, against what T has been found to be.
LEMMA InferWorks ==
  ASSUME Busy, NEW k \in DOMAIN Expr, Leaves(k, {"call"}), Generic(k),
         LET t == Bound(ParamOf(Callee(k)), task.type)
         IN  /\ Unifies(ParamOf(Callee(k)), task.type) /\ ParamOf(Callee(k)).of = "T"
             /\ Again(OweSignature(checker, Callee(k), t), t)
  PROVE  Works(Place(k)) /\ checker'.diags = checker.diags /\ checker'.names = checker.names
<1> DEFINE f == Callee(k)
           t == Bound(ParamOf(f), task.type)
           c == OweSignature(checker, f, t)
<1>1. Expr[k].op = "call" /\ f \in DOMAIN checker.sigs
  <2>1. Expr[k].op = "call"
    BY DEF Leaves
  <2> QED
    BY <2>1, InsideIs DEF CallOK
<1>2. IsType(ParamOf(f))
  BY <1>1, SignatureIs DEF Busy, CheckerOK, SigsOK
<1>3. IsType(t) /\ t.of = task.type.of
  BY <1>2, BoundIs, InsideIs
<1>4. Stands(task.fn, t) /\ t # None
  BY <1>3, InsideIs, NoType DEF Stands
<1>5. Again(c, t)
  OBVIOUS
<1> HIDE DEF t
<1>6. CheckerOK(c) /\ Goes(checker, c) /\ c.names = checker.names /\ c.diags = checker.diags /\ Asked(c, Subst(c.sigs[f], t))
  BY <1>1, <1>3, GoesNot, SignatureOwed
<1> HIDE DEF c
<1>7. checker' = c
  BY <1>5 DEF Again
<1> QED
  BY <1>1, <1>4, <1>5, <1>6, <1>7, AgainOK

\* Back from a generic call: its instance is asked for, and named.
LEMMA LeaveGenericWorks ==
  ASSUME Busy, NEW k \in DOMAIN Expr, Leaves(k, {"call"}), Generic(k), task.calls[k] # None,
         NEW bad,
         LET f == Callee(k)
             t == task.calls[k]
             checked == ReportIf(bad, checker, "mismatch")
         IN  Return(IF Concrete(t) THEN Rename(OweFunc(checked, <<f[1], t>>), Place(k), <<f[1], t>>) ELSE checked,
                    Subst(checker.sigs[f], t))
  PROVE  /\ Works(Place(k)) /\ checker'.diags \subseteq checker.diags \cup {"mismatch"}
         /\ Concrete(task.calls[k]) => /\ Place(k) \in DOMAIN checker'.names
                                      /\ checker'.names[Place(k)] = <<Callee(k)[1], task.calls[k]>>
         /\ ~Concrete(task.calls[k]) => checker'.names = checker.names
         /\ bad => "mismatch" \in checker'.diags
<1> DEFINE f == Callee(k)
           t == task.calls[k]
           b == ReportIf(bad, checker, "mismatch")
           g == <<f[1], t>>
           c == IF Concrete(t) THEN Rename(OweFunc(b, g), Place(k), g) ELSE b
           u == Subst(checker.sigs[f], t)
<1>1. Expr[k].op = "call" /\ f \in DOMAIN checker.sigs /\ Asked(checker, u) /\ IsType(t) /\ (~IsGeneric(task.fn) => t.of # "T")
  <2>1. Expr[k].op = "call"
    BY DEF Leaves
  <2> QED
    BY <2>1, InsideIs DEF CallOK
<1>2. Return(c, u) /\ checker' = c
  BY DEF Return
<1>3. f = <<Expr[k].f, None>> /\ Item(Expr[k].f).generic /\ IsFunc(Expr[k].f)
  BY <1>1, CalleeIs, OpHere
<1>4. ResultIn(task.fn, u)
  <2>1. IsResult(checker.sigs[f])
    BY <1>1 DEF Busy, CheckerOK, SigsOK, ResultIn
  <2>2. CASE checker.sigs[f] = Bad
    BY <2>2, SubstNone, BadIn
  <2>3. CASE IsType(checker.sigs[f])
    BY <1>1, <2>3, SubstType DEF ResultIn, IsResult
  <2> QED
    BY <2>1, <2>2, <2>3 DEF IsResult
<1>5. g = <<Expr[k].f, t>>
  BY <1>3
<1> HIDE DEF u, g
<1>6. /\ CheckerOK(b) /\ Goes(checker, b) /\ b.names = checker.names /\ b.structKeys = checker.structKeys
      /\ b.diags \subseteq checker.diags \cup {"mismatch"} /\ (bad => "mismatch" \in b.diags)
  BY ReportIfOK, GoesNot
<1> HIDE DEF b
<1>7. CASE ~Concrete(t)
  <2>1. c = b
    BY <1>7
  <2>2. Asked(c, u)
    BY <1>1, <1>6, <2>1, AskedStill
  <2> HIDE DEF c
  <2> QED
    BY <1>2, <1>4, <1>6, <1>7, <2>1, <2>2, ReturnOK
<1>8. CASE Concrete(t)
  <2> DEFINE d == OweFunc(b, g)
  <2>1. c = Rename(d, Place(k), g)
    BY <1>8
  <2>2. Asks(g)
    BY <1>1, <1>3, <1>5, <1>8 DEF Asks, IsArg, Concrete
  <2>3. CheckerOK(d) /\ Goes(b, d) /\ g \in d.funcKeys /\ d.names = b.names /\ d.diags = b.diags
    BY <1>6, <2>2, OweFuncOK
  <2> HIDE DEF d
  <2>4. d.sigs = checker.sigs
    BY <1>6, <2>3 DEF Goes
  <2>5. Fits(d, Place(k), g)
    <3>1. IsPlace(Place(k)) /\ OpAt(Place(k)) = Expr[k]
      BY Here
    <3>2. g = <<OpAt(Place(k)).f, g[2]>> /\ <<OpAt(Place(k)).f, None>> \in DOMAIN d.sigs
      BY <1>1, <1>3, <1>5, <2>4, <3>1
    <3> QED
      BY <1>1, <2>3, <3>1, <3>2 DEF Fits
  <2> HIDE DEF c
  <2>6. /\ CheckerOK(c) /\ Goes(d, c) /\ c.diags = d.diags /\ DOMAIN c.names = DOMAIN d.names \cup {Place(k)}
        /\ c.names[Place(k)] = g /\ \A n \in DOMAIN d.names : n # Place(k) => c.names[n] = d.names[n]
    BY <2>1, <2>3, <2>5, RenameOK
  <2>7. Goes(checker, c)
    BY <1>6, <2>3, <2>6, GoesOn
  <2>8. Asked(c, u)
    BY <1>1, <2>7, AskedStill
  <2>9. Works(Place(k))
    BY <1>2, <1>4, <1>6, <2>3, <2>6, <2>7, <2>8, ReturnOK
  <2>10. checker'.names[Place(k)] = <<f[1], t>>
    BY <1>2, <2>6 DEF g
  <2>11. Place(k) \in DOMAIN checker'.names
    BY <1>2, <2>6
  <2>12. checker'.diags = b.diags
    BY <1>2, <2>3, <2>6
  <2> QED
    BY <1>6, <1>8, <2>9, <2>10, <2>11, <2>12
<1> QED
  BY <1>7, <1>8

\* Back from a literal that names its instance.
LEMMA LeaveInstanceWorks ==
  ASSUME Busy, NEW k \in DOMAIN Expr, Leaves(k, {"new"}), Named(k), NEW bad,
         Return(ReportIf(bad, checker, "mismatch"), checker.names[Place(k)])
  PROVE  /\ Works(Place(k)) /\ checker'.diags \subseteq checker.diags \cup {"mismatch"}
         /\ checker'.names = checker.names /\ (bad => "mismatch" \in checker'.diags)
<1> DEFINE t == checker.names[Place(k)]
           c == ReportIf(bad, checker, "mismatch")
<1>1. Struct(t) /\ Asked(checker, t)
  <2>1. OpAt(Place(k)).op = "new"
    BY Here DEF Leaves
  <2> QED
    BY <2>1 DEF Busy, CheckerOK, NamesOK, NameOK, Fits, Named
<1>2. /\ CheckerOK(c) /\ Goes(checker, c) /\ c.names = checker.names /\ c.diags \subseteq checker.diags \cup {"mismatch"}
      /\ bad => "mismatch" \in c.diags
  BY ReportIfOK, GoesNot
<1> HIDE DEF c, t
<1>3. Return(c, t) /\ checker' = c
  BY DEF Return, c, t
<1>4. ResultIn(task.fn, t) /\ Asked(c, t)
  BY <1>1, <1>2, AskedStill DEF ResultIn, IsResult, Struct, IsArg
<1> QED
  BY <1>2, <1>3, <1>4, ReturnOK

\* The field of a literal is checked again, against what T has been found to be.
LEMMA InferNewWorks ==
  ASSUME Busy, NEW k \in DOMAIN Expr, Leaves(k, {"new"}), Known(task.type),
         Again(OweStructs(checker, task.type), task.type)
  PROVE  Works(Place(k)) /\ checker'.diags = checker.diags /\ checker'.names = checker.names
<1> DEFINE t == task.type
           c == OweStructs(checker, t)
<1>1. Again(c, t) /\ IsType(t) /\ (~IsGeneric(task.fn) => t.of # "T")
  BY InsideIs
<1> HIDE DEF t
<1>2. Grows(checker, c)
  BY <1>1, OweMany, GoesNot DEF Askable
<1>3. CheckerOK(c) /\ Goes(checker, c) /\ c.names = checker.names /\ c.diags = checker.diags
  BY <1>2, GrownOK, GoesNot DEF Grows, Rest
<1> HIDE DEF c
<1>4. Stands(task.fn, t) /\ t # None /\ Expr[k].op # "call" /\ checker' = c
  BY <1>1, NoType DEF Stands, Leaves, Again
<1> QED
  BY <1>1, <1>3, <1>4, AgainOK

\* Back from a literal: its instance is asked for, and named.
LEMMA LeaveNewWorks ==
  ASSUME Busy, NEW k \in DOMAIN Expr, Leaves(k, {"new"}), task.calls[k] # None, NEW bad,
         LET t == task.calls[k]
             whole == Ty(t.n + 1, t.of)
             checked == ReportIf(bad, checker, "mismatch")
         IN  Return(IF Concrete(t) THEN Rename(OweStructs(checked, whole), Place(k), whole) ELSE checked, whole)
  PROVE  /\ Works(Place(k)) /\ checker'.diags \subseteq checker.diags \cup {"mismatch"}
         /\ Concrete(task.calls[k]) =>
              /\ Place(k) \in DOMAIN checker'.names
              /\ checker'.names[Place(k)] = Ty(task.calls[k].n + 1, task.calls[k].of)
         /\ bad => "mismatch" \in checker'.diags
<1> DEFINE t == task.calls[k]
           w == Ty(t.n + 1, t.of)
           b == ReportIf(bad, checker, "mismatch")
           c == IF Concrete(t) THEN Rename(OweStructs(b, w), Place(k), w) ELSE b
<1>1. IsType(t) /\ (~IsGeneric(task.fn) => t.of # "T")
  BY InsideIs DEF Stands
<1>2. IsType(w) /\ w.of = t.of /\ w.n # 0
  <2>1. t.n \in Nat /\ t.n + 1 \in Nat /\ t.n + 1 # 0 /\ t.of # "none" /\ t.of # "?"
    BY <1>1, TypeIs
  <2> QED
    BY <2>1, TyIs, TypeOf
<1>3. Return(c, w) /\ checker' = c
  BY DEF Return
<1> HIDE DEF w
<1>4. ResultIn(task.fn, w)
  BY <1>1, <1>2 DEF ResultIn, IsResult
<1>5. /\ CheckerOK(b) /\ Goes(checker, b) /\ b.names = checker.names /\ b.diags \subseteq checker.diags \cup {"mismatch"}
      /\ bad => "mismatch" \in b.diags
  BY ReportIfOK, GoesNot
<1> HIDE DEF b
<1>6. CASE ~Concrete(t)
  <2>1. c = b
    BY <1>6
  <2>2. Asked(c, w)
    BY <1>2, <1>6 DEF Asked, Concrete
  <2> HIDE DEF c
  <2> QED
    BY <1>3, <1>4, <1>5, <1>6, <2>1, <2>2, ReturnOK
<1>7. CASE Concrete(t)
  <2> DEFINE d == OweStructs(b, w)
  <2>1. c = Rename(d, Place(k), w)
    BY <1>7
  <2>2. Grows(b, d) /\ Asked(d, w)
    BY <1>2, <1>5, OweMany DEF Askable, CheckerOK
  <2>3. CheckerOK(d) /\ Goes(b, d) /\ d.names = b.names /\ d.diags = b.diags
    BY <1>5, <2>2, GrownOK DEF Grows, Rest
  <2> HIDE DEF d
  <2>4. Fits(d, Place(k), w)
    <3>1. IsPlace(Place(k)) /\ OpAt(Place(k)) = Expr[k] /\ Expr[k].op = "new"
      BY Here DEF Leaves
    <3>2. Struct(w)
      BY <1>2, <1>7 DEF Struct, IsArg, Concrete
    <3> QED
      BY <2>2, <3>1, <3>2 DEF Fits
  <2> HIDE DEF c
  <2>5. /\ CheckerOK(c) /\ Goes(d, c) /\ c.diags = d.diags /\ DOMAIN c.names = DOMAIN d.names \cup {Place(k)}
        /\ c.names[Place(k)] = w /\ \A n \in DOMAIN d.names : n # Place(k) => c.names[n] = d.names[n]
    BY <2>1, <2>3, <2>4, RenameOK
  <2>6. Goes(checker, c)
    BY <1>5, <2>3, <2>5, GoesOn
  <2>7. Asked(c, w)
    BY <2>2, <2>5, AskedStill
  <2>8. Works(Place(k))
    BY <1>3, <1>4, <1>5, <2>3, <2>5, <2>6, <2>7, ReturnOK
  <2> QED
    BY <1>3, <1>5, <2>3, <2>5, <2>8 DEF w
<1> QED
  BY <1>6, <1>7

\* A field.
LEMMA LeaveFieldWorks ==
  ASSUME Busy, NEW k \in DOMAIN Expr, Leaves(k, {"value"}), task.type.n # 0,
         LET t == Ty(task.type.n - 1, task.type.of) IN Return(OweStructs(checker, t), t)
  PROVE  Works(Place(k)) /\ checker'.diags = checker.diags /\ checker'.names = checker.names
<1> DEFINE t == Ty(task.type.n - 1, task.type.of)
           c == OweStructs(checker, t)
<1>1. IsType(t) /\ t.of = task.type.of
  <2>1. IsType(task.type)
    BY InsideIs, NoType DEF IsResult
  <2>2. task.type.n - 1 \in Nat /\ task.type.of # "none" /\ task.type.of # "?"
    BY <2>1, TypeIs
  <2> QED
    BY <2>2, TyIs, TypeOf
<1>2. Return(c, t)
  OBVIOUS
<1> HIDE DEF t
<1>3. Grows(checker, c) /\ Asked(c, t)
  BY <1>1, OweMany, GoesNot DEF Askable
<1>4. CheckerOK(c) /\ Goes(checker, c) /\ c.names = checker.names /\ c.diags = checker.diags
  BY <1>3, GrownOK, GoesNot DEF Grows, Rest
<1> HIDE DEF c
<1>5. ResultIn(task.fn, t) /\ checker' = c
  BY <1>1, <1>2, InsideIs DEF ResultIn, IsResult, Return
<1> QED
  BY <1>2, <1>3, <1>4, <1>5, ReturnOK

\* A method.
LEMMA LeaveMethodWorks ==
  ASSUME Busy, NEW k \in DOMAIN Expr, Leaves(k, {"method"}), task.type.n # 0,
         LET t == Ty(task.type.n - 1, task.type.of)
             own == <<Expr[k].f, t>>
             ret == Subst(checker.sigs[IF own \in DOMAIN checker.sigs THEN own ELSE <<Expr[k].f, None>>], t)
         IN  Return(OweStructs(checker, ret), ret)
  PROVE  Works(Place(k)) /\ checker'.diags = checker.diags /\ checker'.names = checker.names
<1> DEFINE t == Ty(task.type.n - 1, task.type.of)
           own == <<Expr[k].f, t>>
           f == IF own \in DOMAIN checker.sigs THEN own ELSE <<Expr[k].f, None>>
           ret == Subst(checker.sigs[f], t)
           c == OweStructs(checker, ret)
<1>1. IsType(t) /\ t.of = task.type.of
  <2>1. IsType(task.type)
    BY InsideIs, NoType DEF IsResult
  <2>2. task.type.n - 1 \in Nat /\ task.type.of # "none" /\ task.type.of # "?"
    BY <2>1, TypeIs
  <2> QED
    BY <2>2, TyIs, TypeOf
<1>2. Return(c, ret)
  OBVIOUS
<1> HIDE DEF t
<1>3. f \in DOMAIN checker.sigs
  <2>1. Expr[k].op = "method"
    BY DEF Leaves
  <2> QED
    BY <2>1, OpHere
<1> HIDE DEF f
<1>4. IsResult(ret) /\ (~IsGeneric(task.fn) => ret.of # "T")
  <2>1. IsResult(checker.sigs[f])
    BY <1>3 DEF Busy, CheckerOK, SigsOK, ResultIn
  <2>2. ~IsGeneric(task.fn) => t.of # "T"
    BY <1>1, InsideIs
  <2>3. CASE checker.sigs[f] = Bad
    BY <2>3, SubstNone, NoType DEF IsResult
  <2>4. CASE IsType(checker.sigs[f])
    BY <1>1, <2>2, <2>4, SubstType DEF IsResult
  <2> QED
    BY <2>1, <2>3, <2>4 DEF IsResult
<1> HIDE DEF ret
<1>5. Grows(checker, c) /\ Asked(c, ret)
  BY <1>4, OweMany, GoesNot DEF Askable, IsResult
<1>6. CheckerOK(c) /\ Goes(checker, c) /\ c.names = checker.names /\ c.diags = checker.diags
  BY <1>5, GrownOK, GoesNot DEF Grows, Rest
<1> HIDE DEF c
<1>7. ResultIn(task.fn, ret) /\ checker' = c
  BY <1>2, <1>4 DEF ResultIn, Return
<1> QED
  BY <1>2, <1>5, <1>6, <1>7, ReturnOK

\* Every step of checkExpr.
LEMMA WorkWorks ==
  ASSUME Busy, Work
  PROVE  \E k \in DOMAIN Expr : Works(Place(k))
<1>1. CASE Leaf
  BY <1>1, LeafWorks DEF Leaf
<1>2. CASE UnknownCallee
  BY <1>2, UnknownWorks DEF UnknownCallee
<1>3. CASE EnterCall
  <2>1. PICK k \in DOMAIN Expr : Enters(k, {"call"}) /\ Callee(k) \in DOMAIN checker.sigs /\ Descend(checker, None)
    BY <1>3 DEF EnterCall
  <2> QED
    BY <2>1, EnterWorks
<1>4. CASE EnterGivenCall
  BY <1>4, EnterGivenWorks DEF EnterGivenCall
<1>5. CASE LeavePlainCall
  BY <1>5, LeavePlainWorks DEF LeavePlainCall
<1>6. CASE InferCall
  <2>1. PICK k \in DOMAIN Expr :
          /\ Leaves(k, {"call"}) /\ Generic(k) /\ task.calls[k] = None
          /\ LET param == ParamOf(Callee(k))
                 t == Bound(param, task.type)
             IN  IF ~Unifies(param, task.type) THEN Return(ReportIf(Known(task.type), checker, "mismatch"), Bad)
                 ELSE IF param.of # "T" THEN Return(Report(checker, "cannot infer"), Bad)
                 ELSE Again(OweSignature(checker, Callee(k), t), t)
    BY <1>6 DEF InferCall
  <2>2. CASE ~Unifies(ParamOf(Callee(k)), task.type)
    BY <2>1, <2>2, NoTypeWorks
  <2>3. CASE Unifies(ParamOf(Callee(k)), task.type) /\ ParamOf(Callee(k)).of # "T"
    BY <2>1, <2>3, NoTypeWorks
  <2>4. CASE Unifies(ParamOf(Callee(k)), task.type) /\ ParamOf(Callee(k)).of = "T"
    BY <2>1, <2>4, InferWorks
  <2> QED
    BY <2>2, <2>3, <2>4
<1>7. CASE LeaveGenericCall
  BY <1>7, LeaveGenericWorks DEF LeaveGenericCall
<1>8. CASE UnknownStruct
  BY <1>8, UnknownWorks DEF UnknownStruct
<1>9. CASE EnterNew
  <2>1. PICK k \in DOMAIN Expr : Enters(k, {"new"}) /\ Descend(checker, None)
    BY <1>9 DEF EnterNew
  <2>2. Expr[k].op # "call"
    BY <2>1 DEF Enters
  <2> QED
    BY <2>1, <2>2, EnterWorks
<1>10. CASE LeaveInstance
  BY <1>10, LeaveInstanceWorks DEF LeaveInstance
<1>11. CASE InferNew
  <2>1. PICK k \in DOMAIN Expr :
          /\ Leaves(k, {"new"})
          /\ IF Known(task.type) THEN Again(OweStructs(checker, task.type), task.type)
             ELSE Return(Report(checker, "cannot infer"), Bad)
    BY <1>11 DEF InferNew
  <2>2. CASE Known(task.type)
    BY <2>1, <2>2, InferNewWorks
  <2>3. CASE ~Known(task.type)
    BY <2>1, <2>3, NoTypeWorks
  <2> QED
    BY <2>2, <2>3
<1>12. CASE LeaveNew
  BY <1>12, LeaveNewWorks DEF LeaveNew
<1>13. CASE EnterMember
  <2>1. PICK k \in DOMAIN Expr : Enters(k, {"value", "method"}) /\ Descend(checker, None)
    BY <1>13 DEF EnterMember
  <2>2. Expr[k].op # "call"
    BY <2>1 DEF Enters
  <2> QED
    BY <2>1, <2>2, EnterWorks
<1>14. CASE NoMember
  BY <1>14, NoTypeWorks DEF NoMember
<1>15. CASE LeaveField
  BY <1>15, LeaveFieldWorks DEF LeaveField
<1>16. CASE LeaveMethod
  BY <1>16, LeaveMethodWorks DEF LeaveMethod
<1> QED
  BY <1>1, <1>2, <1>3, <1>4, <1>5, <1>6, <1>7, <1>8, <1>9, <1>10, <1>11, <1>12, <1>13, <1>14, <1>15, <1>16 DEF Work

----------------------------------------------------------------------------
(* Declarations and copies.                                                *)

\* The checker when f is about to be declared.
Awaits(c, f) ==
  /\ StructsOK(c) /\ SigsOK(c) /\ NamesOK(c) /\ Fn(f)
  /\ IsSequence(c.owedFuncs) /\ Distinct(c.owedFuncs)
  /\ Elements(c.owedFuncs) = c.funcKeys \ (DOMAIN c.sigs \cup {f})
  /\ \A g \in c.funcKeys : Asks(g)
  /\ \A g \in DOMAIN c.sigs \cup {f} : Asks(g) => g \in c.funcKeys

\* What a declaration makes of a checker.
Declares(c, f, u, d) ==
  /\ CheckerOK(d) /\ d.names = c.names /\ d.structs = c.structs /\ d.owedFuncs = c.owedFuncs
  /\ d.funcKeys = c.funcKeys /\ d.diags = c.diags /\ c.structKeys \subseteq d.structKeys
  /\ DOMAIN d.sigs = DOMAIN c.sigs \cup {f} /\ d.sigs[f] = (IF RetOf(f) = None THEN u ELSE RetOf(f))
  /\ \A g \in DOMAIN c.sigs : g # f => d.sigs[g] = c.sigs[g]

\* A declaration.
LEMMA DeclareOK ==
  ASSUME ProgramOK(prog), NEW f, NEW c, Awaits(c, f), NEW u, u = Bad \/ u = Unit
  PROVE  Declares(c, f, u, Declare(c, f, u))
<1> DEFINE b == OweStructs(OweStructs(c, ParamOf(f)), RetOf(f))
           r == IF RetOf(f) = None THEN u ELSE RetOf(f)
           d == Declare(c, f, u)
<1>1. /\ IsType(ParamOf(f)) /\ (~IsGeneric(f) => ParamOf(f).of # "T")
      /\ RetOf(f) = None \/ (IsType(RetOf(f)) /\ (~IsGeneric(f) => RetOf(f).of # "T"))
  BY SignatureIs DEF Awaits
<1>2. Grows(c, b) /\ Asked(b, ParamOf(f)) /\ Asked(b, RetOf(f))
  BY <1>1, OweBoth DEF Awaits, Askable
<1>3. d = [b EXCEPT !.sigs = [g \in DOMAIN @ \cup {f} |-> IF g = f THEN r ELSE @[g]]]
  BY DEF Declare
<1> HIDE DEF b, d
<1>4. DOMAIN b = Fields /\ b.sigs = c.sigs
  BY <1>2 DEF Grows, Rest, StructsOK
<1>5. /\ DOMAIN d = Fields /\ d.names = b.names /\ d.structs = b.structs /\ d.owedStructs = b.owedStructs
      /\ d.structKeys = b.structKeys /\ d.owedFuncs = b.owedFuncs /\ d.funcKeys = b.funcKeys /\ d.diags = b.diags
      /\ d.sigs = [g \in DOMAIN b.sigs \cup {f} |-> IF g = f THEN r ELSE b.sigs[g]]
  BY <1>3, <1>4 DEF Fields
<1>6. /\ d.names = c.names /\ d.structs = c.structs /\ d.owedFuncs = c.owedFuncs /\ d.funcKeys = c.funcKeys
      /\ d.diags = c.diags /\ c.structKeys \subseteq d.structKeys
      /\ d.sigs = [g \in DOMAIN c.sigs \cup {f} |-> IF g = f THEN r ELSE c.sigs[g]]
  BY <1>2, <1>4, <1>5 DEF Grows, Rest
<1>7. ResultIn(f, r) /\ Asked(d, r) /\ Asked(d, ParamOf(f))
  <2>1. Asked(d, ParamOf(f)) /\ Asked(d, RetOf(f))
    BY <1>2, <1>5 DEF Asked
  <2>2. IsType(Unit) /\ Unit.of # "T" /\ Unit.n = 0
    BY TyIs, TypeOf DEF Unit
  <2>3. ResultIn(f, u) /\ Asked(d, u)
    BY <2>2, BadIn DEF ResultIn, IsResult, Asked
  <2> QED
    BY <1>1, <2>1, <2>3 DEF ResultIn, IsResult
<1> HIDE DEF r
<1>8. StructsOK(d)
  BY <1>2, <1>5 DEF Grows, StructsOK
<1>9. DOMAIN d.sigs = DOMAIN c.sigs \cup {f} /\ d.sigs[f] = r /\ \A g \in DOMAIN c.sigs : g # f => d.sigs[g] = c.sigs[g]
  BY <1>6
<1>10. FuncsOK(d)
  BY <1>6, <1>9 DEF Awaits, FuncsOK
<1>11. \A t : Asked(c, t) => Asked(d, t)
  BY <1>6 DEF Asked
<1>12. SigsOK(d)
  <2> SUFFICES ASSUME NEW g \in DOMAIN d.sigs
               PROVE  Fn(g) /\ ResultIn(g, d.sigs[g]) /\ Asked(d, d.sigs[g]) /\ Asked(d, ParamOf(g))
    BY DEF SigsOK
  <2>1. CASE g = f
    BY <1>7, <1>9, <2>1 DEF Awaits
  <2>2. CASE g # f
    BY <1>9, <1>11, <2>2 DEF Awaits, SigsOK
  <2> QED
    BY <2>1, <2>2
<1>13. NamesOK(d)
  <2> SUFFICES ASSUME NEW n \in DOMAIN d.names PROVE Fits(d, n, d.names[n])
    BY DEF NamesOK, NameOK
  <2>1. Fits(c, n, d.names[n])
    BY <1>6 DEF Awaits, NamesOK, NameOK
  <2> QED
    BY <1>6, <1>9, <1>11, <2>1 DEF Fits
<1> QED
  BY <1>6, <1>8, <1>9, <1>10, <1>12, <1>13 DEF CheckerOK, Declares, d, r

\* The place in the template that a place in a copy is copied from.
From(f, n) == <<<<f[1], None>>, n[2], n[3]>>

\* A copy, with the names that are in the template.
LEMMA ClonedIs ==
  ASSUME NEW c, DOMAIN c = Fields, NEW f
  PROVE  LET d == Cloned(c, f)
         IN  /\ DOMAIN d = Fields /\ d.sigs = c.sigs /\ d.structs = c.structs /\ d.owedStructs = c.owedStructs
             /\ d.structKeys = c.structKeys /\ d.owedFuncs = c.owedFuncs /\ d.funcKeys = c.funcKeys /\ d.diags = c.diags
             /\ DOMAIN c.names \subseteq DOMAIN d.names
             /\ \A n \in DOMAIN d.names : \/ n \in DOMAIN c.names /\ d.names[n] = c.names[n]
                                          \/ /\ n = <<f, n[2], n[3]>> /\ From(f, n) \in DOMAIN c.names
                                             /\ d.names[n] = c.names[From(f, n)]
<1> DEFINE written == <<f[1], None>>
           all == {<<f, n[2], n[3]>> : n \in DOMAIN c.names}
           copies == {n \in all : <<written, n[2], n[3]>> \in DOMAIN c.names}
           names == [n \in DOMAIN c.names \cup copies |-> IF n \in copies THEN c.names[<<written, n[2], n[3]>>] ELSE c.names[n]]
           d == Cloned(c, f)
<1>1. d = [c EXCEPT !.names = names]
  BY DEF Cloned
<1>2. \A n \in copies : n = <<f, n[2], n[3]>> /\ <<written, n[2], n[3]>> \in DOMAIN c.names
  OBVIOUS
<1> HIDE DEF copies
<1>3. DOMAIN names = DOMAIN c.names \cup copies
  OBVIOUS
<1>4. \A n \in DOMAIN names : \/ n \in DOMAIN c.names /\ names[n] = c.names[n]
                              \/ n \in copies /\ names[n] = c.names[<<written, n[2], n[3]>>]
  <2> SUFFICES ASSUME NEW n \in DOMAIN c.names \cup copies
               PROVE  \/ n \in DOMAIN c.names /\ names[n] = c.names[n]
                      \/ n \in copies /\ names[n] = c.names[<<written, n[2], n[3]>>]
    OBVIOUS
  <2>1. names[n] = IF n \in copies THEN c.names[<<written, n[2], n[3]>>] ELSE c.names[n]
    OBVIOUS
  <2> HIDE DEF names, written
  <2> QED
    BY <2>1
<1> HIDE DEF names, d
<1>5. /\ DOMAIN d = Fields /\ d.sigs = c.sigs /\ d.structs = c.structs /\ d.owedStructs = c.owedStructs
      /\ d.structKeys = c.structKeys /\ d.owedFuncs = c.owedFuncs /\ d.funcKeys = c.funcKeys /\ d.diags = c.diags
      /\ d.names = names
  BY <1>1 DEF Fields
<1> QED
  BY <1>2, <1>3, <1>4, <1>5 DEF d, From

\* A copy fits as the template does.
LEMMA ClonedOK ==
  ASSUME NEW f, NEW c, Awaits(c, f)
  PROVE  Awaits(Cloned(c, f), f)
<1> DEFINE d == Cloned(c, f)
<1>1. DOMAIN c = Fields
  BY DEF Awaits, StructsOK
<1>2. /\ DOMAIN d = Fields /\ d.sigs = c.sigs /\ d.structs = c.structs /\ d.owedStructs = c.owedStructs
      /\ d.structKeys = c.structKeys /\ d.owedFuncs = c.owedFuncs /\ d.funcKeys = c.funcKeys /\ d.diags = c.diags
      /\ \A n \in DOMAIN d.names : \/ n \in DOMAIN c.names /\ d.names[n] = c.names[n]
                                   \/ /\ n = <<f, n[2], n[3]>> /\ From(f, n) \in DOMAIN c.names
                                      /\ d.names[n] = c.names[From(f, n)]
  BY <1>1, ClonedIs
<1> HIDE DEF d
<1>3. StructsOK(d)
  BY <1>2 DEF Awaits, StructsOK
<1>4. \A t : Asked(c, t) => Asked(d, t)
  BY <1>2 DEF Asked
<1>5. SigsOK(d)
  BY <1>2, <1>4 DEF Awaits, SigsOK
<1>6. NamesOK(d)
  <2> SUFFICES ASSUME NEW n \in DOMAIN d.names PROVE Fits(d, n, d.names[n])
    BY DEF NamesOK, NameOK
  <2>1. Fits(c, n, d.names[n])
    <3>1. CASE n \in DOMAIN c.names /\ d.names[n] = c.names[n]
      BY <3>1 DEF Awaits, NamesOK, NameOK
    <3>2. CASE n = <<f, n[2], n[3]>> /\ From(f, n) \in DOMAIN c.names /\ d.names[n] = c.names[From(f, n)]
      <4>1. Fits(c, From(f, n), d.names[n])
        BY <3>2 DEF Awaits, NamesOK, NameOK
      <4>2. From(f, n)[1][1] = f[1] /\ n[1] = f /\ From(f, n)[2] = n[2] /\ From(f, n)[3] = n[3]
        <5>1. From(f, n)[1] = <<f[1], None>> /\ From(f, n)[2] = n[2] /\ From(f, n)[3] = n[3]
          BY DEF From
        <5> QED
          BY <3>2, <5>1
      <4>3. Body(From(f, n)[1]) = Body(n[1])
        BY <4>2 DEF Body
      <4>4. IsPlace(n) /\ OpAt(n) = OpAt(From(f, n))
        BY <3>2, <4>1, <4>2, <4>3 DEF Fits, IsPlace, OpAt, Awaits
      <4> QED
        BY <4>1, <4>4 DEF Fits
    <3> QED
      BY <1>2, <3>1, <3>2
  <2> QED
    BY <1>2, <1>4, <2>1 DEF Fits
<1> QED
  BY <1>2, <1>3, <1>5, <1>6 DEF Awaits, d

----------------------------------------------------------------------------
(* The order of checking.                                                  *)

\* A function on 1 .. n is a sequence.
LEMMA Listed ==
  ASSUME NEW n, n \in Nat, NEW s, s = [i \in 1 .. n |-> s[i]]
  PROVE  IsSequence(s) /\ Len(s) = n /\ DOMAIN s = 1 .. n
<1> DEFINE T == {s[i] : i \in 1 .. n}
<1>1. s \in [1 .. n -> T]
  <2>1. \A i \in 1 .. n : s[i] \in T
    OBVIOUS
  <2> HIDE DEF T
  <2> QED
    BY <2>1
<1> HIDE DEF T
<1>2. s \in Seq(T)
  BY <1>1, SeqDef
<1>3. Len(s) = n /\ DOMAIN s = 1 .. n
  BY <1>1, <1>2, LenProperties
<1> QED
  BY <1>2, <1>3, IntoSequence

\* What is true of a body that begins.
LEMMA Begun ==
  ASSUME ProgramOK(prog), NEW f, Fn(f), NEW c, f \in DOMAIN c.sigs,
         prog' = prog, checker' = c, task' = Begin(f)
  PROVE  BodyOK' /\ task'.fn = f
<1>1. task' = [fn |-> f, stmt |-> 1, calls |-> <<>>, type |-> None]
  BY DEF Begin
<1>2. task'.fn = f /\ task'.stmt = 1 /\ task'.calls = <<>> /\ task'.type = None
  BY <1>1
<1>3. 1 \in DOMAIN Body(f) /\ Body(f)' = Body(f)
  BY BodyIs, SameProgram
<1> QED
  BY <1>1, <1>2, <1>3, EmptySequence DEF BodyOK

\* A body that is being checked is busy.
LEMMA BusyIs ==
  ASSUME ProgramOK(prog), TypesInv, ~Idle
  PROVE  Busy
BY DEF TypesInv, TaskOK, StageOK, Busy

\* A step of checkExpr keeps all that.
LEMMA WorkTypes ==
  ASSUME ProgramOK(prog), TypesInv, Work
  PROVE  TypesInv' /\ prog' = prog
<1>1. ~Idle /\ Busy
  BY BusyIs DEF Work
<1>2. PICK k \in DOMAIN Expr : Works(Place(k))
  BY <1>1, WorkWorks
<1>3. /\ CheckerOK(checker)' /\ TaskOK' /\ UNCHANGED <<prog, stage, turn, todo>>
      /\ checker'.sigs = checker.sigs /\ checker'.structs = checker.structs
  BY <1>2 DEF Works, Goes, TaskOK
<1>4. StageOK'
  <2>1. stage' # "collect"
    BY <1>1, <1>3 DEF Busy
  <2> QED
    BY <1>3, <2>1, SameProgram DEF TypesInv, StageOK, Written
<1>5. TodoOK'
  BY <1>3, SameProgram DEF TypesInv, TodoOK
<1>6. OverOK'
  BY <1>1, <1>3 DEF TypesInv, OverOK
<1>7. MethodsOK'
  BY <1>3, SameProgram DEF TypesInv, MethodsOK
<1> QED
  BY <1>3, <1>4, <1>5, <1>6, <1>7 DEF TypesInv

\* What is collected is declared for the first time, or again as it was.
LEMMA CollectAwaits ==
  ASSUME ProgramOK(prog), TypesInv, stage = "collect", turn \in DOMAIN Order
  PROVE  LET f == <<Order[turn].name, None>>
         IN  Fn(f) /\ ~Asks(f) /\ f[2] = None /\ f[1] = Order[turn].name /\ Idle /\ todo = <<>> /\ turn \in Nat \ {0} /\ Awaits(checker, f)
<1> DEFINE f == <<Order[turn].name, None>>
<1>1. Fn(f) /\ ~Asks(f) /\ f[2] = None /\ f[1] = Order[turn].name
  BY NoType DEF Fn, IsName, Asks, IsArg
<1>2. Idle /\ todo = <<>> /\ turn \in Nat \ {0}
  BY DEF TypesInv, StageOK
<1> HIDE DEF f
<1>3. f \notin checker.funcKeys
  BY <1>1 DEF TypesInv, CheckerOK, FuncsOK
<1>4. Awaits(checker, f)
  BY <1>1, <1>3 DEF TypesInv, CheckerOK, FuncsOK, Awaits
<1> QED
  BY <1>1, <1>2, <1>4 DEF f

\* A declaration is collected.
LEMMA CollectTypes ==
  ASSUME ProgramOK(prog), TypesInv, CollectItem
  PROVE  TypesInv' /\ prog' = prog
<1> DEFINE f == <<Order[turn].name, None>>
           d == Declare(checker, f, Bad)
<1>1. /\ stage = "collect" /\ turn \in DOMAIN Order /\ turn' = turn + 1 /\ UNCHANGED <<prog, stage, todo, task>>
      /\ checker' = d
  BY DEF CollectItem
<1>2. Fn(f) /\ ~Asks(f) /\ f[2] = None /\ f[1] = Order[turn].name
  BY <1>1, CollectAwaits
<1>3. Idle /\ todo = <<>> /\ turn \in Nat \ {0}
  BY <1>1, CollectAwaits
<1>5. Awaits(checker, f)
  BY <1>1, CollectAwaits
<1> HIDE DEF f
<1> HIDE DEF d
<1>6. Declares(checker, f, Bad, d)
  BY <1>5, DeclareOK DEF d
<1>7. DOMAIN d.sigs = DOMAIN checker.sigs \cup {f} /\ CheckerOK(d) /\ d.names = checker.names /\ d.structs = checker.structs
  BY <1>6 DEF Declares
<1>8. CheckerOK(checker)'
  BY <1>1, <1>7, CheckerNext
<1>9. TaskOK' /\ OverOK'
  BY <1>1, <1>3 DEF TaskOK, OverOK, Idle
<1>10. StageOK'
  <2>1. \A i \in DOMAIN Order : i < turn + 1 => i < turn \/ i = turn
    BY <1>1, <1>3, Declarations
  <2>2. \A i \in DOMAIN Order : i < turn => <<Order[i].name, None>> \in DOMAIN checker.sigs
    BY <1>1 DEF TypesInv, StageOK, Written
  <2>3. \A i \in DOMAIN Order : i < turn + 1 => <<Order[i].name, None>> \in DOMAIN d.sigs
    BY <1>7, <2>1, <2>2 DEF f
  <2>4. checker.names = <<>> /\ turn + 1 \in Nat \ {0}
    BY <1>1, <1>3 DEF TypesInv, StageOK
  <2> QED
    BY <1>1, <1>3, <1>7, <2>3, <2>4, SameProgram DEF StageOK, Written, Idle
<1>11. TodoOK'
  BY <1>1, SameProgram DEF TypesInv, TodoOK
<1>12. MethodsOK'
  BY <1>1, <1>2, <1>3, <1>7, SameProgram, EmptySequence DEF TypesInv, MethodsOK
<1> QED
  BY <1>1, <1>8, <1>9, <1>10, <1>11, <1>12 DEF TypesInv

\* What is written is checked.
LEMMA CheckTypes ==
  ASSUME ProgramOK(prog), TypesInv, CheckItem
  PROVE  TypesInv' /\ prog' = prog
<1> DEFINE f == <<Order[turn].name, None>>
<1>1. /\ stage = "items" /\ turn \in DOMAIN Order /\ task' = Begin(f) /\ turn' = turn + 1
      /\ UNCHANGED <<prog, stage, checker, todo>>
  BY DEF CheckItem
<1>2. f \in DOMAIN checker.sigs
  BY <1>1 DEF TypesInv, StageOK, Written
<1>3. Fn(f)
  BY <1>1 DEF Fn, IsName
<1> HIDE DEF f
<1>4. BodyOK'
  BY <1>1, <1>2, <1>3, Begun
<1>5. CheckerOK(checker)'
  BY <1>1, CheckerNext DEF TypesInv
<1>6. StageOK'
  <2>1. turn + 1 \in Nat \ {0}
    BY DEF TypesInv, StageOK
  <2> QED
    BY <1>1, <2>1, SameProgram DEF TypesInv, StageOK, Written
<1>7. TodoOK' /\ OverOK' /\ MethodsOK'
  BY <1>1, SameProgram DEF TypesInv, TodoOK, OverOK, MethodsOK
<1> QED
  BY <1>1, <1>4, <1>5, <1>6, <1>7 DEF TypesInv, TaskOK

\* The stages.
LEMMA StageTypes ==
  ASSUME ProgramOK(prog), TypesInv, NextStage \/ NextQueue
  PROVE  TypesInv' /\ prog' = prog
<1>1. /\ UNCHANGED <<prog, checker, todo, task>> /\ Idle
      /\ stage' \in {"items", "structs", "funcs", "over"}
      /\ turn' \in {1, turn}
      /\ stage' # "structs" => todo = <<>>
      /\ stage' = "over" => checker.owedStructs = <<>> /\ checker.owedFuncs = <<>> /\ todo = <<>>
  BY DEF NextStage, NextQueue, TypesInv, StageOK
<1>2. \A i \in DOMAIN Order : Written(i) \in DOMAIN checker.sigs
  <2>1. CASE stage # "collect"
    BY <2>1 DEF TypesInv, StageOK
  <2>2. CASE stage = "collect"
    <3>1. turn \notin DOMAIN Order /\ turn \in Nat \ {0}
      BY <2>2 DEF NextStage, NextQueue, TypesInv, StageOK
    <3>2. \A i \in DOMAIN Order : i < turn
      BY <3>1, Declarations
    <3> QED
      BY <2>2, <3>2 DEF TypesInv, StageOK
  <2> QED
    BY <2>1, <2>2
<1>3. CheckerOK(checker)'
  BY <1>1, CheckerNext DEF TypesInv
<1>4. TaskOK' /\ OverOK'
  BY <1>1 DEF TaskOK, OverOK, Idle
<1>5. StageOK'
  <2>1. turn' \in Nat \ {0}
    BY <1>1 DEF TypesInv, StageOK
  <2> QED
    BY <1>1, <1>2, <2>1, SameProgram DEF StageOK, Written
<1>6. TodoOK' /\ MethodsOK'
  BY <1>1, SameProgram DEF TypesInv, TodoOK, MethodsOK
<1> QED
  BY <1>1, <1>3, <1>4, <1>5, <1>6 DEF TypesInv

\* The next expression of a body.
LEMMA NextExprTypes ==
  ASSUME ProgramOK(prog), TypesInv, NextExpr
  PROVE  TypesInv' /\ prog' = prog
<1>1. /\ ~Idle /\ task.type # None /\ task.calls = <<>> /\ task.stmt # Len(Body(task.fn))
      /\ task' = [task EXCEPT !.stmt = @ + 1, !.type = None] /\ UNCHANGED <<prog, stage, turn, todo, checker>>
  BY DEF NextExpr, ExprDone
<1>2. Busy
  BY <1>1, BusyIs
<1>3. task = [fn |-> task.fn, stmt |-> task.stmt, calls |-> task.calls, type |-> task.type]
  BY <1>2 DEF Busy, BodyOK
<1>4. task' = [fn |-> task.fn, stmt |-> task.stmt + 1, calls |-> <<>>, type |-> None]
  BY <1>1, <1>3
<1>5. task.stmt + 1 \in DOMAIN Body(task.fn) /\ Body(task.fn)' = Body(task.fn)
  BY <1>1, <1>2, Here, BodyIs, SameProgram DEF Busy
<1>6. BodyOK'
  <2>1. task'.fn = task.fn /\ task'.stmt = task.stmt + 1 /\ task'.calls = <<>> /\ task'.type = None
    BY <1>4
  <2> QED
    BY <1>1, <1>2, <1>4, <1>5, <2>1, EmptySequence, Here DEF BodyOK
<1>7. CheckerOK(checker)'
  BY <1>1, CheckerNext DEF TypesInv
<1>8. StageOK'
  BY <1>1, <1>2, SameProgram DEF TypesInv, StageOK, Written, Busy
<1>9. TodoOK' /\ OverOK' /\ MethodsOK'
  BY <1>1, SameProgram DEF TypesInv, TodoOK, OverOK, MethodsOK
<1> QED
  BY <1>1, <1>6, <1>7, <1>8, <1>9 DEF TypesInv, TaskOK

\* The end of a body.
LEMMA EndTypes ==
  ASSUME ProgramOK(prog), TypesInv, EndBody
  PROVE  TypesInv' /\ prog' = prog
<1> DEFINE f == task.fn
           r == IF Known(task.type) THEN task.type ELSE Unit
           c == [checker EXCEPT !.sigs[f] = r]
<1>1. /\ ~Idle /\ task.type # None /\ task' = NoTask /\ UNCHANGED <<prog, stage, turn, todo>>
      /\ checker' = IF RetOf(f) = None THEN c ELSE ReportIf(RetOf(f) # Unit /\ Clash(task.type, RetOf(f)), checker, "mismatch")
  BY DEF EndBody, ExprDone
<1>2. Busy
  BY <1>1, BusyIs
<1>3. f \in DOMAIN checker.sigs /\ Fn(f) /\ ResultIn(f, task.type) /\ Asked(checker, task.type)
  BY <1>1, <1>2, Here DEF Busy, BodyOK
<1>4. /\ DOMAIN c = Fields /\ c.names = checker.names /\ c.structs = checker.structs
      /\ c.owedStructs = checker.owedStructs /\ c.structKeys = checker.structKeys
      /\ c.owedFuncs = checker.owedFuncs /\ c.funcKeys = checker.funcKeys /\ c.diags = checker.diags
      /\ DOMAIN c.sigs = DOMAIN checker.sigs /\ c.sigs[f] = r /\ \A g \in DOMAIN checker.sigs : g # f => c.sigs[g] = checker.sigs[g]
  <2>1. DOMAIN checker = Fields
    BY <1>2 DEF Busy, CheckerOK, StructsOK
  <2> HIDE DEF r
  <2> QED
    BY <1>3, <2>1 DEF Fields
<1>5. ResultIn(f, r) /\ Asked(checker, r)
  <2>1. IsType(Unit) /\ Unit.of # "T" /\ Unit.n = 0
    BY TyIs, TypeOf DEF Unit
  <2> QED
    BY <1>3, <2>1 DEF ResultIn, IsResult, Asked
<1> HIDE DEF r, c
<1>6. CheckerOK(c)
  <2>1. CheckerOK(checker)
    BY <1>2 DEF Busy
  <2>2. \A t : Asked(checker, t) => Asked(c, t)
    BY <1>4 DEF Asked
  <2>3. StructsOK(c) /\ FuncsOK(c)
    BY <1>4, <2>1 DEF CheckerOK, StructsOK, FuncsOK
  <2>4. SigsOK(c)
    <3> SUFFICES ASSUME NEW g \in DOMAIN c.sigs
                 PROVE  Fn(g) /\ ResultIn(g, c.sigs[g]) /\ Asked(c, c.sigs[g]) /\ Asked(c, ParamOf(g))
      BY DEF SigsOK
    <3>1. CASE g = f
      BY <1>3, <1>4, <1>5, <2>1, <2>2, <3>1 DEF CheckerOK, SigsOK
    <3>2. CASE g # f
      BY <1>4, <2>1, <2>2, <3>2 DEF CheckerOK, SigsOK
    <3> QED
      BY <3>1, <3>2
  <2>5. NamesOK(c)
    <3> SUFFICES ASSUME NEW n \in DOMAIN c.names PROVE Fits(c, n, c.names[n])
      BY DEF NamesOK, NameOK
    <3>1. Fits(checker, n, c.names[n])
      BY <1>4, <2>1 DEF CheckerOK, NamesOK, NameOK
    <3> QED
      BY <1>4, <2>2, <3>1 DEF Fits
  <2> QED
    BY <2>3, <2>4, <2>5 DEF CheckerOK
<1>7. CheckerOK(checker') /\ checker'.structs = checker.structs /\ DOMAIN checker'.sigs = DOMAIN checker.sigs
  <2> DEFINE d == ReportIf(RetOf(f) # Unit /\ Clash(task.type, RetOf(f)), checker, "mismatch")
  <2>1. CheckerOK(d) /\ Goes(checker, d)
    BY <1>2, ReportIfOK DEF Busy
  <2> HIDE DEF d
  <2>2. checker' = c \/ checker' = d
    BY <1>1 DEF d
  <2> QED
    BY <1>4, <1>6, <2>1, <2>2 DEF Goes
<1>8. CheckerOK(checker)'
  BY <1>1, <1>7, CheckerNext
<1>9. TaskOK'
  BY <1>1 DEF TaskOK, Idle
<1>10. StageOK'
  BY <1>1, <1>2, <1>7, SameProgram DEF TypesInv, StageOK, Written, Busy
<1>11. TodoOK' /\ OverOK' /\ MethodsOK'
  <2>1. stage # "over"
    BY <1>1 DEF TypesInv, OverOK
  <2> QED
    BY <1>1, <1>7, <2>1, SameProgram DEF TypesInv, TodoOK, OverOK, MethodsOK
<1> QED
  BY <1>1, <1>8, <1>9, <1>10, <1>11 DEF TypesInv

\* What a copy adds to the names.
Copied(c, f) ==
  /\ DOMAIN c.names \subseteq DOMAIN checker'.names
  /\ \A n \in DOMAIN checker'.names : \/ n \in DOMAIN c.names /\ checker'.names[n] = c.names[n]
                                      \/ /\ n = <<f, n[2], n[3]>> /\ From(f, n) \in DOMAIN c.names
                                         /\ checker'.names[n] = c.names[From(f, n)]

\* A body of an instance is declared, copied and begun.
LEMMA InstanceBegun ==
  ASSUME ProgramOK(prog), NEW f, NEW c, Awaits(c, f), NEW u, u = Bad \/ u = Unit,
         prog' = prog, checker' = Declare(Cloned(c, f), f, u), task' = Begin(f)
  PROVE  /\ CheckerOK(checker)' /\ BodyOK' /\ TaskOK' /\ checker'.structs = c.structs /\ checker'.diags = c.diags
         /\ c.structKeys \subseteq checker'.structKeys /\ Copied(c, f)
         /\ DOMAIN checker'.sigs = DOMAIN c.sigs \cup {f} /\ checker'.sigs[f] = (IF RetOf(f) = None THEN u ELSE RetOf(f))
         /\ \A g \in DOMAIN c.sigs : g # f => checker'.sigs[g] = c.sigs[g]
<1> DEFINE b == Cloned(c, f)
           d == Declare(b, f, u)
<1>1. Awaits(b, f)
  BY ClonedOK
<1>2. /\ b.sigs = c.sigs /\ b.structs = c.structs /\ b.diags = c.diags /\ b.structKeys = c.structKeys
      /\ DOMAIN c.names \subseteq DOMAIN b.names
      /\ \A n \in DOMAIN b.names : \/ n \in DOMAIN c.names /\ b.names[n] = c.names[n]
                                   \/ /\ n = <<f, n[2], n[3]>> /\ From(f, n) \in DOMAIN c.names
                                      /\ b.names[n] = c.names[From(f, n)]
  <2>1. DOMAIN c = Fields
    BY DEF Awaits, StructsOK
  <2> QED
    BY <2>1, ClonedIs
<1> HIDE DEF b
<1>3. Declares(b, f, u, d)
  BY <1>1, DeclareOK
<1>4. checker' = d
  BY DEF b
<1> HIDE DEF d
<1>5. /\ CheckerOK(d) /\ d.structs = c.structs /\ d.diags = c.diags /\ c.structKeys \subseteq d.structKeys /\ d.names = b.names
      /\ DOMAIN d.sigs = DOMAIN c.sigs \cup {f} /\ d.sigs[f] = (IF RetOf(f) = None THEN u ELSE RetOf(f))
      /\ \A g \in DOMAIN c.sigs : g # f => d.sigs[g] = c.sigs[g]
  BY <1>2, <1>3 DEF Declares
<1>6. BodyOK'
  BY <1>1, <1>4, <1>5, Begun DEF Awaits
<1>7. Copied(c, f)
  BY <1>2, <1>4, <1>5 DEF Copied
<1> QED
  BY <1>4, <1>5, <1>6, <1>7, CheckerNext DEF TaskOK

\* What makes an instance of a function.
LEMMA FuncAwaits ==
  ASSUME ProgramOK(prog), TypesInv, InstantiateFunc
  PROVE  \E f, c : /\ stage = "funcs" /\ Idle /\ UNCHANGED <<prog, stage, turn, todo>>
                   /\ checker' = Declare(Cloned(c, f), f, Bad) /\ task' = Begin(f)
                   /\ Awaits(c, f) /\ Asks(f) /\ f \notin DOMAIN checker.sigs
                   /\ c.names = checker.names /\ c.structs = checker.structs /\ c.sigs = checker.sigs
                   /\ c.diags = checker.diags /\ c.structKeys = checker.structKeys
<1> DEFINE f == Head(checker.owedFuncs)
           c == [checker EXCEPT !.owedFuncs = Tail(@)]
<1>1. /\ stage = "funcs" /\ Idle /\ checker.owedFuncs # <<>> /\ UNCHANGED <<prog, stage, turn, todo>>
      /\ checker' = Declare(Cloned(c, f), f, Bad) /\ task' = Begin(f)
  BY DEF InstantiateFunc
<1>2. /\ StructsOK(checker) /\ FuncsOK(checker) /\ SigsOK(checker) /\ NamesOK(checker)
  BY DEF TypesInv, CheckerOK
<1>3. /\ DOMAIN c = Fields /\ c.names = checker.names /\ c.structs = checker.structs
      /\ c.owedStructs = checker.owedStructs /\ c.structKeys = checker.structKeys
      /\ c.owedFuncs = Tail(checker.owedFuncs) /\ c.funcKeys = checker.funcKeys /\ c.diags = checker.diags
      /\ c.sigs = checker.sigs
  BY <1>2 DEF StructsOK, Fields
<1> HIDE DEF c, f
<1>4. /\ IsSequence(c.owedFuncs) /\ Distinct(c.owedFuncs) /\ f \in Elements(checker.owedFuncs)
      /\ f \notin Elements(c.owedFuncs) /\ Elements(checker.owedFuncs) = Elements(c.owedFuncs) \cup {f}
  BY <1>1, <1>2, <1>3, TakeOne DEF FuncsOK, f
<1>5. Asks(f) /\ f \notin DOMAIN checker.sigs /\ f \in checker.funcKeys
  BY <1>2, <1>4 DEF FuncsOK
<1>6. Fn(f)
  BY <1>5, Declared DEF Asks, Fn
<1>7. Awaits(c, f)
  <2>1. StructsOK(c)
    BY <1>2, <1>3 DEF StructsOK
  <2>2. \A t : Asked(checker, t) => Asked(c, t)
    BY <1>3 DEF Asked
  <2>3. SigsOK(c)
    BY <1>2, <1>3, <2>2 DEF SigsOK
  <2>4. NamesOK(c)
    <3> SUFFICES ASSUME NEW n \in DOMAIN c.names PROVE Fits(c, n, c.names[n])
      BY DEF NamesOK, NameOK
    <3>1. Fits(checker, n, c.names[n])
      BY <1>2, <1>3 DEF NamesOK, NameOK
    <3> QED
      BY <1>3, <2>2, <3>1 DEF Fits
  <2>5. Elements(c.owedFuncs) = c.funcKeys \ (DOMAIN c.sigs \cup {f})
    BY <1>2, <1>3, <1>4 DEF FuncsOK
  <2> QED
    BY <1>2, <1>3, <1>4, <1>5, <1>6, <2>1, <2>3, <2>4, <2>5 DEF FuncsOK, Awaits
<1> QED
  BY <1>1, <1>3, <1>5, <1>7

\* An instance of a function.
LEMMA FuncTypes ==
  ASSUME ProgramOK(prog), TypesInv, InstantiateFunc
  PROVE  TypesInv' /\ prog' = prog
<1>1. PICK f, c : /\ stage = "funcs" /\ Idle /\ UNCHANGED <<prog, stage, turn, todo>>
                  /\ checker' = Declare(Cloned(c, f), f, Bad) /\ task' = Begin(f)
                  /\ Awaits(c, f) /\ Asks(f) /\ c.structs = checker.structs /\ c.sigs = checker.sigs
  BY FuncAwaits
<1>2. /\ CheckerOK(checker)' /\ TaskOK' /\ checker'.structs = checker.structs
      /\ DOMAIN checker'.sigs = DOMAIN checker.sigs \cup {f}
  BY <1>1, InstanceBegun
<1>3. StageOK'
  BY <1>1, <1>2, SameProgram DEF TypesInv, StageOK, Written
<1>4. TodoOK' /\ OverOK'
  BY <1>1, SameProgram DEF TypesInv, TodoOK, OverOK
<1>5. MethodsOK'
  <2>1. ~IsMethod(f[1]) /\ todo = <<>>
    BY <1>1, MethodIs DEF Asks, TypesInv, StageOK
  <2> QED
    BY <1>1, <1>2, <2>1, SameProgram, EmptySequence DEF TypesInv, MethodsOK
<1> QED
  BY <1>1, <1>2, <1>3, <1>4, <1>5 DEF TypesInv

\* What makes a method of an instance.
LEMMA MethodAwaits ==
  ASSUME ProgramOK(prog), TypesInv, InstantiateMethod
  PROVE  \E f : /\ stage = "structs" /\ Idle /\ UNCHANGED <<prog, stage, turn>>
                /\ checker' = Declare(Cloned(checker, f), f, Unit) /\ task' = Begin(f) /\ todo' = Tail(todo)
                /\ IsSequence(Tail(todo)) /\ Distinct(Tail(todo)) /\ f \in Elements(todo) /\ f \notin Elements(Tail(todo))
                /\ Elements(todo) = Elements(Tail(todo)) \cup {f}
                /\ Awaits(checker, f) /\ Fn(f) /\ IsMethod(f[1]) /\ IsArg(f[2]) /\ f \notin DOMAIN checker.sigs
                /\ Whole(f[2]) \in checker.structs
<1> DEFINE f == Head(todo)
<1>1. /\ Idle /\ todo # <<>> /\ UNCHANGED <<prog, stage, turn>>
      /\ checker' = Declare(Cloned(checker, f), f, Unit) /\ task' = Begin(f) /\ todo' = Tail(todo)
  BY DEF InstantiateMethod
<1> HIDE DEF f
<1>2. /\ IsSequence(Tail(todo)) /\ Distinct(Tail(todo)) /\ f \in Elements(todo) /\ f \notin Elements(Tail(todo))
      /\ Elements(todo) = Elements(Tail(todo)) \cup {f}
  BY <1>1, TakeOne DEF TypesInv, TodoOK, MethodsOK, f
<1>3. f = <<f[1], f[2]>> /\ IsMethod(f[1]) /\ IsArg(f[2]) /\ f \notin DOMAIN checker.sigs /\ Whole(f[2]) \in checker.structs
  BY <1>2 DEF TypesInv, TodoOK, MethodsOK
<1>4. Fn(f) /\ ~Asks(f)
  BY <1>3, MethodIs DEF Fn, Asks
<1>5. f \notin checker.funcKeys
  BY <1>4 DEF TypesInv, CheckerOK, FuncsOK
<1>6. Awaits(checker, f)
  BY <1>4, <1>5 DEF TypesInv, CheckerOK, FuncsOK, Awaits
<1>7. stage = "structs"
  BY <1>1 DEF TypesInv, StageOK
<1> QED
  BY <1>1, <1>2, <1>3, <1>4, <1>6, <1>7

\* A method of an instance.
LEMMA MethodTypes ==
  ASSUME ProgramOK(prog), TypesInv, InstantiateMethod
  PROVE  TypesInv' /\ prog' = prog
<1>1. PICK f : /\ stage = "structs" /\ Idle /\ UNCHANGED <<prog, stage, turn>>
               /\ checker' = Declare(Cloned(checker, f), f, Unit) /\ task' = Begin(f) /\ todo' = Tail(todo)
               /\ IsSequence(Tail(todo)) /\ Distinct(Tail(todo)) /\ f \in Elements(todo) /\ f \notin Elements(Tail(todo))
               /\ Elements(todo) = Elements(Tail(todo)) \cup {f}
               /\ Awaits(checker, f) /\ f \notin DOMAIN checker.sigs /\ Whole(f[2]) \in checker.structs
  BY MethodAwaits
<1>2. /\ CheckerOK(checker)' /\ TaskOK' /\ checker'.structs = checker.structs
      /\ DOMAIN checker'.sigs = DOMAIN checker.sigs \cup {f}
  BY <1>1, InstanceBegun
<1>3. StageOK'
  BY <1>1, <1>2, SameProgram DEF TypesInv, StageOK, Written
<1>4. TodoOK' /\ OverOK'
  BY <1>1, SameProgram DEF TypesInv, TodoOK, OverOK
<1>5. MethodsOK'
  BY <1>1, <1>2, SameProgram DEF TypesInv, MethodsOK
<1> QED
  BY <1>1, <1>2, <1>3, <1>4, <1>5 DEF TypesInv

\* An instance of S is made of what is inside.
LEMMA InnerIs ==
  ASSUME NEW s, Struct(s)
  PROVE  IsArg(Inner(s)) /\ Whole(Inner(s)) = s /\ Inner(s).n = s.n - 1 /\ Inner(s).of = s.of
<1>1. IsType(s) /\ s.of # "T" /\ s.n # 0 /\ s = Ty(s.n, s.of) /\ s.n \in Nat /\ s.of # "none" /\ s.of # "?"
  BY TypeIs DEF Struct, IsArg
<1>2. s.n - 1 \in Nat /\ (s.n - 1) + 1 = s.n
  BY <1>1
<1>3. IsType(Inner(s)) /\ Inner(s).n = s.n - 1 /\ Inner(s).of = s.of
  BY <1>1, <1>2, TypeOf, TyIs DEF Inner
<1> QED
  BY <1>1, <1>2, <1>3 DEF IsArg, Whole

\* And what is inside of an instance made of it.
LEMMA WholeIs ==
  ASSUME NEW t, IsArg(t)
  PROVE  Struct(Whole(t)) /\ Inner(Whole(t)) = t
<1>1. IsType(t) /\ t.of # "T" /\ t = Ty(t.n, t.of) /\ t.n \in Nat /\ t.of # "none" /\ t.of # "?"
  BY TypeIs DEF IsArg
<1>2. t.n + 1 \in Nat /\ (t.n + 1) - 1 = t.n /\ t.n + 1 # 0
  BY <1>1
<1>3. IsType(Whole(t)) /\ Whole(t).n = t.n + 1 /\ Whole(t).of = t.of
  BY <1>1, <1>2, TypeOf, TyIs DEF Whole
<1> QED
  BY <1>1, <1>2, <1>3 DEF IsArg, Inner, Struct

\* Methods have names of their own.
LEMMA MethodNames ==
  ASSUME ProgramOK(prog)
  PROVE  /\ Len(prog.methods) \in Nat /\ DOMAIN prog.methods = 1 .. Len(prog.methods)
         /\ \A i, j \in DOMAIN prog.methods : prog.methods[i].name = prog.methods[j].name => i = j
<1> DEFINE F == prog.fns
           M == prog.methods
<1>1. IsSequence(F) /\ IsSequence(M)
  BY DEF ProgramOK
<1>2. /\ F \in Seq(Elements(F) \cup Elements(M)) /\ Len(F) \in Nat /\ DOMAIN F = 1 .. Len(F)
      /\ M \in Seq(Elements(F) \cup Elements(M)) /\ Len(M) \in Nat /\ DOMAIN M = 1 .. Len(M)
  <2>1. /\ F \in Seq(Elements(F)) /\ Len(F) \in Nat /\ DOMAIN F = 1 .. Len(F)
        /\ M \in Seq(Elements(M)) /\ Len(M) \in Nat /\ DOMAIN M = 1 .. Len(M)
    BY <1>1, SequenceShape
  <2>2. F \in Seq(Elements(F) \cup Elements(M)) /\ M \in Seq(Elements(F) \cup Elements(M))
    BY <2>1, SeqDef
  <2> QED
    BY <2>1, <2>2
<1>3. /\ Len(Order) = Len(F) + Len(M)
      /\ \A i \in 1 .. Len(F) + Len(M) : Order[i] = IF i <= Len(F) THEN F[i] ELSE M[i - Len(F)]
  BY <1>2, ConcatProperties DEF Order
<1> HIDE DEF F, M
<1>4. ASSUME NEW i \in 1 .. Len(M) PROVE Len(F) + i \in DOMAIN Order /\ Order[Len(F) + i] = M[i]
  <2>1. Len(F) + i \in 1 .. Len(F) + Len(M) /\ ~(Len(F) + i <= Len(F)) /\ (Len(F) + i) - Len(F) = i
    BY <1>2, <1>4
  <2> QED
    BY <1>3, <2>1, Declarations
<1>5. ASSUME NEW i \in 1 .. Len(M), NEW j \in 1 .. Len(M), M[i].name = M[j].name PROVE i = j
  <2>1. Len(F) + i = Len(F) + j
    BY <1>4, <1>5, Declarations
  <2> QED
    BY <1>2, <1>5, <2>1
<1> QED
  BY <1>2, <1>5 DEF M

\* An instance of S comes into being; its methods are to be declared and checked.
LEMMA StructTypes ==
  ASSUME ProgramOK(prog), TypesInv, InstantiateStruct
  PROVE  TypesInv' /\ prog' = prog
<1> DEFINE s == Head(checker.owedStructs)
           c == [checker EXCEPT !.owedStructs = Tail(@), !.structs = @ \cup {s}]
<1>1. /\ stage = "structs" /\ Idle /\ todo = <<>> /\ checker.owedStructs # <<>> /\ UNCHANGED <<prog, stage, turn, task>>
      /\ checker' = c /\ todo' = [i \in DOMAIN prog.methods |-> <<prog.methods[i].name, Inner(s)>>]
  BY DEF InstantiateStruct, Inner
<1>2. /\ StructsOK(checker) /\ FuncsOK(checker) /\ SigsOK(checker) /\ NamesOK(checker)
  BY DEF TypesInv, CheckerOK
<1>3. /\ DOMAIN c = Fields /\ c.names = checker.names /\ c.structs = checker.structs \cup {s}
      /\ c.owedStructs = Tail(checker.owedStructs) /\ c.structKeys = checker.structKeys
      /\ c.owedFuncs = checker.owedFuncs /\ c.funcKeys = checker.funcKeys /\ c.diags = checker.diags
      /\ c.sigs = checker.sigs
  BY <1>2 DEF StructsOK, Fields
<1> HIDE DEF c, s
<1>4. /\ IsSequence(c.owedStructs) /\ Distinct(c.owedStructs) /\ s \in Elements(checker.owedStructs)
      /\ s \notin Elements(c.owedStructs) /\ Elements(checker.owedStructs) = Elements(c.owedStructs) \cup {s}
  BY <1>1, <1>2, <1>3, TakeOne DEF StructsOK, s
<1>5. s \in checker.structKeys /\ s \notin checker.structs /\ Struct(s)
  BY <1>2, <1>4 DEF StructsOK
<1>6. CheckerOK(c)
  <2>1. StructsOK(c)
    BY <1>2, <1>3, <1>4, <1>5 DEF StructsOK
  <2>2. \A t : Asked(checker, t) => Asked(c, t)
    BY <1>3 DEF Asked
  <2>3. SigsOK(c)
    BY <1>2, <1>3, <2>2 DEF SigsOK
  <2>4. NamesOK(c)
    <3> SUFFICES ASSUME NEW n \in DOMAIN c.names PROVE Fits(c, n, c.names[n])
      BY DEF NamesOK, NameOK
    <3>1. Fits(checker, n, c.names[n])
      BY <1>2, <1>3 DEF NamesOK, NameOK
    <3> QED
      BY <1>3, <2>2, <3>1 DEF Fits
  <2>5. FuncsOK(c)
    BY <1>2, <1>3 DEF FuncsOK
  <2> QED
    BY <2>1, <2>3, <2>4, <2>5 DEF CheckerOK
<1>7. CheckerOK(checker)' /\ TaskOK' /\ OverOK'
  BY <1>1, <1>6, CheckerNext DEF TaskOK, Idle, OverOK
<1>8. StageOK'
  BY <1>1, <1>3, SameProgram DEF TypesInv, StageOK, Written
<1>9. /\ IsSequence(todo') /\ DOMAIN todo' = DOMAIN prog.methods
      /\ \A i \in DOMAIN prog.methods : todo'[i] = <<prog.methods[i].name, Inner(s)>>
  <2>1. todo' = [i \in 1 .. Len(prog.methods) |-> todo'[i]] /\ Len(prog.methods) \in Nat
    BY <1>1, MethodNames
  <2>2. IsSequence(todo')
    BY <2>1, Listed
  <2> QED
    BY <1>1, <2>2
<1>10. Elements(todo') = {<<prog.methods[i].name, Inner(s)>> : i \in DOMAIN prog.methods}
  BY <1>9 DEF Elements
<1>11. IsArg(Inner(s)) /\ Whole(Inner(s)) = s
  BY <1>5, InnerIs
<1>12. TodoOK'
  <2>1. \A f \in Elements(todo') : f = <<f[1], f[2]>> /\ IsMethod(f[1]) /\ IsArg(f[2])
    BY <1>10, <1>11 DEF IsMethod
  <2> QED
    BY <1>1, <1>9, <2>1, SameProgram DEF TodoOK
<1>13. MethodsOK'
  <2>1. Distinct(todo')
    <3> SUFFICES ASSUME NEW i \in DOMAIN todo', NEW j \in DOMAIN todo', todo'[i] = todo'[j] PROVE i = j
      BY DEF Distinct
    <3>1. prog.methods[i].name = prog.methods[j].name
      BY <1>9
    <3> QED
      BY <1>9, <3>1, MethodNames
  <2>2. \A f \in Elements(todo') : IsMethod(f[1]) /\ f[2] = Inner(s) /\ f[2] # None
    <3>1. Inner(s) # None
      BY <1>11, NoType DEF IsArg
    <3> QED
      BY <1>10, <3>1 DEF IsMethod
  <2>3. \A f \in Elements(todo') : f \notin DOMAIN checker.sigs /\ Whole(f[2]) \in checker.structs \cup {s}
    <3> SUFFICES ASSUME NEW f \in Elements(todo')
                 PROVE  f \notin DOMAIN checker.sigs /\ Whole(f[2]) \in checker.structs \cup {s}
      OBVIOUS
    <3>1. IsMethod(f[1]) /\ Whole(f[2]) = s /\ f[2] # None
      BY <1>11, <2>2
    <3>2. ASSUME f \in DOMAIN checker.sigs PROVE FALSE
      BY <1>5, <3>1, <3>2 DEF TypesInv, MethodsOK
    <3> QED
      BY <3>1, <3>2
  <2>4. \A r \in checker.structs \cup {s} : \A m \in {prog.methods[i].name : i \in DOMAIN prog.methods} :
          <<m, Inner(r)>> \in DOMAIN checker.sigs \cup Elements(todo')
    BY <1>1, <1>10, EmptySequence DEF TypesInv, MethodsOK
  <2>5. \A f \in DOMAIN checker.sigs : f[2] # None /\ IsMethod(f[1]) => Whole(f[2]) \in checker.structs \cup {s}
    BY DEF TypesInv, MethodsOK
  <2>6. checker'.sigs = checker.sigs /\ checker'.structs = checker.structs \cup {s} /\ prog' = prog
    BY <1>1, <1>3
  <2> QED
    BY <2>1, <2>3, <2>4, <2>5, <2>6, SameProgram DEF MethodsOK
<1> QED
  BY <1>1, <1>7, <1>8, <1>12, <1>13 DEF TypesInv

\* Nothing has been asked for at first.
LEMMA TypesInit ==
  ASSUME MonoInit
  PROVE  ProgramOK(prog) /\ TypesInv
<1>1. ProgramOK(prog)
  BY ProgramsAssumption DEF MonoInit
<1>2. /\ stage = "collect" /\ turn = 1 /\ todo = <<>> /\ task = NoTask
      /\ checker = [names |-> <<>>, sigs |-> <<>>, structs |-> {}, owedStructs |-> <<>>, owedFuncs |-> <<>>,
                    structKeys |-> {}, funcKeys |-> {}, diags |-> {}]
  BY DEF MonoInit
<1>3. /\ DOMAIN checker = Fields /\ checker.names = <<>> /\ checker.sigs = <<>> /\ checker.structs = {}
      /\ checker.owedStructs = <<>> /\ checker.owedFuncs = <<>> /\ checker.structKeys = {} /\ checker.funcKeys = {}
  BY <1>2 DEF Fields
<1>4. DOMAIN checker.names = {} /\ DOMAIN checker.sigs = {}
  BY <1>3, EmptySequence
<1>5. CheckerOK(checker)
  BY <1>3, <1>4, EmptySequence DEF CheckerOK, StructsOK, FuncsOK, SigsOK, NamesOK
<1>6. TaskOK /\ OverOK
  BY <1>2 DEF TaskOK, OverOK, Idle
<1>7. StageOK
  <2>1. \A i \in DOMAIN Order : ~(i < turn)
    BY <1>1, <1>2, Declarations
  <2> QED
    BY <1>2, <1>3, <2>1 DEF StageOK, Idle
<1>8. TodoOK /\ MethodsOK
  BY <1>2, <1>3, <1>4, EmptySequence DEF TodoOK, MethodsOK
<1> QED
  BY <1>1, <1>5, <1>6, <1>7, <1>8 DEF TypesInv

\* Nothing done.
LEMMA TypesStutter ==
  ASSUME TypesInv, UNCHANGED monoVars
  PROVE  TypesInv' /\ prog' = prog
<1>1. /\ prog' = prog /\ stage' = stage /\ turn' = turn /\ checker' = checker /\ todo' = todo /\ task' = task
  BY DEF monoVars
<1>2. CheckerOK(checker)'
  BY <1>1, CheckerNext DEF TypesInv
<1>3. StageOK' /\ TodoOK' /\ OverOK' /\ MethodsOK'
  BY <1>1, SameProgram DEF TypesInv, StageOK, TodoOK, OverOK, MethodsOK, Idle, Written
<1>4. TaskOK'
  <2>1. CASE Idle
    BY <1>1, <2>1 DEF TaskOK, Idle
  <2>2. CASE BodyOK
    <3>1. Expr' = Expr /\ \A k : Callee(k)' = Callee(k) /\ Generic(k)' = Generic(k)
      BY <1>1, SameProgram DEF Expr, Callee, Generic, Named, Place
    <3>2. \A k : CallOK(k)' = CallOK(k)
      BY <1>1, <3>1, SameProgram DEF CallOK, Asked
    <3>3. ResultIn(task.fn, task.type)' = ResultIn(task.fn, task.type)
      BY <1>1, SameProgram DEF ResultIn
    <3> QED
      BY <1>1, <2>2, <3>2, <3>3, SameProgram DEF BodyOK, TaskOK
  <2> QED
    BY <2>1, <2>2 DEF TypesInv, TaskOK
<1> QED
  BY <1>1, <1>2, <1>3, <1>4 DEF TypesInv

\* Every step.
LEMMA TypesStep ==
  ASSUME ProgramOK(prog), TypesInv, [MonoNext]_monoVars
  PROVE  TypesInv' /\ prog' = prog
BY WorkTypes, CollectTypes, CheckTypes, StageTypes, NextExprTypes, EndTypes, StructTypes, MethodTypes, FuncTypes, TypesStutter
   DEF MonoNext

\* What has been asked for when the worklist is empty has come into being.
LEMMA OverTypes ==
  ASSUME ProgramOK(prog), TypesInv
  PROVE  TypesExist
<1> SUFFICES ASSUME stage = "over", NEW f \in Kept, NEW t \in {ParamOf(f), checker.sigs[f]}, NEW n \in 1 .. t.n
             PROVE  Ty(n, t.of) \in checker.structs
  BY DEF TypesExist
<1>1. Elements(checker.owedStructs) = {} /\ checker.structKeys \subseteq checker.structs
  BY EmptySequence DEF TypesInv, OverOK, CheckerOK, StructsOK
<1>2. f \in DOMAIN checker.sigs /\ ~IsGeneric(f)
  BY DEF Kept
<1>3. Fn(f) /\ ResultIn(f, checker.sigs[f]) /\ Asked(checker, t)
  BY <1>2 DEF TypesInv, CheckerOK, SigsOK
<1>4. IsType(ParamOf(f)) /\ ParamOf(f).of # "T"
  BY <1>2, <1>3, SignatureIs
<1>5. t.of # "T" /\ (t = Bad \/ IsType(t))
  BY <1>2, <1>3, <1>4 DEF ResultIn, IsResult
<1>6. t # Bad
  BY NoType
<1>7. Concrete(t)
  BY <1>5, <1>6, TypeIs DEF Concrete
<1> QED
  BY <1>1, <1>3, <1>7 DEF Asked

\* The types that the signature of a function handed to the compiler speaks of exist, whatever the
\* program: the worklist goes back and forth until nothing is owed (processInstantiations).
THEOREM TypesExistAlways == MonoSpec => []TypesExist
<1>1. MonoInit => ProgramOK(prog) /\ TypesInv
  BY TypesInit
<1>2. ProgramOK(prog) /\ TypesInv /\ [MonoNext]_monoVars => (ProgramOK(prog) /\ TypesInv)'
  BY TypesStep
<1>3. ProgramOK(prog) /\ TypesInv => TypesExist
  BY OverTypes
<1> QED
  BY <1>1, <1>2, <1>3, PTL DEF MonoSpec

----------------------------------------------------------------------------
(* What each step of checkExpr does to the activations and the names.      *)

\* The activations when an operation begins, has a type at once, is checked again, and ends.
Pushed(k, t) ==
  /\ task.type = None /\ k = Len(task.calls) + 1
  /\ task'.type = None /\ Len(task'.calls) = k /\ DOMAIN task'.calls = 1 .. k /\ task'.calls[k] = t
  /\ \A i \in 1 .. k - 1 : task'.calls[i] = task.calls[i]
Yielded(k, t) ==
  /\ task.type = None /\ k = Len(task.calls) + 1
  /\ task'.type = t /\ task'.calls = task.calls
Redone(k, t) ==
  /\ task.type # None /\ k = Len(task.calls) /\ k \in DOMAIN task.calls
  /\ task'.type = None /\ Len(task'.calls) = k /\ DOMAIN task'.calls = 1 .. k /\ task'.calls[k] = t
  /\ \A i \in 1 .. k - 1 : task'.calls[i] = task.calls[i]
Popped(k, t) ==
  /\ task.type # None /\ k = Len(task.calls) /\ k \in DOMAIN task.calls
  /\ task'.type = t /\ Len(task'.calls) = k - 1 /\ DOMAIN task'.calls = 1 .. k - 1
  /\ \A i \in 1 .. k - 1 : task'.calls[i] = task.calls[i]

NamesStay == checker'.names = checker.names
NamedNext(k, name) == Place(k) \in DOMAIN checker'.names /\ checker'.names[Place(k)] = name

\* The type of an operation, from the type of what is inside and T.
Derives(k, t) ==
  CASE Expr[k].op = "call" ->
         \/ /\ ~Generic(k) /\ NamesStay
            /\ ~Clash(task.type, ParamOf(Callee(k))) /\ t = checker.sigs[Callee(k)]
         \/ /\ Generic(k) /\ task.calls[k] # None
            /\ ~Clash(task.type, Subst(ParamOf(Callee(k)), task.calls[k]))
            /\ t = Subst(checker.sigs[Callee(k)], task.calls[k])
            /\ Concrete(task.calls[k]) => NamedNext(k, <<Expr[k].f, task.calls[k]>>)
            /\ ~Concrete(task.calls[k]) => NamesStay
    [] Expr[k].op = "new" ->
         \/ Named(k) /\ NamesStay /\ t = checker.names[Place(k)] /\ ~Clash(task.type, Inner(t))
         \/ /\ ~Named(k) /\ task.calls[k] # None /\ ~Clash(task.type, task.calls[k])
            /\ t = Whole(task.calls[k])
            /\ Concrete(task.calls[k]) => NamedNext(k, t)
    [] Expr[k].op = "value" -> task.type.n # 0 /\ t = Inner(task.type)
    [] Expr[k].op = "method" ->
         LET own == <<Expr[k].f, Inner(task.type)>>
         IN  /\ task.type.n # 0
             /\ t = Subst(checker.sigs[IF own \in DOMAIN checker.sigs THEN own ELSE <<Expr[k].f, None>>], Inner(task.type))

\* The ways of a step.
GoesIn(k) ==
  \E t : /\ Pushed(k, t) /\ NamesStay /\ checker'.diags = checker.diags /\ Expr[k].op \notin {"lit", "arg"}
         /\ Expr[k].op = "call" /\ Generic(k) => t = (IF Expr[k].type = None THEN None ELSE InFunction(Expr[k].type, task.fn))
Ends(k) ==
  /\ Expr[k].op \in {"lit", "arg"} /\ checker' = checker
  /\ Yielded(k, IF Expr[k].op = "lit" THEN Ty(0, "A") ELSE ParamOf(task.fn))
Misses(k) == Yielded(k, Bad) /\ Named(k) /\ NamesStay /\ "undefined" \in checker'.diags
Repeats(k) ==
  \E t : /\ Redone(k, t) /\ NamesStay /\ checker'.diags = checker.diags /\ task.calls[k] = None
         /\ \/ Expr[k].op = "new"
            \/ Expr[k].op = "call" /\ Generic(k) /\ ParamOf(Callee(k)).of = "T"
Reports == {"mismatch", "cannot infer", "no struct"}
GoesOut(k) ==
  \E t : /\ Popped(k, t) /\ Expr[k].op \notin {"lit", "arg"} /\ checker'.diags \subseteq checker.diags \cup Reports
         /\ \/ NamesStay
            \/ Expr[k].op = "new" /\ ~Named(k)
            \/ Expr[k].op = "call" /\ Generic(k) /\ task.calls[k] # None /\ NamedNext(k, <<Expr[k].f, task.calls[k]>>)
         /\ checker'.diags = {} /\ Known(task.type) => Derives(k, t)
Does(k) == GoesIn(k) \/ Ends(k) \/ Misses(k) \/ Repeats(k) \/ GoesOut(k)

\* The activations of a body, as they are.
LEMMA TaskShape ==
  ASSUME Busy
  PROVE  /\ task = [fn |-> task.fn, stmt |-> task.stmt, calls |-> task.calls, type |-> task.type]
         /\ IsSequence(task.calls) /\ Len(task.calls) \in Nat /\ DOMAIN task.calls = 1 .. Len(task.calls)
BY Here DEF Busy, BodyOK

\* An operation begins.
LEMMA PushShape ==
  ASSUME Busy, NEW ops, NEW k, Enters(k, ops), NEW c, NEW t, Descend(c, t)
  PROVE  Pushed(k, t) /\ checker' = c
<1>1. k = Len(task.calls) + 1 /\ task.type = None /\ checker' = c /\ task' = [task EXCEPT !.calls = Append(@, t)]
  BY DEF Enters, Descend
<1>2. task'.calls = Append(task.calls, t) /\ task'.type = None
  BY <1>1, TaskShape
<1>3. /\ IsSequence(task'.calls) /\ Len(task'.calls) = Len(task.calls) + 1 /\ task'.calls[Len(task.calls) + 1] = t
      /\ \A i \in 1 .. Len(task.calls) : task'.calls[i] = task.calls[i]
  BY <1>2, TaskShape, AppendOne
<1>4. DOMAIN task'.calls = 1 .. Len(task.calls) + 1
  BY <1>3, SequenceShape
<1>5. (Len(task.calls) + 1) - 1 = Len(task.calls)
  BY TaskShape
<1> QED
  BY <1>1, <1>2, <1>3, <1>4, <1>5 DEF Pushed

\* An operation has a type at once.
LEMMA YieldShape ==
  ASSUME Busy, NEW ops, NEW k, Enters(k, ops), NEW c, NEW t, Yield(c, t)
  PROVE  Yielded(k, t) /\ checker' = c
<1>1. k = Len(task.calls) + 1 /\ task.type = None /\ checker' = c /\ task' = [task EXCEPT !.type = t]
  BY DEF Enters, Yield
<1>2. task'.calls = task.calls /\ task'.type = t
  BY <1>1, TaskShape
<1> QED
  BY <1>1, <1>2 DEF Yielded

\* What is inside is checked again.
LEMMA RedoShape ==
  ASSUME Busy, NEW ops, NEW k, Leaves(k, ops), NEW c, NEW t, Again(c, t)
  PROVE  Redone(k, t) /\ checker' = c
<1>1. /\ task.type # None /\ k = Len(task.calls) /\ k # 0 /\ checker' = c
      /\ task' = [task EXCEPT !.calls = [@ EXCEPT ![Len(@)] = t], !.type = None]
  BY DEF Leaves, Again
<1>2. task'.calls = [task.calls EXCEPT ![k] = t] /\ task'.type = None
  BY <1>1, TaskShape
<1>3. k \in DOMAIN task.calls
  BY <1>1, TaskShape
<1>4. /\ Len(task'.calls) = Len(task.calls) /\ DOMAIN task'.calls = DOMAIN task.calls /\ task'.calls[k] = t
      /\ \A i \in DOMAIN task.calls : i # k => task'.calls[i] = task.calls[i]
  BY <1>2, <1>3, TaskShape, ReplaceOne
<1>5. \A i \in 1 .. k - 1 : i \in DOMAIN task.calls /\ i # k
  BY <1>1, TaskShape
<1> QED
  BY <1>1, <1>2, <1>3, <1>4, <1>5, TaskShape DEF Redone

\* An operation ends.
LEMMA PopShape ==
  ASSUME Busy, NEW ops, NEW k, Leaves(k, ops), NEW c, NEW t, Return(c, t)
  PROVE  Popped(k, t) /\ checker' = c
<1>1. /\ task.type # None /\ k = Len(task.calls) /\ k # 0 /\ checker' = c
      /\ task' = [task EXCEPT !.calls = SubSeq(@, 1, Len(@) - 1), !.type = t]
  BY DEF Leaves, Return
<1>2. task'.calls = SubSeq(task.calls, 1, Len(task.calls) - 1) /\ task'.type = t
  BY <1>1, TaskShape
<1>3. /\ Len(task'.calls) = Len(task.calls) - 1 /\ DOMAIN task'.calls = 1 .. Len(task.calls) - 1
      /\ \A i \in 1 .. Len(task.calls) - 1 : task'.calls[i] = task.calls[i]
  BY <1>1, <1>2, TaskShape, DropLast
<1>4. k \in DOMAIN task.calls
  BY <1>1, TaskShape
<1> QED
  BY <1>1, <1>2, <1>3, <1>4 DEF Popped

\* What a literal or the argument does.
LEMMA LeafDoes ==
  ASSUME Busy, Leaf
  PROVE  \E k \in DOMAIN Expr : Works(Place(k)) /\ Does(k)
<1>1. PICK k \in DOMAIN Expr :
        /\ Enters(k, {"lit", "arg"})
        /\ Yield(checker, IF Expr[k].op = "lit" THEN Ty(0, "A") ELSE ParamOf(task.fn))
  BY DEF Leaf
<1> DEFINE t == IF Expr[k].op = "lit" THEN Ty(0, "A") ELSE ParamOf(task.fn)
<1>2. Works(Place(k))
  BY <1>1, LeafWorks
<1>3. Yield(checker, t)
  BY <1>1
<1>4. Yielded(k, t) /\ checker' = checker
  <2> HIDE DEF t
  <2> QED
    BY <1>1, <1>3, YieldShape
<1>5. Expr[k].op \in {"lit", "arg"}
  BY <1>1 DEF Enters
<1>6. Does(k)
  BY <1>4, <1>5 DEF Does, Ends
<1> QED
  BY <1>2, <1>6

\* What names something that is not there.
LEMMA UnknownDoes ==
  ASSUME Busy, UnknownCallee \/ UnknownStruct
  PROVE  \E k \in DOMAIN Expr : Works(Place(k)) /\ Does(k)
<1>1. PICK k \in DOMAIN Expr, ops \in {{"call"}, {"new"}} :
        /\ Enters(k, ops) /\ Yield(Report(checker, "undefined"), Bad)
        /\ Named(k) \/ (ops = {"call"} /\ Callee(k) \notin DOMAIN checker.sigs)
  BY DEF UnknownCallee, UnknownStruct
<1>2. Works(Place(k)) /\ checker'.names = checker.names /\ "undefined" \in checker'.diags
  BY <1>1, UnknownWorks
<1>3. Yielded(k, Bad)
  BY <1>1, YieldShape
<1>4. Named(k)
  <2> SUFFICES ASSUME ~Named(k) PROVE FALSE
    OBVIOUS
  <2>1. Expr[k].op = "call" /\ <<Expr[k].f, None>> \notin DOMAIN checker.sigs
    BY <1>1 DEF Enters, Callee
  <2>2. PICK i \in DOMAIN Order : Order[i].name = Expr[k].f
    BY <2>1, OpHere DEF IsName
  <2> QED
    BY <2>1, <2>2 DEF Busy, StageOK, Written
<1>5. Does(k)
  BY <1>2, <1>3, <1>4 DEF Does, Misses, NamesStay
<1> QED
  BY <1>2, <1>5

\* What goes on with what is inside.
LEMMA EnterDoes ==
  ASSUME Busy, EnterCall \/ EnterNew \/ EnterMember
  PROVE  \E k \in DOMAIN Expr : Works(Place(k)) /\ Does(k)
<1>1. PICK k \in DOMAIN Expr, ops \in {{"call"}, {"new"}, {"value", "method"}} :
        /\ Enters(k, ops) /\ Descend(checker, None)
        /\ ops = {"call"} => Callee(k) \in DOMAIN checker.sigs /\ (Generic(k) => Infers(Expr[k]))
  BY DEF EnterCall, EnterNew, EnterMember
<1>2. Expr[k].op \in ops /\ Expr[k].op \notin {"lit", "arg"} /\ ops \cap {"lit", "arg"} = {}
      /\ (Expr[k].op = "call" => ops = {"call"})
  BY <1>1 DEF Enters
<1>3. Works(Place(k))
  BY <1>1, <1>2, EnterWorks
<1>4. Pushed(k, None) /\ checker' = checker
  BY <1>1, PushShape
<1>5. Expr[k].op = "call" /\ Generic(k) => Expr[k].type = None
  BY <1>1, <1>2 DEF Infers
<1>6. Does(k)
  BY <1>2, <1>4, <1>5 DEF Does, GoesIn, NamesStay
<1> QED
  BY <1>3, <1>6

\* A call that says what T is.
LEMMA EnterGivenDoes ==
  ASSUME Busy, EnterGivenCall
  PROVE  \E k \in DOMAIN Expr : Works(Place(k)) /\ Does(k)
<1>1. PICK k \in DOMAIN Expr :
        /\ Enters(k, {"call"}) /\ Callee(k) \in DOMAIN checker.sigs
        /\ Generic(k) /\ ~Infers(Expr[k])
        /\ LET t == InFunction(Expr[k].type, task.fn)
           IN  Descend(OweSignature(OweStructs(checker, t), Callee(k), t), t)
  BY DEF EnterGivenCall
<1> DEFINE t == InFunction(Expr[k].type, task.fn)
           c == OweSignature(OweStructs(checker, t), Callee(k), t)
<1>2. Works(Place(k)) /\ checker'.diags = checker.diags /\ checker'.names = checker.names
  BY <1>1, EnterGivenWorks
<1>3. Descend(c, t)
  BY <1>1
<1>4. Pushed(k, t)
  <2> HIDE DEF c, t
  <2> QED
    BY <1>1, <1>3, PushShape
<1>5. Expr[k].op = "call" /\ Expr[k].type # None
  BY <1>1 DEF Enters, Infers
<1>6. Does(k)
  BY <1>2, <1>4, <1>5 DEF Does, GoesIn, NamesStay
<1> QED
  BY <1>2, <1>6

\* What ends without a type says why, unless what is inside has none.
LEMMA NoTypeDoes ==
  ASSUME Busy, NEW k \in DOMAIN Expr, NEW ops, Leaves(k, ops), ops \cap {"lit", "arg"} = {}, NEW what \in Reports, NEW bad,
         Return(ReportIf(bad, checker, what), Bad) \/ (bad /\ Return(Report(checker, what), Bad)),
         Known(task.type) => bad
  PROVE  Works(Place(k)) /\ Does(k)
<1>1. /\ Works(Place(k)) /\ checker'.diags \subseteq checker.diags \cup {what}
      /\ checker'.names = checker.names /\ (bad => what \in checker'.diags)
  BY NoTypeWorks
<1>2. Popped(k, Bad)
  BY PopShape
<1>3. Expr[k].op \notin {"lit", "arg"}
  BY DEF Leaves
<1>4. ~(checker'.diags = {} /\ Known(task.type))
  BY <1>1
<1>5. Does(k)
  BY <1>1, <1>2, <1>3, <1>4 DEF Does, GoesOut, NamesStay
<1> QED
  BY <1>1, <1>5

\* What T stands for, found from the type of what is inside.
LEMMA InferDoes ==
  ASSUME Busy, InferCall
  PROVE  \E k \in DOMAIN Expr : Works(Place(k)) /\ Does(k)
<1>1. PICK k \in DOMAIN Expr :
        /\ Leaves(k, {"call"}) /\ Generic(k) /\ task.calls[k] = None
        /\ LET param == ParamOf(Callee(k))
               t == Bound(param, task.type)
           IN  IF ~Unifies(param, task.type) THEN Return(ReportIf(Known(task.type), checker, "mismatch"), Bad)
               ELSE IF param.of # "T" THEN Return(Report(checker, "cannot infer"), Bad)
               ELSE Again(OweSignature(checker, Callee(k), t), t)
  BY DEF InferCall
<1> DEFINE param == ParamOf(Callee(k))
           t == Bound(param, task.type)
           c == OweSignature(checker, Callee(k), t)
<1>2. CASE ~Unifies(param, task.type)
  <2>1. Return(ReportIf(Known(task.type), checker, "mismatch"), Bad)
    BY <1>1, <1>2
  <2>2. "mismatch" \in Reports
    BY DEF Reports
  <2> QED
    BY <1>1, <2>1, <2>2, NoTypeDoes
<1>3. CASE Unifies(param, task.type) /\ param.of # "T"
  <2>1. TRUE /\ Return(Report(checker, "cannot infer"), Bad)
    BY <1>1, <1>3
  <2>2. "cannot infer" \in Reports
    BY DEF Reports
  <2> QED
    BY <1>1, <2>1, <2>2, NoTypeDoes
<1>4. CASE Unifies(param, task.type) /\ param.of = "T"
  <2>1. Again(c, t)
    BY <1>1, <1>4
  <2>2. Works(Place(k)) /\ checker'.diags = checker.diags /\ checker'.names = checker.names
    BY <1>1, <1>4, InferWorks
  <2>3. Redone(k, t)
    <3> HIDE DEF c, t
    <3> QED
      BY <1>1, <2>1, RedoShape
  <2>4. Expr[k].op = "call"
    BY <1>1 DEF Leaves
  <2>5. Does(k)
    BY <1>1, <1>4, <2>2, <2>3, <2>4 DEF Does, Repeats, NamesStay
  <2> QED
    BY <2>2, <2>5
<1> QED
  BY <1>2, <1>3, <1>4

\* The same in a literal.
LEMMA InferNewDoes ==
  ASSUME Busy, InferNew
  PROVE  \E k \in DOMAIN Expr : Works(Place(k)) /\ Does(k)
<1>1. PICK k \in DOMAIN Expr :
        /\ Leaves(k, {"new"}) /\ ~Named(k) /\ task.calls[k] = None
        /\ IF Known(task.type) THEN Again(OweStructs(checker, task.type), task.type)
           ELSE Return(Report(checker, "cannot infer"), Bad)
  BY DEF InferNew
<1>2. CASE Known(task.type)
  <2>1. Again(OweStructs(checker, task.type), task.type)
    BY <1>1, <1>2
  <2>2. Works(Place(k)) /\ checker'.diags = checker.diags /\ checker'.names = checker.names
    BY <1>1, <1>2, InferNewWorks
  <2>3. Redone(k, task.type)
    BY <1>1, <2>1, RedoShape
  <2>4. Expr[k].op = "new"
    BY <1>1 DEF Leaves
  <2>5. Does(k)
    BY <1>1, <2>2, <2>3, <2>4 DEF Does, Repeats, NamesStay
  <2> QED
    BY <2>2, <2>5
<1>3. CASE ~Known(task.type)
  <2>1. TRUE /\ Return(Report(checker, "cannot infer"), Bad)
    BY <1>1, <1>3
  <2>2. "cannot infer" \in Reports
    BY DEF Reports
  <2> QED
    BY <1>1, <1>3, <2>1, <2>2, NoTypeDoes
<1> QED
  BY <1>2, <1>3

\* A field or a method of something that has none.
LEMMA NoMemberDoes ==
  ASSUME Busy, NoMember
  PROVE  \E k \in DOMAIN Expr : Works(Place(k)) /\ Does(k)
<1>1. PICK k \in DOMAIN Expr :
        /\ Leaves(k, {"value", "method"}) /\ task.type.n = 0
        /\ Return(ReportIf(Known(task.type), checker, "no struct"), Bad)
  BY DEF NoMember
<1>2. "no struct" \in Reports
  BY DEF Reports
<1> QED
  BY <1>1, <1>2, NoTypeDoes

\* The end of a call that names what is called.
LEMMA LeavePlainDoes ==
  ASSUME Busy, LeavePlainCall
  PROVE  \E k \in DOMAIN Expr : Works(Place(k)) /\ Does(k)
<1>1. PICK k \in DOMAIN Expr :
        /\ Leaves(k, {"call"}) /\ ~Generic(k)
        /\ Return(ReportIf(Clash(task.type, ParamOf(Callee(k))), checker, "mismatch"), checker.sigs[Callee(k)])
  BY DEF LeavePlainCall
<1> DEFINE bad == Clash(task.type, ParamOf(Callee(k)))
           t == checker.sigs[Callee(k)]
<1>2. /\ Works(Place(k)) /\ checker'.diags \subseteq checker.diags \cup {"mismatch"}
      /\ checker'.names = checker.names /\ (bad => "mismatch" \in checker'.diags)
  BY <1>1, LeavePlainWorks
<1>3. Popped(k, t)
  BY <1>1, PopShape
<1>4. Expr[k].op = "call"
  BY <1>1 DEF Leaves
<1>5. checker'.diags = {} => Derives(k, t)
  BY <1>1, <1>2, <1>4 DEF Derives, NamesStay
<1>6. Does(k)
  BY <1>2, <1>3, <1>4, <1>5 DEF Does, GoesOut, NamesStay, Reports
<1> QED
  BY <1>2, <1>6

\* The end of a generic call.
LEMMA LeaveGenericDoes ==
  ASSUME Busy, LeaveGenericCall
  PROVE  \E k \in DOMAIN Expr : Works(Place(k)) /\ Does(k)
<1>1. PICK k \in DOMAIN Expr :
        /\ Leaves(k, {"call"}) /\ Generic(k) /\ task.calls[k] # None
        /\ LET f == Callee(k)
               t == task.calls[k]
               checked == ReportIf(Clash(task.type, Subst(ParamOf(f), t)), checker, "mismatch")
           IN  Return(IF Concrete(t) THEN Rename(OweFunc(checked, <<f[1], t>>), Place(k), <<f[1], t>>) ELSE checked,
                      Subst(checker.sigs[f], t))
  BY DEF LeaveGenericCall
<1> DEFINE f == Callee(k)
           t == task.calls[k]
           bad == Clash(task.type, Subst(ParamOf(f), t))
           checked == ReportIf(bad, checker, "mismatch")
           c == IF Concrete(t) THEN Rename(OweFunc(checked, <<f[1], t>>), Place(k), <<f[1], t>>) ELSE checked
           u == Subst(checker.sigs[f], t)
<1>2. Return(c, u)
  BY <1>1
<1>3. /\ Works(Place(k)) /\ checker'.diags \subseteq checker.diags \cup {"mismatch"}
      /\ Concrete(t) => Place(k) \in DOMAIN checker'.names /\ checker'.names[Place(k)] = <<f[1], t>>
      /\ ~Concrete(t) => checker'.names = checker.names
      /\ bad => "mismatch" \in checker'.diags
  BY <1>1, LeaveGenericWorks
<1>4. Popped(k, u)
  <2> HIDE DEF c, u
  <2> QED
    BY <1>1, <1>2, PopShape
<1>5. Expr[k].op = "call"
  BY <1>1 DEF Leaves
<1>6. f[1] = Expr[k].f
  BY <1>1, <1>5, CalleeIs
<1>7. (Concrete(t) => NamedNext(k, <<Expr[k].f, t>>)) /\ (~Concrete(t) => NamesStay)
  BY <1>3, <1>6 DEF NamedNext, NamesStay
<1>8. checker'.diags = {} => Derives(k, u)
  BY <1>1, <1>3, <1>5, <1>7 DEF Derives
<1>9. Does(k)
  BY <1>1, <1>3, <1>4, <1>5, <1>7, <1>8 DEF Does, GoesOut, Reports
<1> QED
  BY <1>3, <1>9

\* The end of a literal that names its instance.
LEMMA LeaveInstanceDoes ==
  ASSUME Busy, LeaveInstance
  PROVE  \E k \in DOMAIN Expr : Works(Place(k)) /\ Does(k)
<1>1. PICK k \in DOMAIN Expr :
        /\ Leaves(k, {"new"}) /\ Named(k)
        /\ LET t == checker.names[Place(k)]
           IN  Return(ReportIf(Clash(task.type, Ty(t.n - 1, t.of)), checker, "mismatch"), t)
  BY DEF LeaveInstance
<1> DEFINE t == checker.names[Place(k)]
           bad == Clash(task.type, Inner(t))
<1>2. Return(ReportIf(bad, checker, "mismatch"), t)
  BY <1>1 DEF Inner
<1>3. /\ Works(Place(k)) /\ checker'.diags \subseteq checker.diags \cup {"mismatch"}
      /\ checker'.names = checker.names /\ (bad => "mismatch" \in checker'.diags)
  BY <1>1, <1>2, LeaveInstanceWorks
<1>4. Popped(k, t)
  BY <1>1, <1>2, PopShape
<1>5. Expr[k].op = "new"
  BY <1>1 DEF Leaves
<1>6. checker'.diags = {} => Derives(k, t)
  BY <1>1, <1>3, <1>5 DEF Derives, NamesStay
<1>7. Does(k)
  BY <1>3, <1>4, <1>5, <1>6 DEF Does, GoesOut, NamesStay, Reports
<1> QED
  BY <1>3, <1>7

\* The end of another one.
LEMMA LeaveNewDoes ==
  ASSUME Busy, LeaveNew
  PROVE  \E k \in DOMAIN Expr : Works(Place(k)) /\ Does(k)
<1>1. PICK k \in DOMAIN Expr :
        /\ Leaves(k, {"new"}) /\ ~Named(k) /\ task.calls[k] # None
        /\ LET t == task.calls[k]
               whole == Ty(t.n + 1, t.of)
               checked == ReportIf(Clash(task.type, t), checker, "mismatch")
           IN  Return(IF Concrete(t) THEN Rename(OweStructs(checked, whole), Place(k), whole) ELSE checked, whole)
  BY DEF LeaveNew
<1> DEFINE t == task.calls[k]
           w == Ty(t.n + 1, t.of)
           bad == Clash(task.type, t)
           checked == ReportIf(bad, checker, "mismatch")
           c == IF Concrete(t) THEN Rename(OweStructs(checked, w), Place(k), w) ELSE checked
<1>2. Return(c, w)
  BY <1>1
<1>3. /\ Works(Place(k)) /\ checker'.diags \subseteq checker.diags \cup {"mismatch"}
      /\ Concrete(t) => Place(k) \in DOMAIN checker'.names /\ checker'.names[Place(k)] = w
      /\ bad => "mismatch" \in checker'.diags
  BY <1>1, LeaveNewWorks
<1>4. Popped(k, w)
  <2> HIDE DEF c, w
  <2> QED
    BY <1>1, <1>2, PopShape
<1>5. Expr[k].op = "new"
  BY <1>1 DEF Leaves
<1>6. w = Whole(t)
  BY DEF Whole
<1>7. checker'.diags = {} => Derives(k, w)
  <2> HIDE DEF w
  <2> QED
    BY <1>1, <1>3, <1>5, <1>6 DEF Derives, NamedNext
<1>8. Does(k)
  <2> HIDE DEF w
  <2> QED
    BY <1>1, <1>3, <1>4, <1>5, <1>7 DEF Does, GoesOut, Reports
<1> QED
  BY <1>3, <1>8

\* The end of a field.
LEMMA LeaveFieldDoes ==
  ASSUME Busy, LeaveField
  PROVE  \E k \in DOMAIN Expr : Works(Place(k)) /\ Does(k)
<1>1. PICK k \in DOMAIN Expr :
        /\ Leaves(k, {"value"}) /\ task.type.n # 0
        /\ LET t == Ty(task.type.n - 1, task.type.of) IN Return(OweStructs(checker, t), t)
  BY DEF LeaveField
<1> DEFINE t == Inner(task.type)
<1>2. Return(OweStructs(checker, t), t)
  BY <1>1 DEF Inner
<1>3. Works(Place(k)) /\ checker'.diags = checker.diags /\ checker'.names = checker.names
  BY <1>1, LeaveFieldWorks
<1>4. Popped(k, t)
  BY <1>1, <1>2, PopShape
<1>5. Expr[k].op = "value"
  BY <1>1 DEF Leaves
<1>6. Derives(k, t)
  BY <1>1, <1>5 DEF Derives
<1>7. Does(k)
  BY <1>3, <1>4, <1>5, <1>6 DEF Does, GoesOut, NamesStay
<1> QED
  BY <1>3, <1>7

\* The end of a call of a method.
LEMMA LeaveMethodDoes ==
  ASSUME Busy, LeaveMethod
  PROVE  \E k \in DOMAIN Expr : Works(Place(k)) /\ Does(k)
<1>1. PICK k \in DOMAIN Expr :
        /\ Leaves(k, {"method"}) /\ task.type.n # 0
        /\ LET t == Ty(task.type.n - 1, task.type.of)
               own == <<Expr[k].f, t>>
               ret == Subst(checker.sigs[IF own \in DOMAIN checker.sigs THEN own ELSE <<Expr[k].f, None>>], t)
           IN  Return(OweStructs(checker, ret), ret)
  BY DEF LeaveMethod
<1> DEFINE t == Inner(task.type)
           own == <<Expr[k].f, t>>
           ret == Subst(checker.sigs[IF own \in DOMAIN checker.sigs THEN own ELSE <<Expr[k].f, None>>], t)
<1>2. Return(OweStructs(checker, ret), ret)
  BY <1>1 DEF Inner
<1>3. Works(Place(k)) /\ checker'.diags = checker.diags /\ checker'.names = checker.names
  BY <1>1, LeaveMethodWorks
<1>4. Popped(k, ret)
  <2> HIDE DEF ret
  <2> QED
    BY <1>1, <1>2, PopShape
<1>5. Expr[k].op = "method"
  BY <1>1 DEF Leaves
<1>6. Derives(k, ret)
  BY <1>1, <1>5 DEF Derives
<1>7. Does(k)
  <2> HIDE DEF ret
  <2> QED
    BY <1>3, <1>4, <1>5, <1>6 DEF Does, GoesOut, NamesStay
<1> QED
  BY <1>3, <1>7

\* Every step of checkExpr is one of these.
LEMMA WorkDoes ==
  ASSUME Busy, Work
  PROVE  \E k \in DOMAIN Expr : Works(Place(k)) /\ Does(k)
BY LeafDoes, UnknownDoes, EnterDoes, EnterGivenDoes, LeavePlainDoes, InferDoes, LeaveGenericDoes, LeaveInstanceDoes,
   InferNewDoes, LeaveNewDoes, NoMemberDoes, LeaveFieldDoes, LeaveMethodDoes DEF Work

----------------------------------------------------------------------------
(* The order of checking, and the names that are in the tree by then.      *)

\* The check of f has begun; or is over, or what f returns is known before that.
InTurn(f) == stage \notin {"collect", "items"} \/ (stage = "items" /\ Position(f[1]) < turn)
Begins(f) == IF f[2] = None THEN InTurn(f) ELSE f \in DOMAIN checker.sigs
Done(f) == f \in DOMAIN checker.sigs /\ f # task.fn /\ (f[2] = None => InTurn(f))
Settled(f) == f \in DOMAIN checker.sigs /\ (RetOf(f) # None \/ Done(f))

\* What a call says about t, which T stands for.
Gives(op, f, t) == IF op.type = None THEN Item(op.f).param.of = "T" ELSE t = InFunction(op.type, f)
GivenOK(k) ==
  Expr[k].op = "call" /\ Generic(k) /\ (Expr[k].type # None \/ task.calls[k] # None) => Gives(Expr[k], task.fn, task.calls[k])
WrittenOK(at) == Begins(at[1]) /\ (OpAt(at).op = "call" => Gives(OpAt(at), at[1], checker.names[at][2]))
CurrentOK ==
  \/ stage = "items" /\ task.fn[2] = None /\ Position(task.fn[1]) < turn
  \/ stage \in {"structs", "funcs"} /\ task.fn[2] # None
SigOK(f) ==
  /\ f[2] # None => stage \notin {"collect", "items"}
  /\ RetOf(f) # None => checker.sigs[f] = RetOf(f)
  /\ Done(f) => IsType(checker.sigs[f])
OrderInv ==
  /\ \A at \in DOMAIN checker.names : WrittenOK(at)
  /\ ~Idle => CurrentOK /\ \A k \in DOMAIN task.calls : GivenOK(k)
  /\ \A f \in DOMAIN checker.sigs : SigOK(f)

\* A check that has begun has begun.
LEMMA BeginsOn ==
  ASSUME ProgramOK(prog), prog' = prog, NEW f, IsName(f[1]), Begins(f), DOMAIN checker.sigs \subseteq DOMAIN checker'.sigs,
         (stage' = stage /\ turn' \in {turn, turn + 1}) \/ stage' \notin {"collect", "items"}, turn \in Nat
  PROVE  Begins(f)'
<1>1. Position(f[1])' = Position(f[1]) /\ Position(f[1]) \in Nat
  BY NameIs, Declarations, SameProgram
<1> QED
  BY <1>1 DEF Begins, InTurn

\* What a call says is a matter of the program.
LEMMA GivesStays == ASSUME prog' = prog PROVE \A op, f, t : Gives(op, f, t)' = Gives(op, f, t)
BY SameProgram DEF Gives

\* The names of places.
LEMMA PlaceNames ==
  ASSUME TypesInv, NEW at \in DOMAIN checker.names
  PROVE  /\ IsPlace(at) /\ IsName(at[1][1]) /\ Fits(checker, at, checker.names[at]) /\ OpAt(at).op \in {"new", "call"}
         /\ OpAt(at).op = "call" => Item(OpAt(at).f).generic /\ IsArg(checker.names[at][2])
<1>1. Fits(checker, at, checker.names[at]) /\ FuncsOK(checker)
  BY DEF TypesInv, CheckerOK, NamesOK, NameOK
<1>2. OpAt(at).op = "call" => Item(OpAt(at).f).generic /\ IsArg(checker.names[at][2])
  BY <1>1 DEF Fits, FuncsOK, Asks
<1> QED
  BY <1>1, <1>2 DEF Fits, IsPlace, Fn

\* A step of checkExpr at one place leaves the other places as they are.
LEMMA ElsewhereStays ==
  ASSUME Busy, NEW k, Works(Place(k)), NEW i, i # k \/ NamesStay
  PROVE  /\ Expr' = Expr /\ Place(i)' = Place(i) /\ Named(i)' = Named(i) /\ Callee(i)' = Callee(i) /\ Generic(i)' = Generic(i)
         /\ (Named(i) => checker'.names[Place(i)] = checker.names[Place(i)])
<1>1. prog' = prog /\ task'.fn = task.fn /\ task'.stmt = task.stmt
  BY DEF Works
<1>2. Expr' = Expr /\ Place(i)' = Place(i)
  BY <1>1, SameProgram DEF Expr, Place
<1>3. i # k => Place(i) # Place(k)
  BY DEF Place
<1>4. Named(i)' = Named(i) /\ (Named(i) => checker'.names[Place(i)] = checker.names[Place(i)])
  BY <1>2, <1>3 DEF Works, Named, NamesStay
<1>5. Callee(i)' = Callee(i)
  BY <1>2, <1>4 DEF Callee
<1> QED
  BY <1>1, <1>2, <1>4, <1>5, SameProgram DEF Generic

\* A step of checkExpr keeps the order.
LEMMA WorkOrder ==
  ASSUME ProgramOK(prog), TypesInv, OrderInv, NEW k \in DOMAIN Expr, ~Idle, Works(Place(k)), Does(k), TypesInv'
  PROVE  OrderInv'
<1>1. Busy
  BY BusyIs
<1>2. /\ UNCHANGED <<prog, stage, turn, todo>> /\ task'.fn = task.fn /\ checker'.sigs = checker.sigs
      /\ turn \in Nat
  BY DEF Works, Goes, TypesInv, StageOK
<1>3. \A f : InTurn(f)' = InTurn(f) /\ Begins(f)' = Begins(f) /\ Done(f)' = Done(f)
  BY <1>2, SameProgram DEF InTurn, Begins, Done
<1>4. CurrentOK'
  BY <1>2, SameProgram DEF OrderInv, CurrentOK
<1>5. ASSUME NEW f \in DOMAIN checker'.sigs PROVE SigOK(f)'
  BY <1>2, <1>3, <1>5, SameProgram DEF OrderInv, SigOK
<1>6. ASSUME NEW i \in DOMAIN task'.calls PROVE GivenOK(i)'
  <2>1. CASE i \in DOMAIN task.calls /\ task'.calls[i] = task.calls[i] /\ (i # k \/ NamesStay)
    <3>1. GivenOK(i)
      BY <2>1 DEF OrderInv
    <3> QED
      BY <1>1, <1>2, <2>1, <3>1, ElsewhereStays, GivesStays DEF GivenOK
  <2>2. CASE GoesIn(k)
    <3>1. PICK t : /\ Pushed(k, t) /\ NamesStay
                   /\ Expr[k].op = "call" /\ Generic(k) => t = (IF Expr[k].type = None THEN None ELSE InFunction(Expr[k].type, task.fn))
      BY <2>2 DEF GoesIn
    <3>2. CASE i = k
      <4>1. task'.calls[k] = t
        BY <3>1 DEF Pushed
      <4> QED
        BY <1>1, <1>2, <3>1, <3>2, <4>1, ElsewhereStays, GivesStays DEF GivenOK, Gives
    <3>3. CASE i # k
      <4>1. i \in DOMAIN task.calls /\ task'.calls[i] = task.calls[i]
        BY <1>1, <3>1, <3>3, TaskShape DEF Pushed
      <4> QED
        BY <2>1, <3>1, <4>1
    <3> QED
      BY <3>2, <3>3
  <2>3. CASE Ends(k)
    <3>1. task'.calls = task.calls /\ NamesStay
      BY <2>3 DEF Ends, Yielded, NamesStay
    <3> QED
      BY <1>6, <2>1, <3>1
  <2>4. CASE Misses(k)
    <3>1. task'.calls = task.calls /\ NamesStay
      BY <2>4 DEF Misses, Yielded
    <3> QED
      BY <1>6, <2>1, <3>1
  <2>5. CASE Repeats(k)
    <3>1. PICK t : /\ Redone(k, t) /\ NamesStay /\ task.calls[k] = None
                   /\ \/ Expr[k].op = "new"
                      \/ Expr[k].op = "call" /\ Generic(k) /\ ParamOf(Callee(k)).of = "T"
      BY <2>5 DEF Repeats
    <3>2. CASE i = k
      <4>1. CASE Expr[k].op = "new"
        BY <1>1, <3>1, <3>2, <4>1, ElsewhereStays DEF GivenOK
      <4>2. CASE Expr[k].op = "call" /\ Generic(k) /\ ParamOf(Callee(k)).of = "T"
        <5>1. Expr[k].type = None
          <6> SUFFICES ASSUME Expr[k].type # None PROVE FALSE
            OBVIOUS
          <6>1. k \in DOMAIN task.calls
            BY <3>1 DEF Redone
          <6>2. GivenOK(k)
            BY <6>1 DEF OrderInv
          <6>3. IsType(InFunction(Expr[k].type, task.fn))
            BY <1>1, OpHere
          <6> QED
            BY <3>1, <4>2, <6>2, <6>3, NoType DEF GivenOK, Gives
        <5>2. Callee(k) = <<Expr[k].f, None>>
          BY <1>1, <4>2, CalleeIs
        <5>3. Item(Expr[k].f).param.of = "T"
          BY <4>2, <5>2 DEF ParamOf, InFunction
        <5>4. Gives(Expr[k], task.fn, task'.calls[k])
          BY <5>1, <5>3 DEF Gives
        <5> QED
          BY <1>1, <1>2, <3>1, <3>2, <5>4, ElsewhereStays, GivesStays DEF GivenOK
      <4> QED
        BY <3>1, <4>1, <4>2
    <3>3. CASE i # k
      <4>1. i \in DOMAIN task.calls /\ task'.calls[i] = task.calls[i]
        BY <1>1, <3>1, <3>3, TaskShape DEF Redone
      <4> QED
        BY <2>1, <3>1, <4>1
    <3> QED
      BY <3>2, <3>3
  <2>6. CASE GoesOut(k)
    <3>1. PICK t : Popped(k, t)
      BY <2>6 DEF GoesOut
    <3>2. i \in DOMAIN task.calls /\ task'.calls[i] = task.calls[i] /\ i # k
      BY <1>1, <1>6, <3>1, TaskShape DEF Popped
    <3> QED
      BY <2>1, <3>2
  <2> QED
    BY <2>2, <2>3, <2>4, <2>5, <2>6 DEF Does
<1>7. ASSUME NEW at \in DOMAIN checker'.names PROVE WrittenOK(at)'
  <2>1. CASE at \in DOMAIN checker.names /\ checker'.names[at] = checker.names[at]
    <3>1. WrittenOK(at)
      BY <2>1 DEF OrderInv
    <3> QED
      BY <1>2, <1>3, <2>1, <3>1, GivesStays, SameProgram DEF WrittenOK
  <2>2. CASE at = Place(k) /\ ~NamesStay
    <3>1. GoesOut(k)
      BY <2>2 DEF Does, GoesIn, Ends, Misses, Repeats, NamesStay
    <3>2. k \in DOMAIN task.calls
      BY <3>1 DEF GoesOut, Popped
    <3>3. OpAt(at) = Expr[k] /\ at[1] = task.fn
      BY <1>1, <2>2, Here DEF Place
    <3>4. Begins(task.fn)
      BY <1>1, Here DEF OrderInv, CurrentOK, Begins, InTurn
    <3>5. CASE Expr[k].op = "new"
      BY <1>2, <1>3, <3>3, <3>4, <3>5, SameProgram DEF WrittenOK
    <3>6. CASE Expr[k].op = "call" /\ Generic(k) /\ task.calls[k] # None /\ NamedNext(k, <<Expr[k].f, task.calls[k]>>)
      <4>1. Gives(Expr[k], task.fn, task.calls[k])
        BY <3>2, <3>6 DEF OrderInv, GivenOK
      <4>2. checker'.names[at][2] = task.calls[k]
        BY <2>2, <3>6 DEF NamedNext
      <4> QED
        BY <1>2, <1>3, <3>3, <3>4, <4>1, <4>2, SameProgram, GivesStays DEF WrittenOK
    <3> QED
      BY <2>2, <3>1, <3>5, <3>6 DEF GoesOut
  <2> QED
    BY <2>1, <2>2 DEF Works, NamesStay
<1> QED
  BY <1>4, <1>5, <1>6, <1>7 DEF OrderInv

\* A body of an instance begins.
Instance(f, u) ==
  /\ Idle /\ UNCHANGED <<prog, stage, turn>> /\ stage \in {"structs", "funcs"} /\ task' = Begin(f) /\ BodyOK'
  /\ Fn(f) /\ IsArg(f[2]) /\ Item(f[1]).generic /\ f \notin DOMAIN checker.sigs
  /\ u = Bad \/ u = Unit
  /\ DOMAIN checker'.sigs = DOMAIN checker.sigs \cup {f} /\ checker'.sigs[f] = (IF RetOf(f) = None THEN u ELSE RetOf(f))
  /\ \A g \in DOMAIN checker.sigs : checker'.sigs[g] = checker.sigs[g]
  /\ checker'.diags = checker.diags /\ checker'.structs = checker.structs /\ checker.structKeys \subseteq checker'.structKeys
  /\ Copied(checker, f)

\* So it does when the worklist gets to a function or to a method.
LEMMA InstanceIs ==
  ASSUME ProgramOK(prog), TypesInv, InstantiateFunc \/ InstantiateMethod
  PROVE  \E f, u : Instance(f, u)
<1>1. CASE InstantiateFunc
  <2>1. PICK f, c : /\ stage = "funcs" /\ Idle /\ UNCHANGED <<prog, stage, turn, todo>>
                   /\ checker' = Declare(Cloned(c, f), f, Bad) /\ task' = Begin(f)
                   /\ Awaits(c, f) /\ Asks(f) /\ f \notin DOMAIN checker.sigs
                   /\ c.names = checker.names /\ c.structs = checker.structs /\ c.sigs = checker.sigs
                   /\ c.diags = checker.diags /\ c.structKeys = checker.structKeys
    BY <1>1, FuncAwaits
  <2>2. /\ BodyOK' /\ checker'.structs = c.structs /\ checker'.diags = c.diags
        /\ c.structKeys \subseteq checker'.structKeys /\ Copied(c, f)
        /\ DOMAIN checker'.sigs = DOMAIN c.sigs \cup {f} /\ checker'.sigs[f] = (IF RetOf(f) = None THEN Bad ELSE RetOf(f))
        /\ \A g \in DOMAIN c.sigs : g # f => checker'.sigs[g] = c.sigs[g]
    BY <2>1, InstanceBegun
  <2>3. Copied(checker, f)
    BY <2>1, <2>2 DEF Copied
  <2>4. Fn(f) /\ IsArg(f[2]) /\ Item(f[1]).generic
    BY <2>1 DEF Awaits, Asks
  <2>5. Instance(f, Bad)
    BY <2>1, <2>2, <2>3, <2>4 DEF Instance
  <2> QED
    BY <2>5
<1>2. CASE InstantiateMethod
  <2>1. PICK f : /\ stage = "structs" /\ Idle /\ UNCHANGED <<prog, stage, turn>>
                 /\ checker' = Declare(Cloned(checker, f), f, Unit) /\ task' = Begin(f)
                 /\ Awaits(checker, f) /\ Fn(f) /\ IsMethod(f[1]) /\ IsArg(f[2]) /\ f \notin DOMAIN checker.sigs
    BY <1>2, MethodAwaits
  <2>2. /\ BodyOK' /\ checker'.structs = checker.structs /\ checker'.diags = checker.diags
        /\ checker.structKeys \subseteq checker'.structKeys /\ Copied(checker, f)
        /\ DOMAIN checker'.sigs = DOMAIN checker.sigs \cup {f} /\ checker'.sigs[f] = (IF RetOf(f) = None THEN Unit ELSE RetOf(f))
        /\ \A g \in DOMAIN checker.sigs : g # f => checker'.sigs[g] = checker.sigs[g]
    BY <2>1, InstanceBegun
  <2>3. Item(f[1]).generic
    BY <2>1, MethodIs
  <2>4. Instance(f, Unit)
    BY <2>1, <2>2, <2>3 DEF Instance
  <2> QED
    BY <2>4
<1> QED
  BY <1>1, <1>2

\* What a body that begins makes of the tasks.
LEMMA BeginIs ==
  ASSUME NEW f, task' = Begin(f)
  PROVE  task'.fn = f /\ task'.stmt = 1 /\ task'.calls = <<>> /\ task'.type = None /\ DOMAIN task'.calls = {}
BY EmptySequence DEF Begin

\* None is being checked.
LEMMA IdleIs == ASSUME Idle PROVE \A f : Fn(f) => f # task.fn
BY DEF Idle, NoTask, Fn

\* An instance keeps the order.
LEMMA InstanceOrder ==
  ASSUME ProgramOK(prog), TypesInv, OrderInv, NEW f, NEW u, Instance(f, u), TypesInv'
  PROVE  OrderInv'
<1>1. /\ UNCHANGED <<prog, stage, turn>> /\ stage \in {"structs", "funcs"} /\ f[2] # None
      /\ DOMAIN checker'.sigs = DOMAIN checker.sigs \cup {f} /\ f \notin DOMAIN checker.sigs
      /\ checker'.sigs[f] = (IF RetOf(f) = None THEN u ELSE RetOf(f))
      /\ \A g \in DOMAIN checker.sigs : checker'.sigs[g] = checker.sigs[g]
      /\ task'.fn = f /\ DOMAIN task'.calls = {} /\ Idle /\ IsArg(f[2])
  BY BeginIs, NoType DEF Instance, IsArg
<1>2. \A g \in DOMAIN checker.sigs : g # task.fn
  BY <1>1, IdleIs DEF TypesInv, CheckerOK, SigsOK
<1>3. ASSUME NEW g \in DOMAIN checker'.sigs PROVE SigOK(g)'
  <2>1. CASE g = f
    BY <1>1, <2>1, SameProgram DEF SigOK, Done
  <2>2. CASE g # f
    <3>1. g \in DOMAIN checker.sigs /\ SigOK(g)
      BY <1>1, <2>2 DEF OrderInv
    <3>2. Done(g)
      BY <1>1, <1>2, <3>1 DEF Done, InTurn
    <3> QED
      BY <1>1, <3>1, <3>2, SameProgram DEF SigOK
  <2> QED
    BY <2>1, <2>2
<1>4. CurrentOK'
  BY <1>1 DEF CurrentOK
<1>5. ASSUME NEW at \in DOMAIN checker'.names PROVE WrittenOK(at)'
  <2>1. CASE at \in DOMAIN checker.names /\ checker'.names[at] = checker.names[at]
    <3>1. WrittenOK(at) /\ IsName(at[1][1])
      BY <2>1, PlaceNames DEF OrderInv
    <3>2. Begins(at[1])'
      BY <1>1, <3>1 DEF WrittenOK, Begins, InTurn
    <3> QED
      BY <1>1, <2>1, <3>1, <3>2, SameProgram, GivesStays DEF WrittenOK
  <2>2. CASE at = <<f, at[2], at[3]>> /\ From(f, at) \in DOMAIN checker.names /\ checker'.names[at] = checker.names[From(f, at)]
    <3> DEFINE b == From(f, at)
    <3>1. b = <<<<f[1], None>>, at[2], at[3]>> /\ at[1] = f
      BY <2>2 DEF From
    <3>2. b[1] = <<f[1], None>> /\ b[2] = at[2] /\ b[3] = at[3] /\ b[1][1] = f[1] /\ b[1][2] = None
      BY <3>1
    <3>3. WrittenOK(b) /\ b \in DOMAIN checker.names /\ (OpAt(b).op = "call" => IsArg(checker.names[b][2]))
      BY <2>2, PlaceNames DEF OrderInv
    <3> HIDE DEF b
    <3>4. OpAt(at) = OpAt(b)
      BY <3>1, <3>2 DEF OpAt, Body
    <3>5. Begins(f)'
      BY <1>1 DEF Begins
    <3>6. ASSUME OpAt(at).op = "call" PROVE Gives(OpAt(at), f, checker.names[b][2])
      <4> DEFINE t == checker.names[b][2]
                 op == OpAt(at)
      <4>1. Gives(op, b[1], t) /\ IsArg(t)
        BY <3>3, <3>4, <3>6 DEF WrittenOK
      <4> HIDE DEF t, op
      <4>2. CASE op.type = None
        BY <4>1, <4>2 DEF Gives, t, op
      <4>3. CASE op.type # None
        <5>1. t = op.type /\ t.of # "T"
          BY <3>2, <4>1, <4>3 DEF Gives, InFunction, IsArg
        <5>2. InFunction(op.type, f) = t
          BY <5>1 DEF InFunction, Subst
        <5> QED
          BY <4>3, <5>2 DEF Gives, t, op
      <4> QED
        BY <4>2, <4>3 DEF t, op
    <3>7. checker'.names[at] = checker.names[b]
      BY <2>2 DEF b
    <3> QED
      BY <1>1, <3>1, <3>5, <3>6, <3>7, SameProgram, GivesStays DEF WrittenOK
  <2> QED
    BY <2>1, <2>2 DEF Instance, Copied
<1> QED
  BY <1>1, <1>3, <1>4, <1>5 DEF OrderInv

\* A declaration that is collected keeps the order.
LEMMA CollectOrder ==
  ASSUME ProgramOK(prog), TypesInv, OrderInv, CollectItem, TypesInv'
  PROVE  OrderInv' /\ checker'.names = checker.names /\ checker'.diags = checker.diags
<1> DEFINE f == <<Order[turn].name, None>>
           d == Declare(checker, f, Bad)
<1>1. /\ stage = "collect" /\ turn \in DOMAIN Order /\ UNCHANGED <<prog, stage, todo, task>> /\ checker' = d
  BY DEF CollectItem
<1>2. Declares(checker, f, Bad, d)
  BY <1>1, CollectAwaits, DeclareOK
<1>3. f[2] = None
  OBVIOUS
<1> HIDE DEF f, d
<1>4. /\ checker'.names = checker.names /\ checker'.diags = checker.diags
      /\ DOMAIN checker'.sigs = DOMAIN checker.sigs \cup {f} /\ checker'.sigs[f] = (IF RetOf(f) = None THEN Bad ELSE RetOf(f))
      /\ \A g \in DOMAIN checker.sigs : g # f => checker'.sigs[g] = checker.sigs[g]
  BY <1>1, <1>2 DEF Declares
<1>5. DOMAIN checker'.names = {} /\ Idle'
  BY <1>1, <1>4, EmptySequence DEF TypesInv, StageOK, Idle
<1>6. ASSUME NEW g \in DOMAIN checker'.sigs PROVE SigOK(g)'
  <2>1. g[2] = None /\ ~Done(g)'
    BY <1>1, <1>3, <1>4 DEF OrderInv, SigOK, Done, InTurn
  <2>2. RetOf(g)' = RetOf(g)
    BY <1>1, SameProgram
  <2>3. CASE g = f
    BY <1>4, <2>1, <2>2, <2>3 DEF SigOK
  <2>4. CASE g # f
    BY <1>4, <2>1, <2>2, <2>4 DEF SigOK, OrderInv
  <2> QED
    BY <2>3, <2>4
<1> QED
  BY <1>4, <1>5, <1>6 DEF OrderInv

\* Positions are the places in the order.
LEMMA PositionIs ==
  ASSUME ProgramOK(prog), NEW n, IsName(n)
  PROVE  /\ Position(n) \in Nat /\ Position(n) \in DOMAIN Order /\ Position(n) >= 1 /\ Order[Position(n)].name = n
         /\ \A i \in Nat \ {0} : i \notin DOMAIN Order => Position(n) < i
BY NameIs, Declarations

\* So does a declaration that is checked.
LEMMA CheckOrder ==
  ASSUME ProgramOK(prog), TypesInv, OrderInv, CheckItem, TypesInv'
  PROVE  /\ OrderInv' /\ UNCHANGED <<prog, checker>> /\ task'.type = None
         /\ \A at \in DOMAIN checker.names : at[1] # task'.fn
<1> DEFINE f == <<Order[turn].name, None>>
<1>1. /\ stage = "items" /\ Idle /\ turn \in DOMAIN Order /\ task' = Begin(f) /\ turn' = turn + 1
      /\ UNCHANGED <<prog, stage, checker, todo>> /\ turn \in Nat
  BY Declarations DEF CheckItem
<1>2. f[1] = Order[turn].name /\ f[2] = None /\ f = <<f[1], f[2]>>
  OBVIOUS
<1> HIDE DEF f
<1>3. task'.fn = f /\ DOMAIN task'.calls = {} /\ task'.type = None
  BY <1>1, BeginIs
<1>4. Position(f[1]) = turn
  BY <1>1, <1>2, ItemIs
<1>5. CurrentOK'
  BY <1>1, <1>2, <1>3, <1>4, SameProgram DEF CurrentOK
<1>6. ASSUME NEW g \in DOMAIN checker.sigs PROVE SigOK(g)'
  <2>1. SigOK(g) /\ Fn(g) /\ g # task.fn
    BY <1>1, IdleIs DEF OrderInv, TypesInv, CheckerOK, SigsOK
  <2>2. g[2] = None /\ Done(g)' => Position(g[1]) < turn
    <3> SUFFICES ASSUME g[2] = None, Done(g)' PROVE Position(g[1]) < turn
      OBVIOUS
    <3>1. Position(g[1]) < turn + 1 /\ g # f
      BY <1>1, <1>3, SameProgram DEF Done, InTurn
    <3>2. Position(g[1]) \in Nat /\ Order[Position(g[1])].name = g[1]
      BY <2>1, PositionIs DEF Fn
    <3>3. Position(g[1]) # turn
      BY <1>2, <2>1, <3>1, <3>2 DEF Fn
    <3> QED
      BY <1>1, <3>1, <3>2, <3>3
  <2>3. Done(g)' => Done(g)
    BY <1>1, <2>1, <2>2 DEF Done, InTurn
  <2> QED
    BY <1>1, <2>1, <2>3, SameProgram DEF SigOK
<1>7. ASSUME NEW at \in DOMAIN checker.names PROVE WrittenOK(at)' /\ at[1] # f
  <2>1. WrittenOK(at) /\ IsName(at[1][1])
    BY PlaceNames DEF OrderInv
  <2>2. Begins(at[1])'
    BY <1>1, <2>1, BeginsOn DEF WrittenOK
  <2>3. at[1] # f
    BY <1>1, <1>2, <1>4, <2>1 DEF WrittenOK, Begins, InTurn
  <2> QED
    BY <1>1, <2>1, <2>2, <2>3, SameProgram, GivesStays DEF WrittenOK
<1> QED
  BY <1>1, <1>3, <1>5, <1>6, <1>7 DEF OrderInv

\* So does a change of the stage.
LEMMA StageOrder ==
  ASSUME ProgramOK(prog), TypesInv, OrderInv, NextStage \/ NextQueue, TypesInv'
  PROVE  OrderInv' /\ UNCHANGED <<prog, checker, task>> /\ Idle
<1>1. UNCHANGED <<prog, checker, task>> /\ Idle /\ turn \in Nat \ {0}
  BY DEF NextStage, NextQueue, TypesInv, StageOK
<1>2. \/ stage = "collect" /\ stage' = "items" /\ turn' = 1
      \/ stage = "items" /\ stage' = "structs" /\ turn \notin DOMAIN Order
      \/ stage \in {"structs", "funcs"} /\ stage' \in {"structs", "funcs", "over"}
  BY DEF NextStage, NextQueue
<1>3. Idle'
  BY <1>1 DEF Idle
<1>4. ASSUME NEW g \in DOMAIN checker.sigs PROVE SigOK(g)'
  <2>1. SigOK(g) /\ Fn(g) /\ g # task.fn
    BY <1>1, IdleIs DEF OrderInv, TypesInv, CheckerOK, SigsOK
  <2>2. Position(g[1]) \in Nat /\ Position(g[1]) >= 1 /\ (\A i \in Nat \ {0} : i \notin DOMAIN Order => Position(g[1]) < i)
    BY <2>1, PositionIs DEF Fn
  <2>3. Position(g[1])' = Position(g[1]) /\ RetOf(g)' = RetOf(g)
    BY <1>1, SameProgram
  <2>4. Done(g)' => Done(g)
    BY <1>1, <1>2, <2>1, <2>2, <2>3 DEF Done, InTurn, SigOK
  <2> QED
    BY <1>1, <1>2, <2>1, <2>3, <2>4 DEF SigOK
<1>5. ASSUME NEW at \in DOMAIN checker.names PROVE WrittenOK(at)'
  <2>1. WrittenOK(at) /\ IsName(at[1][1])
    BY PlaceNames DEF OrderInv
  <2>2. stage # "collect"
    BY EmptySequence DEF TypesInv, StageOK
  <2>3. Begins(at[1])'
    BY <1>1, <1>2, <2>1, <2>2, BeginsOn DEF WrittenOK
  <2> QED
    BY <1>1, <2>1, <2>3, SameProgram, GivesStays DEF WrittenOK
<1> QED
  BY <1>1, <1>3, <1>4, <1>5 DEF OrderInv

\* So does the next expression.
LEMMA NextExprOrder ==
  ASSUME ProgramOK(prog), TypesInv, OrderInv, NextExpr
  PROVE  /\ OrderInv' /\ UNCHANGED <<prog, checker, turn, stage>> /\ task'.fn = task.fn /\ task'.stmt = task.stmt + 1
         /\ DOMAIN task'.calls = {} /\ task'.type = None /\ ~Idle
<1>1. /\ ~Idle /\ task.calls = <<>> /\ task' = [task EXCEPT !.stmt = @ + 1, !.type = None]
      /\ UNCHANGED <<prog, stage, turn, todo, checker>>
  BY DEF NextExpr, ExprDone
<1>2. Busy
  BY <1>1, BusyIs
<1>3. task'.fn = task.fn /\ task'.calls = <<>> /\ task'.stmt = task.stmt + 1 /\ task'.type = None
  BY <1>1, <1>2, TaskShape
<1>4. DOMAIN task'.calls = {}
  BY <1>3, EmptySequence
<1>5. CurrentOK'
  BY <1>1, <1>3, SameProgram DEF OrderInv, CurrentOK
<1>6. \A f : InTurn(f)' = InTurn(f) /\ Begins(f)' = Begins(f) /\ Done(f)' = Done(f)
  BY <1>1, <1>3, SameProgram DEF InTurn, Begins, Done
<1>7. \A f \in DOMAIN checker.sigs : SigOK(f)'
  BY <1>1, <1>6, SameProgram DEF OrderInv, SigOK
<1>8. \A at \in DOMAIN checker.names : WrittenOK(at)'
  BY <1>1, <1>6, SameProgram, GivesStays DEF OrderInv, WrittenOK
<1> QED
  BY <1>1, <1>3, <1>4, <1>5, <1>7, <1>8 DEF OrderInv

\* What the end of a body makes.
LEMMA EndIs ==
  ASSUME ProgramOK(prog), TypesInv, EndBody
  PROVE  /\ Busy /\ ~Idle /\ Idle' /\ task' = NoTask /\ UNCHANGED <<prog, stage, turn, todo>> /\ task.type # None /\ task.calls = <<>>
         /\ task.stmt = Len(Body(task.fn))
         /\ checker'.names = checker.names /\ checker'.structs = checker.structs /\ checker'.structKeys = checker.structKeys
         /\ DOMAIN checker'.sigs = DOMAIN checker.sigs
         /\ \A g \in DOMAIN checker.sigs : g # task.fn => checker'.sigs[g] = checker.sigs[g]
         /\ RetOf(task.fn) # None =>
              /\ checker'.sigs = checker.sigs /\ checker'.diags \subseteq checker.diags \cup {"mismatch"} /\ checker.diags \subseteq checker'.diags
              /\ RetOf(task.fn) # Unit /\ Clash(task.type, RetOf(task.fn)) => "mismatch" \in checker'.diags
         /\ RetOf(task.fn) = None =>
              checker'.diags = checker.diags /\ checker'.sigs[task.fn] = IF Known(task.type) THEN task.type ELSE Unit
<1> DEFINE f == task.fn
           r == IF Known(task.type) THEN task.type ELSE Unit
           c == [checker EXCEPT !.sigs[f] = r]
<1>1. /\ ~Idle /\ task.type # None /\ task.calls = <<>> /\ task.stmt = Len(Body(f)) /\ task' = NoTask
      /\ UNCHANGED <<prog, stage, turn, todo>>
      /\ checker' = IF RetOf(f) = None THEN c ELSE ReportIf(RetOf(f) # Unit /\ Clash(task.type, RetOf(f)), checker, "mismatch")
  BY DEF EndBody, ExprDone
<1>2. Busy
  BY <1>1, BusyIs
<1>3. f \in DOMAIN checker.sigs /\ DOMAIN checker = Fields
  BY <1>2, Here DEF Busy, CheckerOK, StructsOK
<1>4. CASE RetOf(f) = None
  <2>1. /\ c.names = checker.names /\ c.structs = checker.structs /\ c.structKeys = checker.structKeys
        /\ c.diags = checker.diags /\ DOMAIN c.sigs = DOMAIN checker.sigs /\ c.sigs[f] = r
        /\ \A g \in DOMAIN checker.sigs : g # f => c.sigs[g] = checker.sigs[g]
    <3> HIDE DEF r
    <3> QED
      BY <1>3 DEF Fields
  <2> HIDE DEF c
  <2> QED
    BY <1>1, <1>2, <1>4, <2>1 DEF Idle
<1>5. CASE RetOf(f) # None
  <2> DEFINE bad == RetOf(f) # Unit /\ Clash(task.type, RetOf(f))
             d == ReportIf(bad, checker, "mismatch")
  <2>1. checker' = d
    BY <1>1, <1>5
  <2> HIDE DEF bad
  <2>2. /\ Goes(checker, d) /\ d.names = checker.names /\ d.structKeys = checker.structKeys
        /\ d.diags \subseteq checker.diags \cup {"mismatch"} /\ (bad => "mismatch" \in d.diags)
    BY <1>2, ReportIfOK DEF Busy
  <2> HIDE DEF d
  <2>3. /\ checker'.sigs = checker.sigs /\ checker'.diags \subseteq checker.diags \cup {"mismatch"}
        /\ checker.diags \subseteq checker'.diags /\ (bad => "mismatch" \in checker'.diags)
        /\ checker'.names = checker.names /\ checker'.structs = checker.structs /\ checker'.structKeys = checker.structKeys
    BY <2>1, <2>2 DEF Goes
  <2> QED
    BY <1>1, <1>2, <1>5, <2>3 DEF Idle, bad
<1> QED
  BY <1>4, <1>5

\* It keeps the order.
LEMMA EndOrder ==
  ASSUME ProgramOK(prog), TypesInv, OrderInv, EndBody
  PROVE  OrderInv'
<1> DEFINE f == task.fn
<1>1. /\ Busy /\ ~Idle /\ Idle' /\ UNCHANGED <<prog, stage, turn, todo>> /\ checker'.names = checker.names
      /\ DOMAIN checker'.sigs = DOMAIN checker.sigs
      /\ \A g \in DOMAIN checker.sigs : g # f => checker'.sigs[g] = checker.sigs[g]
      /\ RetOf(f) # None => checker'.sigs = checker.sigs
      /\ RetOf(f) = None => checker'.sigs[f] = IF Known(task.type) THEN task.type ELSE Unit
  BY EndIs
<1>2. Fn(f) /\ f \in DOMAIN checker.sigs
  BY <1>1, Here
<1>3. \A g : InTurn(g)' = InTurn(g) /\ Begins(g)' = Begins(g)
  BY <1>1, SameProgram DEF InTurn, Begins
<1>4. ASSUME NEW g \in DOMAIN checker.sigs PROVE SigOK(g)'
  <2>1. SigOK(g)
    BY DEF OrderInv
  <2>2. CASE g = f
    <3>1. CASE RetOf(f) = None
      <4>1. IsType(Unit)
        BY TypeOf DEF Unit
      <4>2. Known(task.type) => IsType(task.type)
        BY <1>1, EndIs DEF Busy, BodyOK, ResultIn, IsResult, Known
      <4>3. IsType(checker'.sigs[f])
        BY <1>1, <3>1, <4>1, <4>2
      <4> QED
        BY <1>1, <2>1, <2>2, <3>1, <4>3, SameProgram DEF SigOK
    <3>2. CASE RetOf(f) # None
      <4>1. IsType(RetOf(f))
        BY <1>1, <1>2, <3>2, SignatureIs DEF Busy
      <4> QED
        BY <1>1, <2>1, <2>2, <3>2, <4>1, SameProgram DEF SigOK
    <3> QED
      BY <3>1, <3>2
  <2>3. CASE g # f
    <3>1. Done(g)' => Done(g)
      BY <1>1, <1>3, <2>3 DEF Done
    <3> QED
      BY <1>1, <2>1, <2>3, <3>1, SameProgram DEF SigOK
  <2> QED
    BY <2>2, <2>3
<1>5. \A at \in DOMAIN checker.names : WrittenOK(at)'
  BY <1>1, <1>3, SameProgram, GivesStays DEF OrderInv, WrittenOK
<1> QED
  BY <1>1, <1>4, <1>5 DEF OrderInv

\* What leaves names, signatures and the body that is checked as they are keeps the order.
LEMMA QuietOrder ==
  ASSUME OrderInv, UNCHANGED <<prog, stage, turn, task>>, checker'.names = checker.names, checker'.sigs = checker.sigs
  PROVE  OrderInv' /\ Idle' = Idle
<1>1. \A f : InTurn(f)' = InTurn(f) /\ Begins(f)' = Begins(f) /\ Done(f)' = Done(f)
  BY SameProgram DEF InTurn, Begins, Done
<1>2. \A at \in DOMAIN checker'.names : WrittenOK(at)'
  BY <1>1, SameProgram, GivesStays DEF OrderInv, WrittenOK
<1>3. \A f \in DOMAIN checker'.sigs : SigOK(f)'
  BY <1>1, SameProgram DEF OrderInv, SigOK
<1>4. Idle' = Idle /\ (CurrentOK => CurrentOK')
  BY SameProgram DEF Idle, NoTask, CurrentOK
<1>5. Expr' = Expr
  BY SameProgram DEF Expr
<1>6. \A k : Place(k)' = Place(k)
  BY DEF Place
<1>7. \A k : Callee(k)' = Callee(k) /\ Generic(k)' = Generic(k)
  BY <1>5, <1>6, SameProgram DEF Callee, Generic, Named
<1>8. \A k : GivenOK(k) => GivenOK(k)'
  BY <1>5, <1>7, GivesStays DEF GivenOK
<1> QED
  BY <1>2, <1>3, <1>4, <1>8 DEF OrderInv

\* At first there is nothing to be in order.
LEMMA OrderInit == MonoInit => OrderInv
BY EmptySequence DEF MonoInit, OrderInv, Idle

\* A struct comes into being, and nothing else is said of the order.
LEMMA StructIs ==
  ASSUME ProgramOK(prog), TypesInv, InstantiateStruct
  PROVE  /\ UNCHANGED <<prog, stage, turn, task>> /\ checker'.names = checker.names /\ checker'.sigs = checker.sigs
         /\ checker'.diags = checker.diags /\ checker.structs \subseteq checker'.structs /\ checker'.structKeys = checker.structKeys
<1>1. DOMAIN checker = Fields
  BY DEF TypesInv, CheckerOK, StructsOK
<1> QED
  BY <1>1 DEF InstantiateStruct, Fields

\* Every step keeps the order.
LEMMA OrderStep ==
  ASSUME ProgramOK(prog), TypesInv, OrderInv, [MonoNext]_monoVars
  PROVE  OrderInv'
<1>1. TypesInv'
  BY TypesStep
<1>2. CASE Work
  <2>1. ~Idle /\ Busy
    BY <1>2, BusyIs DEF Work
  <2> QED
    BY <1>1, <1>2, <2>1, WorkDoes, WorkOrder
<1>3. CASE InstantiateFunc \/ InstantiateMethod
  BY <1>1, <1>3, InstanceIs, InstanceOrder
<1>4. CASE InstantiateStruct
  BY <1>4, StructIs, QuietOrder
<1>5. CASE UNCHANGED monoVars
  BY <1>5, QuietOrder DEF monoVars
<1> QED
  BY <1>1, <1>2, <1>3, <1>4, <1>5, CollectOrder, CheckOrder, StageOrder, NextExprOrder, EndOrder DEF MonoNext

----------------------------------------------------------------------------
(* Where the names of the current body are.                                *)

\* They are behind the operation that is being checked, so that none is met.
BehindOK(at) == at[1] = task.fn => at[2] < task.stmt \/ (at[2] = task.stmt /\ task.type # None /\ at[3] > Len(task.calls))
Behind == ~Idle => \A at \in DOMAIN checker.names : BehindOK(at)
UndefinedInv == Apart /\ TemplatesOpen => "undefined" \notin checker.diags /\ Behind

\* The body that is being checked is one of the program's.
LEMMA ApartHere ==
  ASSUME Busy, Apart, NEW k \in DOMAIN Expr, Resolved(Expr[k]), Expr[k].type = None, NEW m \in DOMAIN Expr, m > k
  PROVE  ~Resolved(Expr[m])
<1> DEFINE it == Item(task.fn[1])
<1>1. Fn(task.fn) /\ task.stmt \in DOMAIN it.body /\ Expr = it.body[task.stmt]
  BY Here DEF Expr, Body
<1>2. PICK i \in DOMAIN Order : Order[i] = it
  BY <1>1, NameIs DEF Fn, Busy
<1>3. Expr \in Exprs(Order[i])
  BY <1>1, <1>2 DEF Exprs
<1> HIDE DEF it
<1> QED
  BY <1>2, <1>3 DEF Apart

\* A step of checkExpr meets no name, and leaves its own behind.
LEMMA WorkBehind ==
  ASSUME ProgramOK(prog), TypesInv, OrderInv, Apart, Behind, "undefined" \notin checker.diags,
         NEW k \in DOMAIN Expr, ~Idle, Works(Place(k)), Does(k)
  PROVE  Behind' /\ "undefined" \notin checker'.diags
<1>1. Busy
  BY BusyIs
<1>2. task'.fn = task.fn /\ task'.stmt = task.stmt /\ prog' = prog
  BY DEF Works
<1>3. k \in Nat /\ Len(task.calls) \in Nat /\ DOMAIN task.calls = 1 .. Len(task.calls) /\ task.stmt \in Nat
  BY <1>1, Here, BodyIs DEF Busy
<1>4. ASSUME NEW at \in DOMAIN checker.names, at[1] = task.fn
      PROVE  /\ at[2] < task.stmt \/ (at[2] = task.stmt /\ task.type # None /\ at[3] > Len(task.calls))
             /\ at[3] \in Nat
             /\ at[2] = task.stmt => at[3] \in DOMAIN Expr /\ Resolved(Expr[at[3]])
  <2>1. BehindOK(at) /\ IsPlace(at) /\ OpAt(at).op \in {"new", "call"} /\ (OpAt(at).op = "call" => Item(OpAt(at).f).generic)
    BY PlaceNames DEF Behind
  <2>2. at[2] \in DOMAIN Body(at[1]) /\ DOMAIN Body(at[1])[at[2]] = 1 .. Len(Body(at[1])[at[2]])
    BY <2>1, BodyIs DEF IsPlace
  <2>3. at[3] \in Nat
    BY <2>1, <2>2, BodyIs DEF IsPlace
  <2>4. ASSUME at[2] = task.stmt PROVE at[3] \in DOMAIN Expr /\ OpAt(at) = Expr[at[3]]
    BY <1>4, <2>1, <2>4 DEF IsPlace, OpAt, Expr
  <2> QED
    BY <1>4, <2>1, <2>3, <2>4 DEF BehindOK, Resolved
<1>5. CASE task.type = None /\ NamesStay /\ checker'.diags = checker.diags
  BY <1>2, <1>4, <1>5 DEF Behind, BehindOK, NamesStay
<1>6. CASE Misses(k)
  <2>1. Place(k) \in DOMAIN checker.names /\ task.type = None /\ Place(k)[1] = task.fn /\ Place(k)[2] = task.stmt
    BY <1>6 DEF Misses, Yielded, Named, Place
  <2> QED
    BY <1>3, <1>4, <2>1
<1>7. CASE Repeats(k)
  <2>1. PICK t : /\ Redone(k, t) /\ NamesStay /\ checker'.diags = checker.diags /\ task.calls[k] = None
                 /\ \/ Expr[k].op = "new"
                    \/ Expr[k].op = "call" /\ Generic(k) /\ ParamOf(Callee(k)).of = "T"
    BY <1>7 DEF Repeats
  <2>2. k \in DOMAIN task.calls /\ k = Len(task.calls)
    BY <2>1 DEF Redone
  <2>3. Resolved(Expr[k]) /\ Expr[k].type = None
    <3>1. CASE Expr[k].op = "new"
      BY <1>1, <3>1, OpHere DEF Resolved
    <3>2. CASE Expr[k].op = "call" /\ Generic(k)
      <4>1. Item(Expr[k].f).generic
        BY <1>1, <3>2, CalleeIs
      <4>2. Expr[k].type = None
        <5> SUFFICES ASSUME Expr[k].type # None PROVE FALSE
          OBVIOUS
        <5>1. GivenOK(k)
          BY <2>2 DEF OrderInv
        <5>2. IsType(InFunction(Expr[k].type, task.fn))
          BY <1>1, OpHere
        <5> QED
          BY <2>1, <3>2, <5>1, <5>2, NoType DEF GivenOK, Gives
      <4> QED
        BY <3>2, <4>1, <4>2 DEF Resolved
    <3> QED
      BY <2>1, <3>1, <3>2
  <2>4. \A m \in DOMAIN Expr : m > k => ~Resolved(Expr[m])
    BY <1>1, <2>3, ApartHere
  <2>5. \A at \in DOMAIN checker.names : at[1] = task.fn => at[2] < task.stmt
    BY <1>4, <2>2, <2>4
  <2> QED
    BY <1>2, <2>1, <2>5 DEF Behind, BehindOK, NamesStay
<1>8. CASE GoesOut(k)
  <2>1. PICK t : Popped(k, t) /\ checker'.diags \subseteq checker.diags \cup Reports
    BY <1>8 DEF GoesOut
  <2>2. k = Len(task.calls) /\ task.type # None /\ Len(task'.calls) = k - 1
    BY <2>1 DEF Popped
  <2>3. task'.type # None
    BY <1>3, <2>2 DEF Works
  <2>4. ASSUME NEW at \in DOMAIN checker'.names PROVE BehindOK(at)'
    <3>1. CASE at \in DOMAIN checker.names
      BY <1>2, <1>3, <1>4, <2>2, <2>3, <3>1 DEF BehindOK
    <3>2. CASE at = Place(k)
      BY <1>2, <1>3, <2>2, <2>3, <3>2 DEF BehindOK, Place
    <3> QED
      BY <3>1, <3>2 DEF Works
  <2>5. "undefined" \notin checker'.diags
    BY <2>1 DEF Reports
  <2> QED
    BY <2>4, <2>5 DEF Behind
<1>9. GoesIn(k) \/ Ends(k) => task.type = None /\ NamesStay /\ checker'.diags = checker.diags
  BY DEF GoesIn, Pushed, Ends, Yielded, NamesStay
<1> QED
  BY <1>5, <1>6, <1>7, <1>8, <1>9 DEF Does

\* The start of an instance's body: nothing that is not in a template is in it.
LEMMA InstanceBehind ==
  ASSUME ProgramOK(prog), TypesInv, OrderInv, TemplatesOpen, NEW f, NEW u, Instance(f, u)
  PROVE  Behind' /\ checker'.diags = checker.diags
<1>1. /\ checker'.diags = checker.diags /\ task'.fn = f /\ f \notin DOMAIN checker.sigs /\ IsArg(f[2]) /\ Item(f[1]).generic
      /\ Copied(checker, f)
  BY BeginIs DEF Instance
<1>2. ASSUME NEW at \in DOMAIN checker'.names, at[1] = f PROVE FALSE
  <2>1. CASE at \in DOMAIN checker.names
    <3>1. Begins(f)
      BY <1>2, <2>1 DEF OrderInv, WrittenOK
    <3> QED
      BY <1>1, <3>1, NoType DEF Begins, IsArg
  <2>2. CASE From(f, at) \in DOMAIN checker.names
    <3>1. From(f, at)[1] = <<f[1], None>>
      BY DEF From
    <3>2. IsGeneric(<<f[1], None>>)
      BY <1>1 DEF IsGeneric
    <3> QED
      BY <2>2, <3>1, <3>2 DEF TemplatesOpen
  <2> QED
    BY <1>1, <2>1, <2>2 DEF Copied
<1> QED
  BY <1>1, <1>2 DEF Behind, BehindOK

\* Every step leaves the names behind the check, as long as the program is as it was.
LEMMA BehindStep ==
  ASSUME ProgramOK(prog), TypesInv, OrderInv, Apart, TemplatesOpen, Behind, "undefined" \notin checker.diags, [MonoNext]_monoVars
  PROVE  Behind' /\ "undefined" \notin checker'.diags
<1>1. CASE Work
  <2>1. ~Idle /\ Busy
    BY <1>1, BusyIs DEF Work
  <2> QED
    BY <1>1, <2>1, WorkDoes, WorkBehind
<1>2. CASE InstantiateFunc \/ InstantiateMethod
  BY <1>2, InstanceIs, InstanceBehind
<1>3. CASE CollectItem
  <2>1. checker'.names = checker.names /\ checker'.diags = checker.diags /\ task' = task /\ stage = "collect"
    <3>1. TypesInv'
      BY TypesStep
    <3> QED
      BY <1>3, <3>1, CollectOrder DEF CollectItem
  <2>2. Idle
    BY <2>1 DEF TypesInv, StageOK
  <2> QED
    BY <2>1, <2>2 DEF Behind, Idle
<1>4. CASE CheckItem
  <2>1. TypesInv'
    BY TypesStep
  <2> QED
    BY <1>4, <2>1, CheckOrder DEF Behind, BehindOK
<1>5. CASE NextStage \/ NextQueue
  <2>1. UNCHANGED <<prog, checker, task>>
    BY <1>5 DEF NextStage, NextQueue
  <2> QED
    BY <2>1 DEF Behind, BehindOK, Idle
<1>6. CASE NextExpr
  <2>1. /\ UNCHANGED <<prog, checker, turn, stage>> /\ task'.fn = task.fn /\ task'.stmt = task.stmt + 1 /\ ~Idle
    BY <1>6, NextExprOrder
  <2>2. task.stmt \in Nat
    BY <2>1, BusyIs, Here, BodyIs DEF Busy
  <2>3. \A at \in DOMAIN checker.names : at[1] = task.fn => at[2] < task.stmt \/ at[2] = task.stmt
    BY <2>1 DEF Behind, BehindOK
  <2>4. \A at \in DOMAIN checker.names : at[1] = task.fn => at[2] \in Nat
    BY PlaceNames, BodyIs DEF IsPlace
  <2>5. \A at \in DOMAIN checker.names : at[1] = task.fn => at[2] < task.stmt + 1
    BY <2>2, <2>3, <2>4
  <2> QED
    BY <2>1, <2>5 DEF Behind, BehindOK
<1>7. CASE EndBody
  <2>1. Idle' /\ "undefined" \notin checker'.diags
    BY <1>7, EndIs
  <2> QED
    BY <2>1 DEF Behind
<1>8. CASE InstantiateStruct
  BY <1>8, StructIs DEF Behind, BehindOK, Idle, NoTask
<1>9. CASE UNCHANGED monoVars
  BY <1>9 DEF monoVars, Behind, BehindOK, Idle, NoTask
<1> QED
  BY <1>1, <1>2, <1>3, <1>4, <1>5, <1>6, <1>7, <1>8, <1>9 DEF MonoNext

\* A step never takes a name out of the tree.
LEMMA NamesGrow ==
  ASSUME ProgramOK(prog), TypesInv, OrderInv, [MonoNext]_monoVars
  PROVE  DOMAIN checker.names \subseteq DOMAIN checker'.names /\ prog' = prog
<1>1. TypesInv' /\ prog' = prog
  BY TypesStep
<1>2. CASE Work
  <2>1. ~Idle /\ Busy
    BY <1>2, BusyIs DEF Work
  <2>2. PICK k \in DOMAIN Expr : Works(Place(k))
    BY <1>2, <2>1, WorkDoes
  <2> QED
    BY <1>1, <2>2 DEF Works
<1>3. CASE InstantiateFunc \/ InstantiateMethod
  <2>1. PICK f, u : Instance(f, u)
    BY <1>3, InstanceIs
  <2> QED
    BY <1>1, <2>1 DEF Instance, Copied
<1>4. CASE CollectItem
  BY <1>1, <1>4, CollectOrder
<1>5. CASE CheckItem \/ NextStage \/ NextQueue \/ NextExpr
  BY <1>1, <1>5 DEF CheckItem, NextStage, NextQueue, NextExpr
<1>6. CASE EndBody
  BY <1>1, <1>6, EndIs
<1>7. CASE InstantiateStruct
  BY <1>1, <1>7, StructIs
<1>8. CASE UNCHANGED monoVars
  BY <1>1, <1>8 DEF monoVars
<1> QED
  BY <1>2, <1>3, <1>4, <1>5, <1>6, <1>7, <1>8 DEF MonoNext

\* What asks for instances one at a time has always done so, and templates that are open were.
LEMMA OpenBefore ==
  ASSUME prog' = prog, DOMAIN checker.names \subseteq DOMAIN checker'.names, (Apart /\ TemplatesOpen)'
  PROVE  Apart /\ TemplatesOpen
<1>1. Apart
  BY SameProgram DEF Apart, Exprs, Resolved
<1>2. TemplatesOpen
  BY SameProgram DEF TemplatesOpen
<1> QED
  BY <1>1, <1>2

\* Every step.
LEMMA UndefinedStep ==
  ASSUME ProgramOK(prog), TypesInv, OrderInv, UndefinedInv, [MonoNext]_monoVars
  PROVE  UndefinedInv'
<1> SUFFICES ASSUME (Apart /\ TemplatesOpen)' PROVE "undefined" \notin checker'.diags /\ Behind'
  BY DEF UndefinedInv
<1>1. Apart /\ TemplatesOpen
  BY NamesGrow, OpenBefore
<1> QED
  BY <1>1, BehindStep DEF UndefinedInv

\* In programs that ask for instances one at a time and whose templates are open, no diagnostic
\* ever says that something that has been asked for is undefined: names are written behind the
\* operation that is being checked, so that no second check meets one (checkCallExpr, checkStructLit).
THEOREM NoFalseUndefinedAlways == MonoSpec => []NoFalseUndefined
<1>1. MonoInit => ProgramOK(prog) /\ TypesInv /\ OrderInv /\ UndefinedInv
  <2> SUFFICES ASSUME MonoInit PROVE UndefinedInv
    BY TypesInit, OrderInit
  <2> QED
    BY DEF MonoInit, UndefinedInv, Behind, Idle
<1>2. /\ ProgramOK(prog) /\ TypesInv /\ OrderInv /\ UndefinedInv /\ [MonoNext]_monoVars
      => (ProgramOK(prog) /\ TypesInv /\ OrderInv /\ UndefinedInv)'
  <2> SUFFICES ASSUME ProgramOK(prog), TypesInv, OrderInv, UndefinedInv, [MonoNext]_monoVars
               PROVE  ProgramOK(prog)' /\ TypesInv' /\ OrderInv' /\ UndefinedInv'
    OBVIOUS
  <2>1. TypesInv' /\ prog' = prog
    BY TypesStep
  <2>2. ProgramOK(prog)'
    BY <2>1
  <2> QED
    BY <2>1, <2>2, OrderStep, UndefinedStep
<1>3. UndefinedInv => NoFalseUndefined
  BY DEF UndefinedInv, NoFalseUndefined
<1> QED
  BY <1>1, <1>2, <1>3, PTL DEF MonoSpec

----------------------------------------------------------------------------
(* What a step keeps of what has been found.                               *)

\* Names that are written stay, and so do the types of what has been checked.
Keeps ==
  /\ prog' = prog /\ checker.structKeys \subseteq checker'.structKeys /\ checker.diags \subseteq checker'.diags
  /\ \A at \in DOMAIN checker.names : at \in DOMAIN checker'.names /\ checker'.names[at] = checker.names[at]
  /\ \A g : Done(g) => Done(g)'
  /\ \A g : Settled(g) => Settled(g)' /\ checker'.sigs[g] = checker.sigs[g]
\* No function is done but those that were.
NoneDone == \A g : Done(g)' => Done(g)

\* What is done remains settled.
LEMMA KeepsIf ==
  ASSUME prog' = prog, \A g : Done(g) => Done(g)', DOMAIN checker.sigs \subseteq DOMAIN checker'.sigs,
         \A g \in DOMAIN checker.sigs : RetOf(g) # None \/ Done(g) => checker'.sigs[g] = checker.sigs[g]
  PROVE  \A g : Settled(g) => Settled(g)' /\ checker'.sigs[g] = checker.sigs[g]
<1> SUFFICES ASSUME NEW g, Settled(g) PROVE Settled(g)' /\ checker'.sigs[g] = checker.sigs[g]
  OBVIOUS
<1>1. g \in DOMAIN checker.sigs /\ (RetOf(g) # None \/ Done(g))
  BY DEF Settled
<1>2. RetOf(g)' = RetOf(g)
  BY SameProgram
<1> QED
  BY <1>1, <1>2 DEF Settled

\* A step of checkExpr.
LEMMA WorkKeeps ==
  ASSUME ProgramOK(prog), TypesInv, ~Idle, NEW k \in DOMAIN Expr, Works(Place(k)), Does(k)
  PROVE  Keeps /\ NoneDone
<1>1. Busy
  BY BusyIs
<1>2. /\ UNCHANGED <<prog, stage, turn, todo>> /\ task'.fn = task.fn /\ checker'.sigs = checker.sigs
      /\ checker.structKeys \subseteq checker'.structKeys /\ checker.diags \subseteq checker'.diags
  BY DEF Works, Goes
<1>3. \A g : Done(g)' = Done(g)
  BY <1>2, SameProgram DEF InTurn, Done
<1>4. NamesStay \/ ~Named(k)
  <2>1. CASE GoesOut(k)
    BY <1>1, <2>1, CalleeIs DEF GoesOut
  <2> QED
    BY <2>1 DEF Does, GoesIn, Ends, Misses, Repeats, NamesStay
<1>5. \A at \in DOMAIN checker.names : at \in DOMAIN checker'.names /\ checker'.names[at] = checker.names[at]
  BY <1>4 DEF Works, NamesStay, Named
<1> QED
  BY <1>2, <1>3, <1>5, KeepsIf DEF Keeps, NoneDone

\* A body of an instance that begins.
LEMMA InstanceKeeps ==
  ASSUME ProgramOK(prog), TypesInv, OrderInv, NEW f, NEW u, Instance(f, u)
  PROVE  Keeps /\ NoneDone
<1>1. /\ UNCHANGED <<prog, stage, turn>> /\ stage \in {"structs", "funcs"} /\ f[2] # None
      /\ DOMAIN checker'.sigs = DOMAIN checker.sigs \cup {f} /\ f \notin DOMAIN checker.sigs
      /\ \A g \in DOMAIN checker.sigs : checker'.sigs[g] = checker.sigs[g]
      /\ task'.fn = f /\ Idle /\ checker'.diags = checker.diags /\ checker.structKeys \subseteq checker'.structKeys
      /\ Copied(checker, f)
  BY BeginIs, NoType DEF Instance, IsArg
<1>2. \A g \in DOMAIN checker.sigs : g # task.fn
  BY <1>1, IdleIs DEF TypesInv, CheckerOK, SigsOK
<1>3. \A g : Done(g)' = Done(g)
  BY <1>1, <1>2 DEF Done, InTurn
<1>4. ASSUME NEW at \in DOMAIN checker.names PROVE at \in DOMAIN checker'.names /\ checker'.names[at] = checker.names[at]
  <2>1. at \in DOMAIN checker'.names
    BY <1>1 DEF Copied
  <2>2. Begins(at[1])
    BY DEF OrderInv, WrittenOK
  <2>3. at[1] # f
    BY <1>1, <2>2 DEF Begins
  <2>4. at # <<f, at[2], at[3]>>
    <3> SUFFICES ASSUME at = <<f, at[2], at[3]>> PROVE at[1] = f
      BY <2>3
    <3> QED
      OBVIOUS
  <2> QED
    BY <1>1, <2>1, <2>4 DEF Copied
<1> QED
  BY <1>1, <1>3, <1>4, KeepsIf DEF Keeps, NoneDone

\* A declaration that is collected: nothing is done yet.
LEMMA CollectKeeps ==
  ASSUME ProgramOK(prog), TypesInv, OrderInv, CollectItem
  PROVE  Keeps /\ NoneDone
<1> DEFINE f == <<Order[turn].name, None>>
           d == Declare(checker, f, Bad)
<1>1. /\ stage = "collect" /\ turn \in DOMAIN Order /\ UNCHANGED <<prog, stage, todo, task>> /\ checker' = d
  BY DEF CollectItem
<1>2. Declares(checker, f, Bad, d) /\ Idle
  BY <1>1, CollectAwaits, DeclareOK
<1>3. f[2] = None
  OBVIOUS
<1> HIDE DEF f, d
<1>4. /\ checker'.names = checker.names /\ checker'.diags = checker.diags
      /\ DOMAIN checker'.sigs = DOMAIN checker.sigs \cup {f} /\ checker'.sigs[f] = (IF RetOf(f) = None THEN Bad ELSE RetOf(f))
      /\ \A g \in DOMAIN checker.sigs : g # f => checker'.sigs[g] = checker.sigs[g]
      /\ checker.structKeys \subseteq checker'.structKeys
  BY <1>1, <1>2 DEF Declares
<1>5. ASSUME NEW g PROVE ~Done(g) /\ ~Done(g)'
  BY <1>1, <1>3, <1>4 DEF OrderInv, SigOK, Done, InTurn
<1>6. ASSUME NEW g \in DOMAIN checker.sigs, RetOf(g) # None PROVE checker'.sigs[g] = checker.sigs[g]
  BY <1>4, <1>6 DEF OrderInv, SigOK
<1> QED
  BY <1>1, <1>4, <1>5, <1>6, KeepsIf DEF Keeps, NoneDone

\* The check of a declaration that begins.
LEMMA CheckKeeps ==
  ASSUME ProgramOK(prog), TypesInv, OrderInv, CheckItem
  PROVE  Keeps /\ NoneDone
<1> DEFINE f == <<Order[turn].name, None>>
<1>1. /\ stage = "items" /\ Idle /\ turn \in DOMAIN Order /\ task' = Begin(f) /\ turn' = turn + 1
      /\ UNCHANGED <<prog, stage, checker, todo>> /\ turn \in Nat
  BY Declarations DEF CheckItem
<1>2. f[1] = Order[turn].name /\ f[2] = None /\ f = <<f[1], f[2]>>
  OBVIOUS
<1> HIDE DEF f
<1>3. task'.fn = f
  BY <1>1, BeginIs
<1>4. Position(f[1]) = turn
  BY <1>1, <1>2, ItemIs
<1>5. ASSUME NEW g \in DOMAIN checker.sigs PROVE Done(g)' <=> Done(g)
  <2>1. SigOK(g) /\ Fn(g) /\ g # task.fn /\ stage = "items"
    BY <1>1, IdleIs DEF OrderInv, TypesInv, CheckerOK, SigsOK
  <2>2. g[2] = None
    BY <2>1 DEF SigOK
  <2>3. Position(g[1]) \in Nat /\ Order[Position(g[1])].name = g[1]
    BY <2>1, PositionIs DEF Fn
  <2>4. Position(g[1]) = turn <=> g = f
    BY <1>2, <1>4, <2>1, <2>2, <2>3 DEF Fn
  <2>5. Position(g[1])' = Position(g[1])
    BY <1>1, SameProgram
  <2>6. Done(g) <=> Position(g[1]) < turn
    BY <2>1, <2>2 DEF Done, InTurn
  <2>7. Done(g)' <=> (g # f /\ Position(g[1]) < turn + 1)
    BY <1>1, <1>3, <2>1, <2>2, <2>5 DEF Done, InTurn
  <2> QED
    BY <1>1, <2>3, <2>4, <2>6, <2>7
<1>6. \A g : Done(g)' <=> Done(g)
  <2>1. \A g : Done(g) \/ Done(g)' => g \in DOMAIN checker.sigs
    BY <1>1 DEF Done
  <2> QED
    BY <1>5, <2>1
<1> QED
  BY <1>1, <1>6, KeepsIf DEF Keeps, NoneDone

\* The next stage, or the next expression.
LEMMA StageKeeps ==
  ASSUME ProgramOK(prog), TypesInv, OrderInv, NextStage \/ NextQueue
  PROVE  Keeps /\ NoneDone
<1>1. UNCHANGED <<prog, checker, task>> /\ Idle /\ turn \in Nat \ {0}
  BY DEF NextStage, NextQueue, TypesInv, StageOK
<1>2. \/ stage = "collect" /\ stage' = "items" /\ turn' = 1
      \/ stage = "items" /\ stage' = "structs" /\ turn \notin DOMAIN Order
      \/ stage \in {"structs", "funcs"} /\ stage' \in {"structs", "funcs", "over"}
  BY DEF NextStage, NextQueue
<1>3. ASSUME NEW g \in DOMAIN checker.sigs PROVE Done(g)' <=> Done(g)
  <2>1. SigOK(g) /\ Fn(g) /\ g # task.fn
    BY <1>1, IdleIs DEF OrderInv, TypesInv, CheckerOK, SigsOK
  <2>2. Position(g[1]) \in Nat /\ Position(g[1]) >= 1 /\ (\A i \in Nat \ {0} : i \notin DOMAIN Order => Position(g[1]) < i)
    BY <2>1, PositionIs DEF Fn
  <2>3. Position(g[1])' = Position(g[1])
    BY <1>1, SameProgram
  <2>4. CASE g[2] = None
    BY <1>1, <1>2, <2>1, <2>2, <2>3, <2>4 DEF Done, InTurn
  <2>5. CASE g[2] # None
    BY <1>1, <1>2, <2>1, <2>5 DEF Done
  <2> QED
    BY <2>4, <2>5
<1>4. \A g : Done(g)' <=> Done(g)
  <2>1. \A g : Done(g) \/ Done(g)' => g \in DOMAIN checker.sigs
    BY <1>1 DEF Done
  <2> QED
    BY <1>3, <2>1
<1> QED
  BY <1>1, <1>4, KeepsIf DEF Keeps, NoneDone

\* What leaves the function that is checked, the names and the signatures.
LEMMA QuietKeeps ==
  ASSUME UNCHANGED <<prog, stage, turn>>, task'.fn = task.fn, checker'.names = checker.names, checker'.sigs = checker.sigs,
         checker'.diags = checker.diags, checker'.structKeys = checker.structKeys
  PROVE  Keeps /\ NoneDone
<1>1. \A g : Done(g)' <=> Done(g)
  BY SameProgram DEF InTurn, Done
<1> QED
  BY <1>1, KeepsIf DEF Keeps, NoneDone

\* The end of a body: its function is done.
LEMMA EndKeeps ==
  ASSUME ProgramOK(prog), TypesInv, OrderInv, EndBody
  PROVE  Keeps /\ \A g : Done(g)' => Done(g) \/ g = task.fn
<1> DEFINE f == task.fn
<1>1. /\ Busy /\ ~Idle /\ Idle' /\ task' = NoTask /\ UNCHANGED <<prog, stage, turn, todo>> /\ checker'.names = checker.names
      /\ DOMAIN checker'.sigs = DOMAIN checker.sigs /\ checker'.structKeys = checker.structKeys
      /\ \A g \in DOMAIN checker.sigs : g # f => checker'.sigs[g] = checker.sigs[g]
      /\ RetOf(f) # None => checker'.sigs = checker.sigs
      /\ checker.diags \subseteq checker'.diags
  BY EndIs
<1>2. \A g \in DOMAIN checker.sigs : g # task'.fn
  <2>1. task'.fn = <<>>
    BY <1>1 DEF NoTask
  <2>2. \A g \in DOMAIN checker.sigs : g = <<g[1], g[2]>>
    BY <1>1 DEF Busy, CheckerOK, SigsOK, Fn
  <2> QED
    BY <2>1, <2>2
<1>3. \A g : InTurn(g)' = InTurn(g)
  BY <1>1, SameProgram DEF InTurn
<1>4. \A g : Done(g) => Done(g)'
  BY <1>1, <1>2, <1>3 DEF Done
<1>5. \A g : Done(g)' => Done(g) \/ g = f
  BY <1>1, <1>3 DEF Done
<1>6. \A g \in DOMAIN checker.sigs : RetOf(g) # None \/ Done(g) => checker'.sigs[g] = checker.sigs[g]
  BY <1>1 DEF Done
<1> QED
  BY <1>1, <1>4, <1>5, <1>6, KeepsIf DEF Keeps

\* Every step keeps, and only the end of a body makes a function done.
LEMMA StepKeeps ==
  ASSUME ProgramOK(prog), TypesInv, OrderInv, [MonoNext]_monoVars
  PROVE  Keeps /\ (EndBody \/ NoneDone)
<1>1. CASE Work
  <2>1. ~Idle /\ Busy
    BY <1>1, BusyIs DEF Work
  <2> QED
    BY <1>1, <2>1, WorkDoes, WorkKeeps
<1>2. CASE InstantiateFunc \/ InstantiateMethod
  BY <1>2, InstanceIs, InstanceKeeps
<1>3. CASE InstantiateStruct
  BY <1>3, StructIs, QuietKeeps
<1>4. CASE NextExpr
  BY <1>4, NextExprOrder, QuietKeeps
<1>5. CASE UNCHANGED monoVars
  BY <1>5, QuietKeeps DEF monoVars
<1> QED
  BY <1>1, <1>2, <1>3, <1>4, <1>5, CollectKeeps, CheckKeeps, StageKeeps, EndKeeps DEF MonoNext

----------------------------------------------------------------------------
(* The types of a body, as its operations make them.                       *)

Result(n) == checker.sigs[<<n, None>>]
TypeIn(f, t) == IsType(t) /\ (~IsGeneric(f) => t.of # "T")

\* The call at a place stands for one with t for T.
CallsWith(at, t) ==
  /\ TypeIn(at[1], t) /\ Gives(OpAt(at), at[1], t)
  /\ Concrete(t) => at \in DOMAIN checker.names /\ checker.names[at] = <<OpAt(at).f, t>>

\* The type of the operation at a place, given that of what is inside it.
Rule(at, type, inside) ==
  LET f == at[1]
      op == OpAt(at)
  IN  /\ TypeIn(f, type) /\ Asked(checker, type)
      /\ op.op = "lit" => type = Ty(0, "A")
      /\ op.op = "arg" => type = ParamOf(f)
      /\ op.op \in {"call", "method"} => Settled(<<op.f, None>>)
      /\ op.op = "call" =>
           IF Item(op.f).generic
           THEN \E t : CallsWith(at, t) /\ inside = Subst(Item(op.f).param, t) /\ type = Subst(Result(op.f), t)
           ELSE inside = Item(op.f).param /\ type = Result(op.f)
      /\ op.op = "new" => type = Whole(inside) /\ (Concrete(type) => at \in DOMAIN checker.names /\ checker.names[at] = type)
      /\ op.op = "value" => inside.n # 0 /\ type = Inner(inside)
      /\ op.op = "method" => inside.n # 0 /\ type = Subst(Result(op.f), Inner(inside))

\* Types for the operations of an expression from one of them on; it has the type t.
Typing(f, j, from, ty) == \A k \in DOMAIN Body(f)[j] : k >= from => Rule(<<f, j, k>>, ty[k], ty[k + 1])
Typed(f, j, from, t) == \E ty : Typing(f, j, from, ty) /\ ty[from] = t

\* A body that has been checked has types, and what is returned is of the type that is declared; an
\* instance returns what its template does, for its T.
WholeOK(f) == \A j \in DOMAIN Body(f) : \E t : Typed(f, j, 1, t) /\ (j = Len(Body(f)) /\ RetOf(f) # Unit => t = checker.sigs[f])
InstanceOK(f) == f[2] # None /\ RetOf(f) = None => checker.sigs[f] = Subst(Result(f[1]), f[2])
SoFarOK ==
  /\ \A j \in DOMAIN Body(task.fn) : j < task.stmt => \E t : Typed(task.fn, j, 1, t)
  /\ task.type # None => Typed(task.fn, task.stmt, Len(task.calls) + 1, task.type)
TypedInv ==
  checker.diags = {} /\ InferredFirst =>
    /\ \A f \in DOMAIN checker.sigs : Done(f) => WholeOK(f) /\ InstanceOK(f)
    /\ ~Idle => SoFarOK

\* The type of an operation is still that after a step.
LEMMA RuleKeeps ==
  ASSUME Keeps, NEW at, NEW type, NEW inside, Rule(at, type, inside)
  PROVE  Rule(at, type, inside)'
<1> DEFINE f == at[1]
           op == OpAt(at)
<1>1. prog' = prog
  BY DEF Keeps
<1>2. TypeIn(f, type)' /\ op' = op
  BY <1>1, SameProgram DEF Rule, TypeIn
<1>3. Asked(checker', type)
  BY DEF Rule, Asked, Keeps
<1>4. op.op \in {"call", "method"} => Settled(<<op.f, None>>)' /\ Result(op.f)' = Result(op.f)
  BY <1>2 DEF Rule, Keeps, Result
<1>5. \A t : CallsWith(at, t) => CallsWith(at, t)'
  BY <1>1, SameProgram, GivesStays DEF CallsWith, TypeIn, Keeps
<1>6. op.op = "new" => (Concrete(type) => at \in DOMAIN checker'.names /\ checker'.names[at] = type)
  BY DEF Rule, Keeps
<1> QED
  BY <1>1, <1>2, <1>3, <1>4, <1>5, <1>6, SameProgram DEF Rule

\* So are the types of an expression.
LEMMA TypedKeeps ==
  ASSUME Keeps, NEW f, NEW j, NEW from, NEW t, Typed(f, j, from, t)
  PROVE  Typed(f, j, from, t)'
<1>1. PICK ty : Typing(f, j, from, ty) /\ ty[from] = t
  BY DEF Typed
<1>2. Body(f)' = Body(f)
  BY SameProgram DEF Keeps
<1>3. Typing(f, j, from, ty)'
  <2> SUFFICES ASSUME NEW k \in DOMAIN Body(f)[j], k >= from PROVE Rule(<<f, j, k>>, ty[k], ty[k + 1])'
    BY <1>2 DEF Typing
  <2>1. Rule(<<f, j, k>>, ty[k], ty[k + 1])
    BY <1>1 DEF Typing
  <2> QED
    BY <2>1, RuleKeeps
<1> QED
  BY <1>1, <1>3 DEF Typed

\* The template of an instance has been checked before.
LEMMA TemplateDone ==
  ASSUME ProgramOK(prog), TypesInv, OrderInv, NEW f \in DOMAIN checker.sigs, f[2] # None
  PROVE  Done(<<f[1], None>>)
<1>1. Fn(f) /\ stage \notin {"collect", "items"}
  BY DEF TypesInv, CheckerOK, SigsOK, OrderInv, SigOK
<1>2. PICK i \in DOMAIN Order : Order[i].name = f[1]
  BY <1>1 DEF Fn, IsName
<1>3. <<f[1], None>> \in DOMAIN checker.sigs
  BY <1>1, <1>2 DEF TypesInv, StageOK, Written
<1>4. <<f[1], None>> # task.fn
  <2>1. CASE Idle
    BY <2>1, <1>3, IdleIs DEF TypesInv, CheckerOK, SigsOK
  <2>2. CASE ~Idle
    BY <1>1, <2>2 DEF OrderInv, CurrentOK
  <2> QED
    BY <2>1, <2>2
<1> QED
  BY <1>1, <1>3, <1>4 DEF Done, InTurn

\* What has been checked stays checked.
LEMMA DoneKeeps ==
  ASSUME ProgramOK(prog), TypesInv, OrderInv, Keeps, NEW f \in DOMAIN checker.sigs, Done(f), WholeOK(f), InstanceOK(f)
  PROVE  WholeOK(f)' /\ InstanceOK(f)'
<1>1. checker'.sigs[f] = checker.sigs[f]
  BY DEF Keeps, Settled
<1>2. Body(f)' = Body(f) /\ RetOf(f)' = RetOf(f)
  BY SameProgram DEF Keeps
<1>3. WholeOK(f)'
  <2> SUFFICES ASSUME NEW j \in DOMAIN Body(f)
               PROVE  \E t : Typed(f, j, 1, t)' /\ (j = Len(Body(f)) /\ RetOf(f) # Unit => t = checker'.sigs[f])
    BY <1>2 DEF WholeOK
  <2>1. PICK t : Typed(f, j, 1, t) /\ (j = Len(Body(f)) /\ RetOf(f) # Unit => t = checker.sigs[f])
    BY DEF WholeOK
  <2> QED
    BY <1>1, <2>1, TypedKeeps
<1>4. InstanceOK(f)'
  <2> SUFFICES ASSUME f[2] # None, RetOf(f) = None PROVE checker'.sigs[f] = Subst(Result(f[1])', f[2])
    BY <1>2 DEF InstanceOK
  <2>1. Done(<<f[1], None>>) /\ <<f[1], None>> \in DOMAIN checker.sigs
    BY TemplateDone DEF Done
  <2>2. Result(f[1])' = Result(f[1])
    BY <2>1 DEF Keeps, Settled, Result
  <2> QED
    BY <1>1, <2>2 DEF InstanceOK
<1> QED
  BY <1>3, <1>4

\* What a declared function returns is known when it is called.
LEMMA SettledCallee ==
  ASSUME ProgramOK(prog), TypesInv, OrderInv, InferredFirst, ~Idle, NEW k \in DOMAIN Expr, Expr[k].op \in {"call", "method"}
  PROVE  /\ Settled(<<Expr[k].f, None>>)
         /\ \A f \in DOMAIN checker.sigs : f[1] = Expr[k].f => Settled(f)
<1> DEFINE n == Expr[k].f
           m == task.fn[1]
<1>1. Busy
  BY BusyIs
<1>2. Fn(task.fn) /\ IsName(n) /\ IsName(m) /\ task.stmt \in DOMAIN Item(m).body /\ Expr = Item(m).body[task.stmt]
  BY <1>1, Here, OpHere DEF Expr, Body, Fn
<1>3. /\ Position(m) \in DOMAIN Order /\ Order[Position(m)] = Item(m) /\ Position(m) \in Nat /\ Position(n) \in Nat
  BY <1>2, NameIs, PositionIs
<1>4. n \in CalledIn(Item(m))
  <2>1. Expr \in Exprs(Item(m))
    BY <1>2 DEF Exprs
  <2>2. k \in {i \in DOMAIN Expr : Expr[i].op \in {"call", "method"}}
    OBVIOUS
  <2> QED
    BY <2>1, <2>2 DEF CalledIn
<1>5. Item(n).ret = None => Position(n) < Position(m)
  BY <1>3, <1>4 DEF InferredFirst
<1>6. <<n, None>> \in DOMAIN checker.sigs
  <2>1. PICK i \in DOMAIN Order : Order[i].name = n
    BY <1>2 DEF IsName
  <2> QED
    BY <1>1, <2>1 DEF Busy, StageOK, Written
<1> HIDE DEF n, m
<1>7. ASSUME NEW f \in DOMAIN checker.sigs, f[1] = n PROVE Settled(f)
  <2>1. Fn(f) /\ SigOK(f)
    BY DEF TypesInv, CheckerOK, SigsOK, OrderInv
  <2>2. CASE RetOf(f) # None
    BY <2>2 DEF Settled
  <2>3. CASE RetOf(f) = None
    <3>1. Position(n) < Position(m)
      BY <1>5, <1>7, <2>1, <2>3, SignatureIs
    <3>2. f # task.fn
      BY <1>3, <1>7, <3>1 DEF m
    <3>3. CurrentOK
      BY DEF OrderInv
    <3>4. f[2] = None => InTurn(f)
      <4>1. stage = "items" => Position(m) < turn /\ turn \in Nat
        BY <1>1, <3>3 DEF CurrentOK, m, Busy, StageOK
      <4> QED
        BY <1>3, <1>7, <3>1, <3>3, <4>1 DEF InTurn, CurrentOK
    <3> QED
      BY <3>2, <3>4 DEF Settled, Done
  <2> QED
    BY <2>2, <2>3
<1> QED
  BY <1>6, <1>7 DEF n

\* What is settled is a type.
LEMMA SettledType ==
  ASSUME ProgramOK(prog), TypesInv, OrderInv, NEW f, Settled(f)
  PROVE  /\ IsType(checker.sigs[f]) /\ Fn(f) /\ f \in DOMAIN checker.sigs
         /\ (~IsGeneric(f) => checker.sigs[f].of # "T") /\ Asked(checker, checker.sigs[f])
<1>1. f \in DOMAIN checker.sigs /\ (RetOf(f) # None \/ Done(f))
  BY DEF Settled
<1>2. Fn(f) /\ SigOK(f) /\ ResultIn(f, checker.sigs[f]) /\ Asked(checker, checker.sigs[f])
  BY <1>1 DEF TypesInv, CheckerOK, SigsOK, OrderInv
<1>3. IsType(checker.sigs[f])
  BY <1>1, <1>2, SignatureIs DEF SigOK
<1> QED
  BY <1>1, <1>2, <1>3 DEF ResultIn

\* An instance returns what its template returns for its T.
LEMMA InstanceReturns ==
  ASSUME ProgramOK(prog), TypesInv, OrderInv, NEW f, Settled(f), f[2] # None, Done(f) => InstanceOK(f)
  PROVE  checker.sigs[f] = Subst(Result(f[1]), f[2])
<1>1. f \in DOMAIN checker.sigs /\ Fn(f) /\ SigOK(f)
  BY SettledType DEF OrderInv
<1>2. CASE RetOf(f) = None
  BY <1>2 DEF InstanceOK, Settled
<1>3. CASE RetOf(f) # None
  <2> DEFINE g == <<f[1], None>>
  <2>1. Done(g)
    BY <1>1, TemplateDone
  <2>2. g \in DOMAIN checker.sigs /\ SigOK(g) /\ g[1] = f[1] /\ g[2] = None
    BY <2>1 DEF Done, OrderInv
  <2>3. RetOf(g) = Item(f[1]).ret /\ RetOf(f) = Subst(Item(f[1]).ret, f[2])
    BY <2>2 DEF RetOf, InFunction
  <2>4. Item(f[1]).ret # None
    BY <1>1, <1>3, SignatureIs
  <2>5. checker.sigs[g] = Item(f[1]).ret /\ checker.sigs[f] = RetOf(f)
    BY <1>1, <1>3, <2>2, <2>3, <2>4 DEF SigOK
  <2> QED
    BY <2>3, <2>5 DEF Result
<1> QED
  BY <1>2, <1>3

\* Types of one function are types of T as well.
LEMMA SubstTwice ==
  ASSUME NEW a, IsType(a), NEW t, IsType(t), NEW u, IsType(u)
  PROVE  Subst(a, Subst(t, u)) = Subst(Subst(a, t), u)
<1>1. a.n \in Nat /\ t.n \in Nat /\ u.n \in Nat
  BY TypeIs
<1>2. CASE a.of # "T"
  BY <1>2 DEF Subst
<1>3. CASE a.of = "T" /\ t.of = "T"
  <2>1. Subst(t, u) = Ty(t.n + u.n, u.of) /\ Subst(a, t) = Ty(a.n + t.n, t.of)
    BY <1>3 DEF Subst
  <2>2. Subst(a, Subst(t, u)) = Ty(a.n + (t.n + u.n), u.of)
    BY <1>3, <2>1, TyIs DEF Subst
  <2>3. Subst(Subst(a, t), u) = Ty((a.n + t.n) + u.n, u.of)
    BY <1>3, <2>1, TyIs DEF Subst
  <2> QED
    BY <1>1, <2>2, <2>3
<1>4. CASE a.of = "T" /\ t.of # "T"
  <2>1. Subst(t, u) = t /\ Subst(a, t) = Ty(a.n + t.n, t.of)
    BY <1>4 DEF Subst
  <2>2. Subst(Subst(a, t), u) = Ty(a.n + t.n, t.of)
    BY <1>4, <2>1, TyIs DEF Subst
  <2> QED
    BY <2>1, <2>2
<1> QED
  BY <1>2, <1>3, <1>4

\* It is told apart what T stands for.
LEMMA SubstInjective ==
  ASSUME NEW a, IsType(a), a.of = "T", NEW t, IsType(t), NEW u, IsType(u), Subst(a, t) = Subst(a, u)
  PROVE  t = u
<1>1. a.n \in Nat /\ t.n \in Nat /\ u.n \in Nat /\ t = Ty(t.n, t.of) /\ u = Ty(u.n, u.of)
  BY TypeIs
<1>2. Ty(a.n + t.n, t.of) = Ty(a.n + u.n, u.of)
  BY DEF Subst
<1>3. a.n + t.n = a.n + u.n /\ t.of = u.of
  BY <1>2, TyIs
<1>4. t.n = u.n
  BY <1>1, <1>3
<1> QED
  BY <1>1, <1>3, <1>4

\* The type of an operation, with the names as they are after the step.
RuleNext(k, t, inside) ==
  LET op == Expr[k]
  IN  /\ TypeIn(task.fn, t) /\ Asked(checker', t)
      /\ op.op = "lit" => t = Ty(0, "A")
      /\ op.op = "arg" => t = ParamOf(task.fn)
      /\ op.op \in {"call", "method"} => Settled(<<op.f, None>>)
      /\ op.op = "call" =>
           IF Item(op.f).generic
           THEN \E u : /\ TypeIn(task.fn, u) /\ Gives(op, task.fn, u) /\ (Concrete(u) => NamedNext(k, <<op.f, u>>))
                       /\ inside = Subst(Item(op.f).param, u) /\ t = Subst(Result(op.f), u)
           ELSE inside = Item(op.f).param /\ t = Result(op.f)
      /\ op.op = "new" => t = Whole(inside) /\ (Concrete(t) => NamedNext(k, t))
      /\ op.op = "value" => inside.n # 0 /\ t = Inner(inside)
      /\ op.op = "method" => inside.n # 0 /\ t = Subst(Result(op.f), Inner(inside))

\* That is what is asked of the place in the next state.
LEMMA RuleAfter ==
  ASSUME Busy, NEW k \in DOMAIN Expr, Keeps, NEW t, NEW inside, RuleNext(k, t, inside), NEW at, at = Place(k)
  PROVE  Rule(at, t, inside)'
<1> DEFINE f == at[1]
           op == OpAt(at)
<1>1. prog' = prog /\ op = Expr[k] /\ f = task.fn
  BY Here DEF Keeps, Place
<1>2. TypeIn(f, t)' /\ OpAt(at)' = op
  <2>1. TypeIn(f, t)
    BY <1>1 DEF RuleNext
  <2>2. IsGeneric(f)' = IsGeneric(f)
    BY <1>1, SameProgram
  <2>3. OpAt(at)' = op
    BY <1>1, SameProgram
  <2> QED
    BY <2>1, <2>2, <2>3 DEF TypeIn
<1>3. Asked(checker', t)
  BY DEF RuleNext
<1>4. op.op \in {"call", "method"} => Settled(<<op.f, None>>)' /\ Result(op.f)' = Result(op.f)
  BY <1>1, <1>2 DEF RuleNext, Keeps, Result
<1>5. ASSUME NEW u, TypeIn(task.fn, u), Gives(op, task.fn, u), Concrete(u) => NamedNext(k, <<op.f, u>>)
      PROVE  CallsWith(at, u)'
  BY <1>1, <1>2, <1>5, SameProgram, GivesStays DEF CallsWith, TypeIn, NamedNext
<1>6. op.op = "new" => (Concrete(t) => at \in DOMAIN checker'.names /\ checker'.names[at] = t)
  BY <1>1 DEF RuleNext, NamedNext
<1>7. op.op = "call" =>
           IF Item(op.f).generic
           THEN \E u : CallsWith(at, u)' /\ inside = Subst(Item(op.f).param, u) /\ t = Subst(Result(op.f)', u)
           ELSE inside = Item(op.f).param /\ t = Result(op.f)'
  BY <1>1, <1>4, <1>5 DEF RuleNext
<1>8. /\ op.op = "lit" => t = Ty(0, "A")
      /\ op.op = "arg" => t = ParamOf(f)
      /\ op.op = "new" => t = Whole(inside)
      /\ op.op = "value" => inside.n # 0 /\ t = Inner(inside)
      /\ op.op = "method" => inside.n # 0 /\ t = Subst(Result(op.f)', Inner(inside))
  BY <1>1, <1>4 DEF RuleNext
<1> QED
  BY <1>1, <1>2, <1>3, <1>4, <1>6, <1>7, <1>8, SameProgram DEF Rule

\* What is found to be no clash.
LEMMA NoClash == ASSUME NEW t, IsType(t), NEW u, IsType(u), ~Clash(t, u) PROVE t = u
BY TypeIs DEF Clash, Known

\* What is known where an operation ends without a report.
Leaving(k, t) ==
  /\ ProgramOK(prog) /\ TypesInv /\ OrderInv /\ InferredFirst /\ ~Idle /\ Busy
  /\ k \in DOMAIN Expr /\ k \in DOMAIN task.calls /\ CallOK(k) /\ GivenOK(k)
  /\ Derives(k, t) /\ IsType(task.type) /\ (IsType(t) => TypeIn(task.fn, t)) /\ Asked(checker', t)
  /\ Expr[k].op \in {"call", "new", "value", "method"}
  /\ \A at \in DOMAIN checker.names : at \in DOMAIN checker'.names /\ checker'.names[at] = checker.names[at]
  /\ \A f \in DOMAIN checker.sigs : Done(f) => InstanceOK(f)

\* The end of a call of a function that is not generic, or of an instance.
LEMMA PlainNext ==
  ASSUME NEW k, NEW t, Leaving(k, t), Expr[k].op = "call", ~Generic(k)
  PROVE  RuleNext(k, t, task.type)
<1> DEFINE op == Expr[k]
           n == op.f
<1>1. ~Clash(task.type, ParamOf(Callee(k))) /\ t = checker.sigs[Callee(k)]
  BY DEF Leaving, Derives
<1>2. Settled(<<n, None>>) /\ \A f \in DOMAIN checker.sigs : f[1] = n => Settled(f)
  BY SettledCallee DEF Leaving
<1>3. Callee(k) \in DOMAIN checker.sigs
  BY DEF Leaving, CallOK
<1>4. Callee(k)[1] = n
  <2>1. CASE Named(k)
    <3>1. Fits(checker, Place(k), checker.names[Place(k)]) /\ OpAt(Place(k)) = op
      BY <2>1, PlaceNames, Here DEF Leaving, Named
    <3> QED
      BY <2>1, <3>1 DEF Fits, Callee
  <2>2. CASE ~Named(k)
    BY <2>2 DEF Callee
  <2> QED
    BY <2>1, <2>2
<1>5. Settled(Callee(k)) /\ IsType(t) /\ Fn(Callee(k))
  BY <1>1, <1>2, <1>3, <1>4, SettledType DEF Leaving
<1>6. task.type = ParamOf(Callee(k))
  BY <1>1, <1>5, SignatureIs, NoClash DEF Leaving
<1>7. CASE Named(k)
  <2> DEFINE u == checker.names[Place(k)][2]
  <2>1. /\ Place(k) \in DOMAIN checker.names /\ OpAt(Place(k)) = op /\ Place(k)[1] = task.fn
        /\ Callee(k) = checker.names[Place(k)]
    BY <1>7, Here DEF Leaving, Named, Place, Callee
  <2>2. /\ checker.names[Place(k)] = <<n, u>> /\ Item(n).generic /\ IsArg(u) /\ WrittenOK(Place(k))
    BY <2>1, PlaceNames DEF Leaving, Fits, OrderInv
  <2>3. Gives(op, task.fn, u) /\ TypeIn(task.fn, u) /\ Callee(k)[2] = u
    BY <2>1, <2>2 DEF WrittenOK, TypeIn, IsArg
  <2> HIDE DEF u
  <2>4. u # None
    BY <2>2, NoType DEF IsArg
  <2>5. task.type = Subst(Item(n).param, u)
    BY <1>4, <1>6, <2>3, <2>4 DEF ParamOf, InFunction
  <2>6. t = Subst(Result(n), u)
    BY <1>1, <1>4, <1>5, <2>3, <2>4, InstanceReturns DEF Leaving, Settled
  <2>7. NamedNext(k, <<n, u>>)
    BY <2>1, <2>2 DEF Leaving, NamedNext
  <2> QED
    BY <1>2, <1>5, <2>2, <2>3, <2>5, <2>6, <2>7 DEF Leaving, RuleNext
<1>8. CASE ~Named(k)
  <2>1. Callee(k) = <<n, None>>
    BY <1>8 DEF Callee
  <2>2. ~Item(n).generic /\ task.type = Item(n).param /\ t = Result(n)
    BY <1>1, <1>6, <2>1 DEF Generic, IsGeneric, ParamOf, InFunction, Result, Leaving, Busy, ProgramOK
  <2> QED
    BY <1>2, <1>5, <2>2 DEF Leaving, RuleNext
<1> QED
  BY <1>7, <1>8

\* The end of a call of a generic function.
LEMMA GenericNext ==
  ASSUME NEW k, NEW t, Leaving(k, t), Expr[k].op = "call", Generic(k)
  PROVE  RuleNext(k, t, task.type)
<1> DEFINE op == Expr[k]
           n == op.f
           u == task.calls[k]
<1>1. /\ u # None /\ ~Clash(task.type, Subst(ParamOf(Callee(k)), u)) /\ t = Subst(checker.sigs[Callee(k)], u)
      /\ Concrete(u) => NamedNext(k, <<n, u>>)
  BY DEF Leaving, Derives
<1>2. Settled(<<n, None>>)
  BY SettledCallee DEF Leaving
<1>3. Callee(k) = <<n, None>> /\ Item(n).generic
  BY CalleeIs DEF Leaving
<1>4. ParamOf(Callee(k)) = Item(n).param /\ checker.sigs[Callee(k)] = Result(n) /\ IsType(Result(n)) /\ IsType(Item(n).param)
  BY <1>2, <1>3, SettledType, SignatureIs DEF ParamOf, InFunction, Result, Leaving
<1>5. TypeIn(task.fn, u) /\ Gives(op, task.fn, u)
  BY <1>1 DEF Leaving, CallOK, TypeIn, GivenOK
<1> HIDE DEF u
<1>6. IsType(u)
  BY <1>5 DEF TypeIn
<1>7. task.type = Subst(Item(n).param, u) /\ IsType(t)
  BY <1>1, <1>4, <1>6, SubstType, NoClash DEF Leaving
<1> QED
  BY <1>1, <1>2, <1>3, <1>4, <1>5, <1>7 DEF Leaving, RuleNext

\* The end of a struct literal.
LEMMA NewNext ==
  ASSUME NEW k, NEW t, Leaving(k, t), Expr[k].op = "new"
  PROVE  RuleNext(k, t, task.type)
<1> SUFFICES IsType(t) /\ t = Whole(task.type) /\ (Concrete(t) => NamedNext(k, t))
  BY DEF Leaving, RuleNext
<1>1. CASE Named(k)
  <2>1. Place(k) \in DOMAIN checker.names /\ OpAt(Place(k)) = Expr[k] /\ t = checker.names[Place(k)] /\ ~Clash(task.type, Inner(t))
    BY <1>1, Here DEF Leaving, Derives, Named
  <2>2. Struct(t)
    BY <2>1, PlaceNames DEF Leaving, Fits
  <2>3. IsType(t) /\ t.n - 1 \in Nat /\ t.n = (t.n - 1) + 1
    BY <2>2, TypeIs DEF Struct, IsArg
  <2>4. IsType(Inner(t)) /\ Whole(Inner(t)) = t
    BY <2>3, TypeIs, TypeOf, TyIs DEF Inner, Whole
  <2>5. task.type = Inner(t)
    BY <2>1, <2>4, NoClash DEF Leaving
  <2>6. NamedNext(k, t)
    BY <2>1 DEF Leaving, NamedNext
  <2> QED
    BY <2>3, <2>4, <2>5, <2>6
<1>2. CASE ~Named(k)
  <2> DEFINE u == task.calls[k]
  <2>1. u # None /\ ~Clash(task.type, u) /\ t = Whole(u) /\ (Concrete(u) => NamedNext(k, t))
    BY <1>2 DEF Leaving, Derives
  <2>2. IsType(u)
    BY <2>1 DEF Leaving, CallOK
  <2> HIDE DEF u
  <2>3. u = task.type
    BY <2>1, <2>2, NoClash DEF Leaving
  <2>4. IsType(t) /\ t.of = u.of
    <3>1. u.n + 1 \in Nat /\ u.of # "none" /\ u.of # "?"
      BY <2>2, TypeIs
    <3>2. IsType(Whole(u)) /\ Whole(u).of = u.of
      BY <3>1, TypeOf, TyIs DEF Whole
    <3> QED
      BY <2>1, <3>2
  <2>5. Concrete(t) => NamedNext(k, t)
    BY <2>1, <2>4 DEF Concrete
  <2> QED
    BY <2>1, <2>3, <2>4, <2>5
<1> QED
  BY <1>1, <1>2

\* The end of an access to a member.
LEMMA MemberNext ==
  ASSUME NEW k, NEW t, Leaving(k, t), Expr[k].op \in {"value", "method"}
  PROVE  RuleNext(k, t, task.type)
<1> DEFINE n == Expr[k].f
           u == Inner(task.type)
<1>1. task.type.n # 0
  BY DEF Leaving, Derives
<1>2. IsType(u)
  <2>1. IsType(task.type)
    BY DEF Leaving
  <2>2. task.type.n - 1 \in Nat
    BY <1>1, <2>1, TypeIs
  <2> QED
    BY <2>1, <2>2, TypeIs, TypeOf DEF Inner
<1>3. CASE Expr[k].op = "value"
  BY <1>1, <1>2, <1>3 DEF Leaving, Derives, RuleNext
<1>4. CASE Expr[k].op = "method"
  <2> DEFINE own == <<n, u>>
             f == IF own \in DOMAIN checker.sigs THEN own ELSE <<n, None>>
  <2>1. t = Subst(checker.sigs[f], u)
    BY <1>4 DEF Leaving, Derives
  <2>2. Settled(<<n, None>>) /\ \A g \in DOMAIN checker.sigs : g[1] = n => Settled(g)
    BY <1>4, SettledCallee DEF Leaving
  <2>3. IsType(Result(n))
    BY <2>2, SettledType DEF Leaving, Result
  <2> HIDE DEF u
  <2>4. CASE own \in DOMAIN checker.sigs
    <3>1. Settled(own) /\ own[2] = u /\ own[1] = n
      BY <2>2, <2>4
    <3>2. u # None /\ Fn(own)
      BY <1>2, <3>1, NoType, SettledType DEF Leaving
    <3>3. u.of # "T"
      BY <3>1, <3>2 DEF Fn, IsArg
    <3>4. checker.sigs[own] = Subst(Result(n), u)
      BY <3>1, <3>2, InstanceReturns DEF Leaving, Settled
    <3>5. IsType(Subst(Result(n), u)) /\ Subst(Result(n), u).of # "T"
      BY <1>2, <2>3, <3>3, SubstType
    <3>6. Subst(Subst(Result(n), u), u) = Subst(Result(n), u)
      BY <1>2, <3>5, SubstType
    <3>7. t = Subst(Result(n), u) /\ IsType(t)
      BY <2>1, <2>4, <3>4, <3>5, <3>6
    <3> QED
      BY <1>1, <1>4, <2>2, <3>7 DEF Leaving, RuleNext, u
  <2>5. CASE own \notin DOMAIN checker.sigs
    <3>1. t = Subst(Result(n), u)
      BY <2>1, <2>5 DEF Result
    <3>2. IsType(t)
      BY <1>2, <2>3, <3>1, SubstType
    <3> QED
      BY <1>1, <1>4, <2>2, <3>1, <3>2 DEF Leaving, RuleNext, u
  <2> QED
    BY <2>4, <2>5
<1> QED
  BY <1>3, <1>4

\* The last operation of an expression.
LEMMA LastHere ==
  ASSUME Busy, NEW k \in DOMAIN Expr
  PROVE  /\ DOMAIN Expr = 1 .. Len(Expr) /\ Len(Expr) \in Nat /\ k \in Nat
         /\ Expr[k].op \in {"lit", "arg"} <=> k = Len(Expr)
         /\ Expr[k].op \notin {"lit", "arg"} => k + 1 \in DOMAIN Expr
<1>1. /\ DOMAIN Expr = 1 .. Len(Expr) /\ Len(Expr) \in Nat
      /\ Expr[k].op \in {"lit", "arg"} <=> k = Len(Expr)
  BY Here, BodyIs DEF Expr, Busy
<1> QED
  BY <1>1

\* Types for an expression from an operation on, by a type for it and types for what is behind it.
LEMMA OneMore ==
  ASSUME NEW f, NEW j, NEW k \in Nat, DOMAIN Body(f)[j] \subseteq Nat, NEW t, NEW ty,
         Keeps, \A i \in DOMAIN Body(f)[j] : i > k => Rule(<<f, j, i>>, ty[i], ty[i + 1]),
         NEW inside, Rule(<<f, j, k>>, t, inside)', k + 1 \in DOMAIN Body(f)[j] => inside = ty[k + 1],
         inside = ty[k + 1] \/ inside = t
  PROVE  Typed(f, j, k, t)'
<1> DEFINE tz == [i \in Nat |-> IF i = k THEN t ELSE IF i = k + 1 THEN inside ELSE ty[i]]
<1>1. tz[k] = t /\ tz[k + 1] = inside
  OBVIOUS
<1>2. DOMAIN Body(f)[j]' = DOMAIN Body(f)[j]
  BY SameProgram DEF Keeps
<1>3. ASSUME NEW i \in DOMAIN Body(f)[j], i >= k PROVE Rule(<<f, j, i>>, tz[i], tz[i + 1])'
  <2>1. CASE i = k
    BY <1>1, <2>1
  <2>2. CASE i > k
    <3>1. Rule(<<f, j, i>>, ty[i], ty[i + 1])'
      BY <2>2, RuleKeeps
    <3>2. i \in Nat /\ i + 1 \in Nat /\ i # k /\ i + 1 # k /\ i + 1 # k + 1
      BY <1>3, <2>2
    <3>3. i = k + 1 => inside = ty[k + 1]
      BY <1>3
    <3>4. tz[i] = ty[i] /\ tz[i + 1] = ty[i + 1]
      BY <3>2, <3>3
    <3> HIDE DEF tz
    <3> QED
      BY <3>1, <3>4
  <2> QED
    BY <1>3, <2>1, <2>2
<1> HIDE DEF tz
<1>4. Typing(f, j, k, tz)'
  BY <1>2, <1>3 DEF Typing
<1> QED
  BY <1>1, <1>4 DEF Typed

\* A step of checkExpr finds the types as the operations make them.
LEMMA WorkTyped ==
  ASSUME ProgramOK(prog), TypesInv, OrderInv, TypedInv, InferredFirst, NEW k \in DOMAIN Expr, ~Idle, Works(Place(k)), Does(k),
         checker'.diags = {}
  PROVE  SoFarOK'
<1>1. Busy /\ Keeps
  BY BusyIs, WorkKeeps
<1>2. SoFarOK /\ \A f \in DOMAIN checker.sigs : Done(f) => InstanceOK(f)
  BY <1>1 DEF TypedInv, Keeps
<1>3. PICK f, s : f = task.fn /\ s = task.stmt
  OBVIOUS
<1>4. task'.fn = f /\ task'.stmt = s /\ prog' = prog /\ Body(f)' = Body(f)
  BY <1>3, SameProgram DEF Works
<1>5. ASSUME NEW j \in DOMAIN Body(f), j < s PROVE \E t : Typed(f, j, 1, t)'
  BY <1>1, <1>2, <1>3, <1>5, TypedKeeps DEF SoFarOK
<1>6. ASSUME task'.type # None
      PROVE  /\ ResultIn(f, task'.type) /\ Asked(checker', task'.type)
             /\ IsType(task'.type) => TypeIn(f, task'.type)
  <2>1. ResultIn(task.fn, task.type)' /\ Asked(checker', task'.type)
    BY <1>6 DEF Works, BodyOK
  <2>2. ResultIn(f, task'.type)
    BY <1>4, <2>1, SameProgram DEF ResultIn
  <2> QED
    BY <2>1, <2>2 DEF ResultIn, TypeIn
<1>7. /\ <<f, s, k>> = Place(k) /\ Body(f)[s] = Expr /\ DOMAIN Body(f)[s] \subseteq Nat /\ k \in Nat
      /\ Len(task.calls) \in Nat /\ DOMAIN task.calls = 1 .. Len(task.calls)
  BY <1>1, <1>3, Here, LastHere DEF Place, Expr
<1>8. ASSUME task'.type # None, NEW t, t = task'.type, NEW from, from = Len(task'.calls) + 1
      PROVE  Typed(f, s, from, t)'
  <2>2. CASE Ends(k)
    <3>1. /\ Expr[k].op \in {"lit", "arg"} /\ k = Len(task.calls) + 1 /\ task'.calls = task.calls
          /\ t = (IF Expr[k].op = "lit" THEN Ty(0, "A") ELSE ParamOf(f))
      BY <1>3, <1>8, <2>2 DEF Ends, Yielded
    <3>2. IsType(Ty(0, "A"))
      BY TypeOf
    <3>3. IsType(t)
      BY <1>1, <1>3, <3>1, <3>2, Here, SignatureIs DEF Busy
    <3>4. RuleNext(k, t, t)
      BY <1>3, <1>6, <1>8, <3>1, <3>3 DEF RuleNext
    <3>5. Rule(<<f, s, k>>, t, t)'
      BY <1>1, <1>7, <3>4, RuleAfter
    <3>6. k + 1 \notin DOMAIN Expr /\ \A i \in DOMAIN Expr : ~(i > k)
      BY <1>1, <3>1, LastHere
    <3>7. Typed(f, s, k, t)'
      BY <1>1, <1>7, <3>5, <3>6, OneMore
    <3> QED
      BY <1>8, <3>1, <3>7
  <2>3. CASE GoesOut(k)
    <3>1. /\ Popped(k, t) /\ Expr[k].op \notin {"lit", "arg"}
          /\ Known(task.type) => Derives(k, t)
      BY <1>8, <2>3 DEF GoesOut, Popped
    <3>2. /\ task.type # None /\ k = Len(task.calls) /\ k \in DOMAIN task.calls /\ Len(task'.calls) = k - 1
      BY <3>1 DEF Popped
    <3>3. PICK ty : Typing(f, s, k + 1, ty) /\ ty[k + 1] = task.type
      BY <1>2, <1>3, <3>2 DEF SoFarOK, Typed
    <3>4. k + 1 \in DOMAIN Expr
      BY <1>1, <3>1, LastHere
    <3>5. ASSUME NEW i \in DOMAIN Expr, i > k PROVE Rule(<<f, s, i>>, ty[i], ty[i + 1])
      <4>1. i >= k + 1
        BY <1>7, <3>5
      <4> QED
        BY <1>7, <3>3, <4>1 DEF Typing
    <3>6. IsType(task.type)
      <4>1. Rule(<<f, s, k + 1>>, task.type, ty[k + 1 + 1])
        BY <1>7, <3>3, <3>4, <3>5
      <4> QED
        BY <4>1 DEF Rule, TypeIn
    <3>7. Leaving(k, t)
      <4>1. Derives(k, t)
        BY <3>1, <3>6, TypeIs DEF Known
      <4>2. CallOK(k) /\ GivenOK(k)
        BY <1>1, <3>2 DEF Busy, BodyOK, OrderInv
      <4>3. Expr[k].op \in {"call", "new", "value", "method"}
        BY <1>1, <3>1, OpHere
      <4>4. (IsType(t) => TypeIn(task.fn, t)) /\ Asked(checker', t)
        BY <1>3, <1>6, <1>8
      <4>5. \A at \in DOMAIN checker.names : at \in DOMAIN checker'.names /\ checker'.names[at] = checker.names[at]
        BY <1>1 DEF Keeps
      <4> QED
        BY <1>1, <1>2, <3>2, <3>6, <4>1, <4>2, <4>3, <4>4, <4>5 DEF Leaving
    <3>8. RuleNext(k, t, task.type)
      BY <3>7, PlainNext, GenericNext, NewNext, MemberNext DEF Leaving
    <3>9. PICK inside : inside = task.type
      OBVIOUS
    <3>10. Rule(<<f, s, k>>, t, inside)'
      BY <1>1, <1>7, <3>8, <3>9, RuleAfter
    <3>11. Typed(f, s, k, t)'
      BY <1>1, <1>7, <3>3, <3>5, <3>9, <3>10, OneMore
    <3>12. Len(task'.calls) + 1 = k
      BY <1>7, <3>2
    <3> QED
      BY <1>8, <3>11, <3>12
  <2>4. ~Misses(k)
    BY DEF Misses
  <2>5. ~GoesIn(k) /\ ~Repeats(k)
    BY <1>8 DEF GoesIn, Repeats, Pushed, Redone
  <2> QED
    BY <2>2, <2>3, <2>4, <2>5 DEF Does
<1>9. PICK t, from : t = task'.type /\ from = Len(task'.calls) + 1
  OBVIOUS
<1>10. ASSUME t # None PROVE Typed(task.fn, task.stmt, Len(task.calls) + 1, task.type)'
  BY <1>4, <1>8, <1>9, <1>10
<1>11. \A j \in DOMAIN Body(task.fn)' : j < task'.stmt => \E u : Typed(task.fn, j, 1, u)'
  BY <1>4, <1>5
<1> QED
  BY <1>9, <1>10, <1>11 DEF SoFarOK

----------------------------------------------------------------------------
(* An instance is typed as its template is.                                *)

\* Wrapping and unwrapping is the same inside and outside of the template.
LEMMA SubstWhole ==
  ASSUME NEW a, IsType(a), NEW u, IsType(u)
  PROVE  /\ Whole(Subst(a, u)) = Subst(Whole(a), u)
         /\ a.n # 0 => Inner(Subst(a, u)) = Subst(Inner(a), u) /\ IsType(Inner(a))
<1>1. a.n \in Nat /\ u.n \in Nat
  BY TypeIs
<1>2. Whole(Subst(a, u)) = Subst(Whole(a), u)
  <2>1. CASE a.of = "T"
    <3>1. Whole(Subst(a, u)) = Ty((a.n + u.n) + 1, u.of) /\ Subst(Whole(a), u) = Ty((a.n + 1) + u.n, u.of)
      BY <2>1, TyIs DEF Subst, Whole
    <3> QED
      BY <1>1, <3>1
  <2>2. CASE a.of # "T"
    BY <2>2, TyIs DEF Subst, Whole
  <2> QED
    BY <2>1, <2>2
<1>3. ASSUME a.n # 0 PROVE Inner(Subst(a, u)) = Subst(Inner(a), u) /\ IsType(Inner(a))
  <2>1. a.n - 1 \in Nat
    BY <1>1, <1>3
  <2>2. IsType(Inner(a))
    BY <2>1, TypeIs, TypeOf DEF Inner
  <2>3. CASE a.of = "T"
    <3>1. Inner(Subst(a, u)) = Ty((a.n + u.n) - 1, u.of) /\ Subst(Inner(a), u) = Ty((a.n - 1) + u.n, u.of)
      BY <2>3, TyIs DEF Subst, Inner
    <3> QED
      BY <1>1, <2>2, <3>1
  <2>4. CASE a.of # "T"
    BY <2>2, <2>4, TyIs DEF Subst, Inner
  <2> QED
    BY <2>3, <2>4
<1> QED
  BY <1>2, <1>3

\* One operation, in a template and in an instance.
Twins(a, b, u) ==
  /\ ProgramOK(prog) /\ TypesInv /\ OrderInv
  /\ OpAt(a) = OpAt(b) /\ a[1][2] = u /\ b[1][2] = None /\ a[1][1] = b[1][1] /\ IsType(u) /\ u # None

\* A call in both.
LEMMA CallTwins ==
  ASSUME NEW a, NEW b, NEW u, Twins(a, b, u), NEW y, NEW yi, Rule(a, y, yi), NEW z, NEW zi, Rule(b, z, zi),
         OpAt(a).op = "call", yi = Subst(zi, u), IsType(zi), IsName(OpAt(a).f)
  PROVE  y = Subst(z, u)
<1> DEFINE op == OpAt(a)
           n == op.f
           R == Result(n)
           P == Item(n).param
<1>1. Settled(<<n, None>>)
  BY DEF Rule
<1>2. IsType(R) /\ (~Item(n).generic => R.of # "T")
  <2>1. IsType(R) /\ (~IsGeneric(<<n, None>>) => R.of # "T")
    BY <1>1, SettledType DEF Twins, Result
  <2> QED
    BY <2>1 DEF IsGeneric
<1>3. IsType(P)
  BY NameIs DEF Twins, ItemOK
<1>4. CASE ~Item(n).generic
  <2>1. y = R /\ z = R
    BY <1>4 DEF Rule, Twins
  <2> QED
    BY <1>2, <1>4, <2>1 DEF Subst
<1>5. CASE Item(n).generic
  <2>1. PICK s : CallsWith(a, s) /\ yi = Subst(P, s) /\ y = Subst(R, s)
    BY <1>5 DEF Rule
  <2>2. PICK t : CallsWith(b, t) /\ zi = Subst(P, t) /\ z = Subst(R, t)
    BY <1>5 DEF Rule, Twins
  <2>3. IsType(s) /\ Gives(op, a[1], s) /\ IsType(t) /\ Gives(op, b[1], t)
    BY <2>1, <2>2 DEF CallsWith, TypeIn, Twins
  <2> HIDE DEF R, P
  <2>4. s = Subst(t, u)
    <3>1. CASE op.type # None
      <4>1. s = InFunction(op.type, a[1]) /\ t = InFunction(op.type, b[1])
        BY <2>3, <3>1 DEF Gives
      <4>2. a[1][2] = u /\ u # None /\ b[1][2] = None
        BY DEF Twins
      <4> QED
        BY <4>1, <4>2 DEF InFunction
    <3>2. CASE op.type = None
      <4>1. P.of = "T"
        BY <2>3, <3>2 DEF Gives, P
      <4>2. Subst(P, s) = Subst(P, Subst(t, u))
        <5>1. IsType(u)
          BY DEF Twins
        <5>2. Subst(P, Subst(t, u)) = Subst(Subst(P, t), u)
          BY <1>3, <2>3, <5>1, SubstTwice
        <5> QED
          BY <2>1, <2>2, <5>2
      <4>3. IsType(Subst(t, u))
        BY <2>3, SubstType DEF Twins
      <4> QED
        BY <1>3, <2>3, <4>1, <4>2, <4>3, SubstInjective
    <3> QED
      BY <3>1, <3>2
  <2> QED
    BY <1>2, <2>1, <2>2, <2>3, <2>4, SubstTwice DEF Twins
<1> QED
  BY <1>4, <1>5

\* Any operation in both.
LEMMA RuleTwins ==
  ASSUME NEW a, NEW b, NEW u, Twins(a, b, u), NEW y, NEW yi, Rule(a, y, yi), NEW z, NEW zi, Rule(b, z, zi),
         OpAt(a).op \notin {"lit", "arg"} => yi = Subst(zi, u) /\ IsType(zi),
         OpAt(a).op \in {"lit", "arg", "call", "new", "value", "method"},
         OpAt(a).op = "call" => IsName(OpAt(a).f)
  PROVE  y = Subst(z, u)
<1> DEFINE op == OpAt(a)
           n == op.f
<1>1. CASE op.op = "lit"
  <2>1. y = Ty(0, "A") /\ z = Ty(0, "A")
    BY <1>1 DEF Rule, Twins
  <2>2. Ty(0, "A").of = "A"
    BY TyIs
  <2> QED
    BY <2>1, <2>2 DEF Subst
<1>2. CASE op.op = "arg"
  BY <1>2 DEF Rule, Twins, ParamOf, InFunction
<1>3. CASE op.op = "call"
  BY <1>3, CallTwins
<1>4. CASE op.op = "new"
  BY <1>4, SubstWhole DEF Rule, Twins
<1>5. CASE op.op = "value"
  <2>1. zi.n # 0 /\ z = Inner(zi) /\ y = Inner(yi)
    BY <1>5 DEF Rule, Twins
  <2> QED
    BY <1>5, <2>1, SubstWhole DEF Twins
<1>6. CASE op.op = "method"
  <2>1. zi.n # 0 /\ z = Subst(Result(n), Inner(zi)) /\ y = Subst(Result(n), Inner(yi)) /\ Settled(<<n, None>>)
    BY <1>6 DEF Rule, Twins
  <2>2. IsType(Result(n))
    BY <2>1, SettledType DEF Twins, Result
  <2>3. Inner(yi) = Subst(Inner(zi), u) /\ IsType(Inner(zi)) /\ IsType(u)
    BY <1>6, <2>1, SubstWhole DEF Twins
  <2> QED
    BY <2>1, <2>2, <2>3, SubstTwice
<1> QED
  BY <1>1, <1>2, <1>3, <1>4, <1>5, <1>6

\* An expression in both.
LEMMA TypedTwins ==
  ASSUME ProgramOK(prog), TypesInv, OrderInv, NEW f, Fn(f), f[2] # None, NEW g, g = <<f[1], None>>,
         NEW j \in DOMAIN Body(f), NEW t, Typed(f, j, 1, t), NEW s, Typed(g, j, 1, s)
  PROVE  t = Subst(s, f[2])
<1> DEFINE e == Body(f)[j]
           L == Len(e)
           u == f[2]
<1>1. PICK y : Typing(f, j, 1, y) /\ y[1] = t
  BY DEF Typed
<1>2. PICK z : Typing(g, j, 1, z) /\ z[1] = s
  BY DEF Typed
<1>3. /\ L \in Nat \ {0} /\ DOMAIN e = 1 .. L /\ \A k \in DOMAIN e : e[k].op \in {"lit", "arg"} <=> k = L
  BY BodyIs
<1>4. /\ Body(g) = Body(f) /\ IsType(u) /\ u # None
  BY DEF Fn, IsArg, Body
<1>5. ASSUME NEW k \in DOMAIN e, k # L => y[k + 1] = Subst(z[k + 1], u)
      PROVE  y[k] = Subst(z[k], u)
  <2> DEFINE a == <<f, j, k>>
             b == <<g, j, k>>
  <2>1. Rule(a, y[k], y[k + 1]) /\ Rule(b, z[k], z[k + 1])
    BY <1>1, <1>2, <1>3, <1>4 DEF Typing
  <2>2. OpAt(a) = e[k] /\ OpAt(b) = e[k]
    BY <1>4 DEF OpAt
  <2>3. Twins(a, b, u)
    BY <1>4, <2>2 DEF Twins
  <2>4. k # L => IsType(z[k + 1])
    <3> SUFFICES ASSUME k # L PROVE IsType(z[k + 1])
      OBVIOUS
    <3>1. k + 1 \in DOMAIN e /\ k + 1 >= 1
      BY <1>3
    <3>2. Rule(<<g, j, k + 1>>, z[k + 1], z[k + 1 + 1])
      BY <1>2, <1>4, <3>1 DEF Typing
    <3> QED
      BY <3>2 DEF Rule, TypeIn
  <2>5. e[k].op \in {"lit", "arg", "call", "new", "value", "method"} /\ (e[k].op = "call" => IsName(e[k].f))
    BY OpIs
  <2> HIDE DEF a, b, e, u
  <2> QED
    BY <1>3, <1>5, <2>1, <2>2, <2>3, <2>4, <2>5, RuleTwins
<1> HIDE DEF e, L, u
<1> DEFINE S == {n \in Nat : n < L => y[L - n] = Subst(z[L - n], u)}
<1>6. 0 \in S
  <2>1. L \in DOMAIN e /\ L - 0 = L
    BY <1>3
  <2> QED
    BY <1>5, <2>1
<1>7. ASSUME NEW n \in Nat, n \in S PROVE n + 1 \in S
  <2> SUFFICES ASSUME n + 1 < L PROVE y[L - (n + 1)] = Subst(z[L - (n + 1)], u)
    OBVIOUS
  <2>1. n < L /\ L - (n + 1) \in DOMAIN e /\ (L - (n + 1)) + 1 = L - n
    BY <1>3
  <2>2. y[L - n] = Subst(z[L - n], u)
    BY <1>7, <2>1
  <2> QED
    BY <1>5, <2>1, <2>2
<1>8. L - 1 \in S /\ L - (L - 1) = 1 /\ L - 1 < L
  <2>1. Nat \subseteq S
    <3> HIDE DEF S
    <3> QED
      BY <1>6, <1>7, Inductive
  <2> QED
    BY <1>3, <2>1
<1> QED
  BY <1>1, <1>2, <1>8 DEF u

\* A body whose check ends has types, and its function returns the last of them.
LEMMA EndTyped ==
  ASSUME ProgramOK(prog), TypesInv, OrderInv, TypedInv, InferredFirst, EndBody, checker'.diags = {}, NEW f, f = task.fn
  PROVE  WholeOK(f)' /\ InstanceOK(f)'
<1>1. /\ Busy /\ ~Idle /\ prog' = prog /\ task.type # None /\ task.calls = <<>>
      /\ task.stmt = Len(Body(f))
      /\ RetOf(f) # None => /\ checker'.sigs = checker.sigs
                           /\ (RetOf(f) # Unit /\ Clash(task.type, RetOf(f)) => "mismatch" \in checker'.diags)
      /\ RetOf(f) = None => checker'.sigs[f] = IF Known(task.type) THEN task.type ELSE Unit
  BY EndIs
<1>2. Keeps /\ checker.diags = {}
  BY EndKeeps DEF Keeps
<1>3. SoFarOK
  BY <1>1, <1>2 DEF TypedInv
<1>4. PICK L : L = Len(Body(f))
  OBVIOUS
<1>5. PICK t : t = task.type
  OBVIOUS
<1>6. /\ Fn(f) /\ f \in DOMAIN checker.sigs /\ L \in DOMAIN Body(f) /\ L \in Nat
      /\ DOMAIN Body(f) = 1 .. L /\ 1 \in DOMAIN Body(f)[L]
  BY <1>1, <1>4, Here, BodyIs
<1>7. Typed(f, L, 1, t)
  <2>1. Len(task.calls) + 1 = 1
    BY <1>1, EmptySequence, LenProperties, EmptySeq
  <2> QED
    BY <1>1, <1>3, <1>4, <1>5, <2>1 DEF SoFarOK
<1>8. IsType(t)
  <2>1. PICK ty : Typing(f, L, 1, ty) /\ ty[1] = t
    BY <1>7 DEF Typed
  <2>2. Rule(<<f, L, 1>>, t, ty[1 + 1])
    BY <1>6, <2>1 DEF Typing
  <2> QED
    BY <2>2 DEF Rule, TypeIn
<1>9. RetOf(f) # Unit => checker'.sigs[f] = t
  <2> SUFFICES ASSUME RetOf(f) # Unit PROVE checker'.sigs[f] = t
    OBVIOUS
  <2>1. CASE RetOf(f) = None
    BY <1>1, <1>5, <1>8, <2>1, TypeIs DEF Known
  <2>2. CASE RetOf(f) # None
    <3>1. checker.sigs[f] = RetOf(f)
      BY <1>6, <2>2 DEF OrderInv, SigOK
    <3>2. IsType(RetOf(f)) /\ ~Clash(t, RetOf(f))
      BY <1>1, <1>5, <1>6, <2>2, SignatureIs
    <3> QED
      BY <1>1, <1>8, <2>2, <3>1, <3>2, NoClash
  <2> QED
    BY <2>1, <2>2
<1>10. Body(f)' = Body(f) /\ RetOf(f)' = RetOf(f)
  BY <1>1, SameProgram
<1>11. WholeOK(f)'
  <2>1. ASSUME NEW j \in DOMAIN Body(f) PROVE \E s : Typed(f, j, 1, s)' /\ (j = L /\ RetOf(f) # Unit => s = checker'.sigs[f])
    <3>1. CASE j = L
      BY <1>2, <1>7, <1>9, <3>1, TypedKeeps
    <3>2. CASE j # L
      <4>1. j < task.stmt
        BY <1>1, <1>4, <1>6, <3>2
      <4>2. PICK s : Typed(f, j, 1, s)
        BY <1>3, <4>1 DEF SoFarOK
      <4> QED
        BY <1>2, <3>2, <4>2, TypedKeeps
    <3> QED
      BY <3>1, <3>2
  <2> QED
    BY <1>4, <1>10, <2>1 DEF WholeOK
<1>12. ASSUME f[2] # None, RetOf(f) = None PROVE checker'.sigs[f] = Subst(Result(f[1])', f[2])
  <2>1. PICK g : g = <<f[1], None>>
    OBVIOUS
  <2>2. Done(g) /\ g \in DOMAIN checker.sigs
    BY <1>6, <1>12, <2>1, TemplateDone DEF Done
  <2>3. WholeOK(g) /\ Body(g) = Body(f)
    BY <1>2, <2>1, <2>2 DEF TypedInv, Body
  <2>4. RetOf(g) # Unit /\ RetOf(f) # Unit
    BY <1>12, <2>1 DEF RetOf, InFunction, Subst, Unit, None, Ty
  <2>5. PICK s : Typed(g, L, 1, s) /\ s = checker.sigs[g]
    BY <1>4, <1>6, <2>3, <2>4 DEF WholeOK
  <2>6. t = Subst(s, f[2])
    BY <1>6, <1>7, <1>12, <2>1, <2>5, TypedTwins
  <2>7. Result(f[1])' = s
    BY <1>2, <2>1, <2>2, <2>5 DEF Keeps, Settled, Result
  <2> QED
    BY <1>9, <2>4, <2>6, <2>7
<1>13. InstanceOK(f)'
  BY <1>10, <1>12 DEF InstanceOK
<1> QED
  BY <1>11, <1>13

\* A body that begins has nothing behind it.
LEMMA BeginTyped ==
  ASSUME ProgramOK(prog), prog' = prog, NEW f, Fn(f), task' = Begin(f)
  PROVE  SoFarOK'
<1>1. task'.fn = f /\ task'.stmt = 1 /\ task'.type = None
  BY BeginIs
<1>2. \A j \in DOMAIN Body(f)' : ~(j < 1)
  BY BodyIs, SameProgram
<1> QED
  BY <1>1, <1>2 DEF SoFarOK

\* What stays is typed as it was.
LEMMA SameTyped ==
  ASSUME Keeps, task' = task, SoFarOK
  PROVE  SoFarOK'
<1>1. PICK f, s, k, t : f = task.fn /\ s = task.stmt /\ k = Len(task.calls) + 1 /\ t = task.type
  OBVIOUS
<1>2. Body(f)' = Body(f)
  BY SameProgram DEF Keeps
<1>3. \A j \in DOMAIN Body(f) : j < s => \E u : Typed(f, j, 1, u)'
  BY <1>1, TypedKeeps DEF SoFarOK
<1>4. t # None => Typed(f, s, k, t)'
  BY <1>1, TypedKeeps DEF SoFarOK
<1> QED
  BY <1>1, <1>2, <1>3, <1>4 DEF SoFarOK

\* The next expression leaves one behind it.
LEMMA NextTyped ==
  ASSUME ProgramOK(prog), TypesInv, OrderInv, Keeps, NextExpr, SoFarOK
  PROVE  SoFarOK'
<1>1. PICK f, s, t : f = task.fn /\ s = task.stmt /\ t = task.type
  OBVIOUS
<1>2. /\ task'.fn = f /\ task'.stmt = s + 1 /\ task'.type = None /\ ~Idle /\ t # None /\ task.calls = <<>>
  BY <1>1, NextExprOrder DEF NextExpr, ExprDone
<1>3. Body(f)' = Body(f)
  BY SameProgram DEF Keeps
<1>4. Len(task.calls) + 1 = 1
  BY <1>2, EmptySeq
<1>5. Typed(f, s, 1, t)
  BY <1>1, <1>2, <1>4 DEF SoFarOK
<1>6. s \in Nat /\ DOMAIN Body(f) \subseteq Nat
  BY <1>1, <1>2, BusyIs, Here, BodyIs DEF Busy
<1>7. ASSUME NEW j \in DOMAIN Body(f), j < s + 1 PROVE \E u : Typed(f, j, 1, u)'
  <2>1. CASE j = s
    BY <1>5, <2>1, TypedKeeps
  <2>2. CASE j # s
    <3>1. j < s
      BY <1>6, <1>7, <2>2
    <3>2. PICK u : Typed(f, j, 1, u)
      BY <1>1, <3>1 DEF SoFarOK
    <3> QED
      BY <3>2, TypedKeeps
  <2> QED
    BY <2>1, <2>2
<1> QED
  BY <1>2, <1>3, <1>7 DEF SoFarOK

\* Whether types are inferred in order is a matter of the program.
LEMMA InferredStays == ASSUME prog' = prog PROVE InferredFirst' = InferredFirst
<1>1. \A it : CalledIn(it)' = CalledIn(it)
  BY DEF CalledIn, Exprs
<1> QED
  BY <1>1, SameProgram DEF InferredFirst

\* Every step keeps types to what is checked.
LEMMA TypedStep ==
  ASSUME ProgramOK(prog), TypesInv, OrderInv, TypedInv, [MonoNext]_monoVars
  PROVE  TypedInv'
<1> SUFFICES ASSUME checker'.diags = {}, InferredFirst'
             PROVE  /\ \A f \in DOMAIN checker'.sigs : Done(f)' => WholeOK(f)' /\ InstanceOK(f)'
                    /\ ~Idle' => SoFarOK'
  BY DEF TypedInv
<1>1. Keeps /\ (EndBody \/ NoneDone) /\ prog' = prog
  BY StepKeeps DEF Keeps
<1>2. InferredFirst /\ checker.diags = {}
  BY <1>1, InferredStays DEF Keeps
<1>3. ASSUME NEW f \in DOMAIN checker'.sigs, Done(f)' PROVE WholeOK(f)' /\ InstanceOK(f)'
  <2>1. CASE Done(f)
    <3>1. f \in DOMAIN checker.sigs /\ WholeOK(f) /\ InstanceOK(f)
      BY <1>2, <2>1 DEF Done, TypedInv
    <3> QED
      BY <1>1, <2>1, <3>1, DoneKeeps
  <2>2. CASE ~Done(f)
    <3>1. EndBody /\ f = task.fn
      BY <1>1, <1>3, <2>2, EndKeeps DEF NoneDone
    <3> QED
      BY <1>2, <3>1, EndTyped
  <2> QED
    BY <2>1, <2>2
<1>4. ASSUME ~Idle' PROVE SoFarOK'
  <2>1. ~Idle => SoFarOK
    BY <1>2 DEF TypedInv
  <2>2. CASE Work
    <3>1. ~Idle /\ Busy
      BY <2>2, BusyIs DEF Work
    <3>2. PICK k \in DOMAIN Expr : Works(Place(k)) /\ Does(k)
      BY <2>2, <3>1, WorkDoes
    <3> QED
      BY <1>2, <3>1, <3>2, WorkTyped
  <2>3. CASE NextExpr
    BY <1>1, <2>1, <2>3, NextTyped DEF NextExpr, ExprDone
  <2>4. CASE EndBody
    BY <1>4, <2>4, EndIs
  <2>5. CASE InstantiateFunc \/ InstantiateMethod
    <3>1. PICK f, u : Instance(f, u)
      BY <2>5, InstanceIs
    <3> QED
      BY <1>1, <3>1, BeginTyped DEF Instance
  <2>6. CASE CheckItem
    <3>1. PICK f : f = <<Order[turn].name, None>>
      OBVIOUS
    <3>2. turn \in DOMAIN Order /\ task' = Begin(f)
      BY <2>6, <3>1 DEF CheckItem
    <3>3. Fn(f)
      BY <3>1, <3>2 DEF Fn, IsName
    <3> QED
      BY <1>1, <3>2, <3>3, BeginTyped
  <2>7. CASE task' = task
    <3>1. ~Idle
      BY <1>4, <2>7 DEF Idle, NoTask
    <3> QED
      BY <1>1, <2>1, <2>7, <3>1, SameTyped
  <2>8. CollectItem \/ NextStage \/ NextQueue \/ InstantiateStruct \/ UNCHANGED monoVars => task' = task
    BY DEF CollectItem, NextStage, NextQueue, InstantiateStruct, monoVars
  <2> QED
    BY <2>2, <2>3, <2>4, <2>5, <2>6, <2>7, <2>8 DEF MonoNext
<1> QED
  BY <1>3, <1>4

\* At first nothing is checked.
LEMMA TypedInit == MonoInit => TypedInv
BY EmptySequence DEF MonoInit, TypedInv, Idle

----------------------------------------------------------------------------
(* What is handed on is checked again.                                     *)

\* What holds when all is checked.
Over ==
  /\ ProgramOK(prog) /\ TypesInv /\ OrderInv /\ TypedInv /\ Accepted /\ InferredFirst

\* All that has been asked for is there, and every function is done.
LEMMA OverIs ==
  ASSUME Over
  PROVE  /\ \A f \in DOMAIN checker.sigs : Done(f) /\ Settled(f) /\ WholeOK(f) /\ InstanceOK(f) /\ Fn(f)
         /\ checker.structKeys \subseteq checker.structs /\ checker.funcKeys \subseteq DOMAIN checker.sigs
         /\ \A s \in checker.structs : \A m : IsMethod(m) => <<m, Inner(s)>> \in DOMAIN checker.sigs
<1>1. stage = "over" /\ Idle /\ todo = <<>> /\ checker.diags = {}
      /\ Elements(checker.owedStructs) = {} /\ Elements(checker.owedFuncs) = {} /\ Elements(todo) = {}
  BY EmptySequence DEF Over, Accepted, TypesInv, OverOK, StageOK
<1>2. ASSUME NEW f \in DOMAIN checker.sigs PROVE Done(f) /\ Settled(f) /\ WholeOK(f) /\ InstanceOK(f) /\ Fn(f)
  <2>1. Fn(f) /\ f # task.fn
    BY <1>1, IdleIs DEF Over, TypesInv, CheckerOK, SigsOK
  <2>2. Done(f) /\ Settled(f)
    BY <1>1, <2>1 DEF Done, Settled, InTurn
  <2> QED
    BY <1>1, <2>1, <2>2 DEF Over, TypedInv
<1>3. checker.structKeys \subseteq checker.structs /\ checker.funcKeys \subseteq DOMAIN checker.sigs
  BY <1>1 DEF Over, TypesInv, CheckerOK, StructsOK, FuncsOK
<1>4. ASSUME NEW s \in checker.structs, NEW m, IsMethod(m) PROVE <<m, Inner(s)>> \in DOMAIN checker.sigs
  <2>1. m \in {prog.methods[i].name : i \in DOMAIN prog.methods}
    BY <1>4 DEF IsMethod
  <2> QED
    BY <1>1, <2>1 DEF Over, TypesInv, MethodsOK
<1> QED
  BY <1>2, <1>3, <1>4

\* A type without parameters that has been asked for exists.
LEMMA AskedIs ==
  ASSUME Over, NEW t, IsType(t), t.of # "T", t.n # 0, Asked(checker, t)
  PROVE  t \in checker.structs
<1>1. t.n \in Nat /\ t = Ty(t.n, t.of) /\ Concrete(t)
  BY TypeIs DEF Concrete
<1>2. t.n \in 1 .. t.n
  BY <1>1
<1>3. Ty(t.n, t.of) \in checker.structKeys
  BY <1>1, <1>2 DEF Asked
<1> QED
  BY <1>1, <1>3, OverIs

\* A call, checked again.
LEMMA RetypeCall ==
  ASSUME Over, NEW f \in Kept, NEW at, at[1] = f, NEW type, NEW inside, Rule(at, type, inside), OpAt(at).op = "call",
         IsName(OpAt(at).f),
         NEW callee, callee = IF at \in DOMAIN checker.names THEN checker.names[at] ELSE <<OpAt(at).f, None>>
  PROVE  callee \in Kept /\ inside = ParamOf(callee) /\ checker.sigs[callee] = type
<1> DEFINE op == OpAt(at)
           n == op.f
<1>1. ~IsGeneric(f) /\ Fn(f) /\ f \in DOMAIN checker.sigs /\ ProgramOK(prog) /\ TypesInv /\ OrderInv
  BY OverIs DEF Kept, Over
<1>2. Settled(<<n, None>>) /\ <<n, None>> \in DOMAIN checker.sigs
  BY DEF Rule, Settled
<1>3. CASE ~Item(n).generic
  <2>1. at \notin DOMAIN checker.names
    BY <1>1, <1>3, PlaceNames
  <2>2. callee = <<n, None>> /\ inside = Item(n).param /\ type = Result(n)
    BY <1>3, <2>1 DEF Rule
  <2> QED
    BY <1>2, <1>3, <2>2 DEF Kept, IsGeneric, ParamOf, InFunction, Result
<1>4. CASE Item(n).generic
  <2>1. PICK t : CallsWith(at, t) /\ inside = Subst(Item(n).param, t) /\ type = Subst(Result(n), t)
    BY <1>4 DEF Rule
  <2>2. IsType(t) /\ t.of # "T" /\ (Concrete(t) => at \in DOMAIN checker.names /\ checker.names[at] = <<n, t>>)
    BY <1>1, <2>1 DEF CallsWith, TypeIn
  <2>3. Concrete(t) /\ t # None
    BY <2>2, TypeIs DEF Concrete
  <2>4. at \in DOMAIN checker.names /\ callee = <<n, t>> /\ callee = checker.names[at] /\ callee[1] = n /\ callee[2] = t
    BY <2>2, <2>3
  <2>5. callee \in checker.funcKeys
    BY <1>1, <2>4, PlaceNames DEF Fits
  <2>6. callee \in DOMAIN checker.sigs /\ Settled(callee) /\ InstanceOK(callee)
    BY <2>5, OverIs
  <2>7. checker.sigs[callee] = Subst(Result(n), t)
    BY <1>1, <2>3, <2>4, <2>6, InstanceReturns
  <2>8. ParamOf(callee) = Subst(Item(n).param, t) /\ ~IsGeneric(callee)
    BY <2>3, <2>4 DEF ParamOf, InFunction, IsGeneric
  <2> QED
    BY <2>1, <2>6, <2>7, <2>8 DEF Kept
<1> QED
  BY <1>3, <1>4

\* Any operation, checked again.
LEMMA RetypeIs ==
  ASSUME Over, NEW f \in Kept, NEW j \in DOMAIN Body(f), NEW k \in DOMAIN Body(f)[j],
         NEW type, NEW inside, Rule(<<f, j, k>>, type, inside), NEW again,
         k # Len(Body(f)[j]) => again = inside /\ TypeIn(f, inside) /\ Asked(checker, inside)
  PROVE  Retype(f, j, k, again) = type
<1> DEFINE at == <<f, j, k>>
           op == Body(f)[j][k]
<1>1. ~IsGeneric(f) /\ Fn(f) /\ f \in DOMAIN checker.sigs /\ ProgramOK(prog) /\ TypesInv /\ OrderInv
  BY OverIs DEF Kept, Over
<1>2. /\ op.op \in {"lit", "arg", "call", "new", "value", "method"} /\ (op.op = "call" => IsName(op.f))
      /\ op.op = "method" => IsMethod(op.f)
  BY <1>1, OpIs
<1>3. OpAt(at) = op /\ at[1] = f
  BY DEF OpAt
<1>4. op.op \notin {"lit", "arg"} => again = inside /\ IsType(inside) /\ inside.of # "T" /\ Asked(checker, inside)
  BY <1>1, BodyIs DEF TypeIn
<1>5. IsType(type) /\ type.of # "T" /\ Asked(checker, type)
  BY <1>1, <1>3 DEF Rule, TypeIn
<1>6. CASE op.op = "lit"
  BY <1>3, <1>6 DEF Retype, Inner, Rule
<1>7. CASE op.op = "arg"
  BY <1>3, <1>7 DEF Retype, Inner, Rule
<1>8. CASE op.op = "call"
  <2>1. PICK callee : callee = IF at \in DOMAIN checker.names THEN checker.names[at] ELSE <<op.f, None>>
    OBVIOUS
  <2>2. callee \in Kept /\ inside = ParamOf(callee) /\ checker.sigs[callee] = type
    BY <1>2, <1>3, <1>8, <2>1, RetypeCall
  <2>3. Retype(f, j, k, again) = IF callee \in Kept /\ again = ParamOf(callee) THEN checker.sigs[callee] ELSE Bad
    BY <1>8, <2>1 DEF Retype, Inner
  <2> QED
    BY <1>4, <1>8, <2>2, <2>3
<1>9. CASE op.op = "new"
  <2>1. type = Whole(inside) /\ (Concrete(type) => at \in DOMAIN checker.names /\ checker.names[at] = type)
    BY <1>3, <1>9 DEF Rule
  <2>2. Concrete(type)
    BY <1>5, TypeIs DEF Concrete
  <2>3. inside.n \in Nat /\ inside = Ty(inside.n, inside.of)
    BY <1>4, <1>9, TypeIs
  <2>4. type.n = inside.n + 1 /\ type.of = inside.of
    BY <2>1, TyIs DEF Whole
  <2>5. Inner(type) = inside /\ type.n # 0
    <3>1. type.n - 1 = inside.n /\ type.n # 0
      BY <2>3, <2>4
    <3> QED
      BY <2>3, <2>4, <3>1 DEF Inner
  <2>6. type \in checker.structs
    BY <1>5, <2>5, AskedIs
  <2> QED
    BY <1>4, <1>9, <2>1, <2>2, <2>5, <2>6 DEF Retype, Inner
<1>10. CASE op.op = "value"
  <2>1. inside.n # 0 /\ type = Inner(inside)
    BY <1>3, <1>10 DEF Rule
  <2>2. inside \in checker.structs
    BY <1>4, <1>10, <2>1, AskedIs
  <2> QED
    BY <1>4, <1>10, <2>1, <2>2 DEF Retype, Inner
<1>11. CASE op.op = "method"
  <2>1. inside.n # 0 /\ type = Subst(Result(op.f), Inner(inside))
    BY <1>3, <1>11 DEF Rule
  <2>2. inside \in checker.structs
    BY <1>4, <1>11, <2>1, AskedIs
  <2> DEFINE g == <<op.f, Inner(inside)>>
  <2>3. g[1] = op.f /\ g[2] = Inner(inside)
    OBVIOUS
  <2>4. g \in DOMAIN checker.sigs /\ Settled(g) /\ InstanceOK(g)
    BY <1>2, <1>11, <2>2, <2>3, OverIs
  <2>5. g[2] # None
    <3>1. IsType(Inner(inside))
      BY <1>4, <1>11, <2>1, SubstWhole
    <3> QED
      BY <2>3, <3>1, NoType
  <2>6. checker.sigs[g] = type
    BY <1>1, <2>1, <2>3, <2>4, <2>5, InstanceReturns
  <2> QED
    BY <1>4, <1>11, <2>2, <2>3, <2>6 DEF Retype, Inner
<1> QED
  BY <1>2, <1>6, <1>7, <1>8, <1>9, <1>10, <1>11

\* An expression, checked again.
LEMMA AgainIs ==
  ASSUME Over, NEW f \in Kept, NEW j \in DOMAIN Body(f), NEW t, Typed(f, j, 1, t)
  PROVE  TypeAgain(f, j) = t
<1> DEFINE e == Body(f)[j]
           L == Len(e)
           Runs(h) == h = [k \in DOMAIN e |-> Retype(f, j, k, h[k + 1])]
           r == CHOOSE h : Runs(h)
<1>1. TypeAgain(f, j) = r[1]
  BY DEF TypeAgain
<1>2. PICK y : Typing(f, j, 1, y) /\ y[1] = t
  BY DEF Typed
<1>3. /\ L \in Nat \ {0} /\ DOMAIN e = 1 .. L
  BY OverIs, BodyIs DEF Kept, Over
<1>4. ASSUME NEW k \in DOMAIN e, NEW again, k # L => again = y[k + 1]
      PROVE  Retype(f, j, k, again) = y[k]
  <2>1. Rule(<<f, j, k>>, y[k], y[k + 1])
    BY <1>2, <1>3 DEF Typing
  <2>2. k # L => TypeIn(f, y[k + 1]) /\ Asked(checker, y[k + 1])
    <3> SUFFICES ASSUME k # L PROVE TypeIn(f, y[k + 1]) /\ Asked(checker, y[k + 1])
      OBVIOUS
    <3>1. k + 1 \in DOMAIN e /\ k + 1 >= 1
      BY <1>3
    <3>2. Rule(<<f, j, k + 1>>, y[k + 1], y[k + 1 + 1])
      BY <1>2, <3>1 DEF Typing
    <3> QED
      BY <3>2 DEF Rule
  <2> QED
    BY <1>4, <2>1, <2>2, RetypeIs
<1> HIDE DEF e, L
<1>5. Runs([k \in DOMAIN e |-> y[k]])
  <2> DEFINE h == [k \in DOMAIN e |-> y[k]]
  <2>1. ASSUME NEW k \in DOMAIN e PROVE Retype(f, j, k, h[k + 1]) = h[k]
    <3>1. k # L => k + 1 \in DOMAIN e
      BY <1>3
    <3>2. k # L => h[k + 1] = y[k + 1]
      BY <3>1
    <3> HIDE DEF h
    <3>3. Retype(f, j, k, h[k + 1]) = y[k]
      BY <1>4, <3>2
    <3> QED
      BY <3>3 DEF h
  <2> QED
    BY <2>1
<1>6. Runs(r)
  <2> HIDE DEF Runs
  <2> QED
    BY <1>5
<1>7. ASSUME NEW k \in DOMAIN e, k # L => r[k + 1] = y[k + 1]
      PROVE  r[k] = y[k]
  <2>1. r[k] = Retype(f, j, k, r[k + 1])
    BY <1>6
  <2> HIDE DEF r
  <2> QED
    BY <1>4, <1>7, <2>1
<1> HIDE DEF r
<1> DEFINE S == {n \in Nat : n < L => r[L - n] = y[L - n]}
<1>8. 0 \in S
  <2>1. L \in DOMAIN e /\ L - 0 = L
    BY <1>3
  <2> QED
    BY <1>7, <2>1
<1>9. ASSUME NEW n \in Nat, n \in S PROVE n + 1 \in S
  <2> SUFFICES ASSUME n + 1 < L PROVE r[L - (n + 1)] = y[L - (n + 1)]
    OBVIOUS
  <2>1. n < L /\ L - (n + 1) \in DOMAIN e /\ (L - (n + 1)) + 1 = L - n
    BY <1>3
  <2>2. r[L - n] = y[L - n]
    BY <1>9, <2>1
  <2> QED
    BY <1>7, <2>1, <2>2
<1>10. L - 1 \in S /\ L - (L - 1) = 1 /\ L - 1 < L
  <2>1. Nat \subseteq S
    <3> HIDE DEF S
    <3> QED
      BY <1>8, <1>9, Inductive
  <2> QED
    BY <1>3, <2>1
<1> QED
  BY <1>1, <1>2, <1>10

\* What is accepted is found to be right again.
LEMMA OverTyped ==
  ASSUME ProgramOK(prog), TypesInv, OrderInv, TypedInv
  PROVE  Rechecks
<1> SUFFICES ASSUME Accepted, InferredFirst, NEW f \in Kept, NEW j \in DOMAIN Body(f)
             PROVE  Known(TypeAgain(f, j)) /\ (j = Len(Body(f)) /\ RetOf(f) # Unit => TypeAgain(f, j) = checker.sigs[f])
  BY DEF Rechecks
<1>1. Over
  BY DEF Over
<1>2. WholeOK(f) /\ Fn(f)
  BY <1>1, OverIs DEF Kept
<1>3. PICK t : Typed(f, j, 1, t) /\ (j = Len(Body(f)) /\ RetOf(f) # Unit => t = checker.sigs[f])
  BY <1>2 DEF WholeOK
<1>4. TypeAgain(f, j) = t
  BY <1>1, <1>3, AgainIs
<1>5. IsType(t)
  <2>1. PICK y : Typing(f, j, 1, y) /\ y[1] = t
    BY <1>3 DEF Typed
  <2>2. 1 \in DOMAIN Body(f)[j]
    BY <1>2, BodyIs
  <2>3. Rule(<<f, j, 1>>, y[1], y[1 + 1])
    BY <2>1, <2>2 DEF Typing
  <2> QED
    BY <2>1, <2>3 DEF Rule, TypeIn
<1> QED
  BY <1>3, <1>4, <1>5, TypeIs DEF Known

\* A program that is accepted, and whose return types are found before they are used, is found to
\* be right when it is checked once more as it is handed on, whatever the program: every expression
\* has a type then, every name leads to an instance that exists, and what an instance returns is
\* what its template returns (checkFunction, checkMethod, processInstantiations).
THEOREM RechecksAlways == MonoSpec => []Rechecks
<1>1. MonoInit => ProgramOK(prog) /\ TypesInv /\ OrderInv /\ TypedInv
  BY TypesInit, OrderInit, TypedInit
<1>2. /\ ProgramOK(prog) /\ TypesInv /\ OrderInv /\ TypedInv /\ [MonoNext]_monoVars
      => (ProgramOK(prog) /\ TypesInv /\ OrderInv /\ TypedInv)'
  <2> SUFFICES ASSUME ProgramOK(prog), TypesInv, OrderInv, TypedInv, [MonoNext]_monoVars
               PROVE  ProgramOK(prog)' /\ TypesInv' /\ OrderInv' /\ TypedInv'
    OBVIOUS
  <2>1. TypesInv' /\ prog' = prog
    BY TypesStep
  <2>2. ProgramOK(prog)'
    BY <2>1
  <2> QED
    BY <2>1, <2>2, OrderStep, TypedStep
<1>3. ProgramOK(prog) /\ TypesInv /\ OrderInv /\ TypedInv => Rechecks
  BY OverTyped
<1> QED
  BY <1>1, <1>2, <1>3, PTL DEF MonoSpec
===============================================================================
