--------------------------------- MODULE Mono ---------------------------------
(***************************************************************************)
(* The type checker as monomorphization sees it (typecheck: checker.go,    *)
(* generic_expr.go, generics.go, monomorph.go).  Functions are checked in  *)
(* the order of the program, then the methods of impls, then a worklist of *)
(* the instances that these checks have asked for.  Checking changes the   *)
(* tree: a call whose type arguments are concrete is given the name of the *)
(* instance, which exists only when the worklist gets to it.               *)
(*                                                                         *)
(* Programs have one generic struct S[T] { value: T }, an impl of it with  *)
(* methods, and functions with one parameter and at most one type          *)
(* parameter T.  An expression is the sequence of its operations,          *)
(* outermost first, the last of them a literal or the argument; a body is  *)
(* a sequence of expressions.  A function is <<name, None>> as written and *)
(* <<name, t>> for T = t.                                                  *)
(***************************************************************************)
EXTENDS Naturals, Sequences

CONSTANT Programs  \* [fns |-> .., methods |-> ..], sequences of items [name, generic, param, ret, body]

VARIABLES
  prog,
  stage,    \* "collect", "items", "structs", "funcs", "over"
  turn,     \* the next item
  checker,  \* the Checker, and the names it has written into the tree
  todo,     \* methods of an instance that are still to be declared and checked
  task      \* the body that is being checked, with the activations of checkExpr

monoVars == <<prog, stage, turn, checker, todo, task>>

----------------------------------------------------------------------------
(* Types: S applied n times, to T or to a type without parameters *)

Ty(n, of) == [n |-> n, of |-> of]
Bad == Ty(0, "?")      \* TypeInvalid, which silences every check
Unit == Ty(0, "unit")
None == Ty(0, "none")      \* no type written, or none found yet

Concrete(t) == t.of \notin {"T", "?"}
Subst(t, u) == IF t.of = "T" THEN Ty(t.n + u.n, u.of) ELSE t
Known(t) == t # Bad
\* A bug that Rechecks finds: types that are not known to differ are alike.
ClashNever(t, expected) == FALSE

Clash(t, expected) == Known(t) /\ Known(expected) /\ t # expected

\* unifyType, and what it finds T to stand for.
Unifies(pattern, t) ==
  /\ Known(pattern) /\ Known(t)
  /\ IF pattern.of = "T" THEN pattern.n <= t.n ELSE pattern = t
Bound(pattern, t) == Ty(t.n - pattern.n, t.of)

----------------------------------------------------------------------------
(* Functions *)

Order == prog.fns \o prog.methods
Item(n) == Order[CHOOSE i \in DOMAIN Order : Order[i].name = n]
IsGeneric(f) == Item(f[1]).generic /\ f[2] = None
InFunction(t, f) == IF f[2] = None THEN t ELSE Subst(t, f[2])
ParamOf(f) == InFunction(Item(f[1]).param, f)
RetOf(f) == InFunction(Item(f[1]).ret, f)
Body(f) == Item(f[1]).body

\* What the parser and the declarations see to: names have their declarations, self is an S[T], and
\* only functions with a type parameter speak of T.  They have it in their parameter, so that it is
\* the argument of a call that tells what T stands for, and not what is expected of the call.
IsSequence(s) == s \in Seq({s[i] : i \in DOMAIN s})
IsType(t) == t = Ty(t.n, t.of) /\ t.n \in Nat /\ t.of \notin {"none", "?"}
OpOK(p, it, op) ==
  /\ op.op \in {"lit", "arg", "call", "new", "value", "method"}
  /\ op.op = "call" => \E i \in DOMAIN p.fns : p.fns[i].name = op.f
  /\ op.op = "method" => \E i \in DOMAIN p.methods : p.methods[i].name = op.f
  /\ op.type = None \/ (IsType(op.type) /\ op.op = "call")
  /\ it.param.of # "T" => op.type.of # "T"
ExprOK(p, it, e) ==
  /\ IsSequence(e) /\ e # <<>>
  /\ \A k \in DOMAIN e : OpOK(p, it, e[k]) /\ (e[k].op \in {"lit", "arg"} <=> k = Len(e))
ItemOK(p, it) ==
  /\ it.generic \in BOOLEAN
  /\ IsType(it.param) /\ (it.ret = None \/ IsType(it.ret))
  /\ ~it.generic => it.param.of # "T"
  /\ it.param.of # "T" => it.ret.of # "T"
  /\ IsSequence(it.body) /\ it.body # <<>>
  /\ \A j \in DOMAIN it.body : ExprOK(p, it, it.body[j])
ProgramOK(p) ==
  /\ IsSequence(p.fns) /\ IsSequence(p.methods)
  /\ LET all == p.fns \o p.methods
     IN  \A i \in DOMAIN all : ItemOK(p, all[i]) /\ \A j \in DOMAIN all : all[i].name = all[j].name => i = j
  /\ \A i \in DOMAIN p.methods : p.methods[i].generic /\ p.methods[i].param = Ty(1, "T")
ASSUME ProgramsAssumption == \A p \in Programs : ProgramOK(p)

----------------------------------------------------------------------------
(* Instances asked for *)

OweStruct(c, t) ==
  IF t \in c.structKeys THEN c
  ELSE [c EXCEPT !.owedStructs = Append(@, t), !.structKeys = @ \cup {t}]

\* The instances of S in a type, innermost first (ensureStructInstance in fromAstType and
\* canonicalizeType).
OweStructs(c, t) ==
  LET upTo[n \in 0 .. t.n] == IF n = 0 THEN c ELSE OweStruct(upTo[n - 1], Ty(n, t.of))
  IN  IF Concrete(t) THEN upTo[t.n] ELSE c

OweFunc(c, f) ==
  IF f \in c.funcKeys THEN c
  ELSE [c EXCEPT !.owedFuncs = Append(@, f), !.funcKeys = @ \cup {f}]

Report(c, what) == [c EXCEPT !.diags = @ \cup {what}]
ReportIf(bad, c, what) == IF bad THEN Report(c, what) ELSE c
Rename(c, at, name) == [c EXCEPT !.names = [n \in DOMAIN @ \cup {at} |-> IF n = at THEN name ELSE @[n]]]

----------------------------------------------------------------------------
(* checkExpr: its activations are the operations that have begun, each with what T stands for in *)
(* it as soon as that is known; then what is inside is checked a second time, against the type   *)
(* that is expected there.                                                                       *)

NoTask == [fn |-> <<>>, stmt |-> 0, calls |-> <<>>, type |-> None]
Idle == task = NoTask
Begin(f) == [fn |-> f, stmt |-> 1, calls |-> <<>>, type |-> None]

Expr == Body(task.fn)[task.stmt]
Place(k) == <<task.fn, task.stmt, k>>
Named(k) == Place(k) \in DOMAIN checker.names

\* On the way in, before operation k.
Enters(k, ops) ==
  /\ task.type = None /\ k = Len(task.calls) + 1
  /\ Expr[k].op \in ops
  /\ UNCHANGED <<prog, stage, turn, todo>>
Descend(c, t) == checker' = c /\ task' = [task EXCEPT !.calls = Append(@, t)]
Yield(c, t) == checker' = c /\ task' = [task EXCEPT !.type = t]

\* On the way out: what is inside operation k has a type.
Leaves(k, ops) ==
  /\ task.type # None /\ k = Len(task.calls) /\ k # 0
  /\ Expr[k].op \in ops
  /\ UNCHANGED <<prog, stage, turn, todo>>
Again(c, t) ==
  checker' = c /\ task' = [task EXCEPT !.calls = [@ EXCEPT ![Len(@)] = t], !.type = None]
Return(c, t) ==
  checker' = c /\ task' = [task EXCEPT !.calls = SubSeq(@, 1, Len(@) - 1), !.type = t]

Leaf ==
  \E k \in DOMAIN Expr :
    /\ Enters(k, {"lit", "arg"})
    /\ Yield(checker, IF Expr[k].op = "lit" THEN Ty(0, "A") ELSE ParamOf(task.fn))

\* A call names a function as written or, once that is found, an instance.
Callee(k) == IF Named(k) THEN checker.names[Place(k)] ELSE <<Expr[k].f, None>>
Generic(k) == IsGeneric(Callee(k))

UnknownCallee ==
  \E k \in DOMAIN Expr :
    /\ Enters(k, {"call"}) /\ Callee(k) \notin DOMAIN checker.sigs
    /\ Yield(Report(checker, "undefined"), Bad)

\* A bug that NoFalseUndefined finds: the argument is looked at even if the types are given.
InfersAlways(op) == TRUE

Infers(op) == op.type = None

\* checkCallExpr for a function that is not generic, or whose instance the call names, and for a
\* generic one whose type arguments are to be inferred from the argument.
EnterCall ==
  \E k \in DOMAIN Expr :
    /\ Enters(k, {"call"}) /\ Callee(k) \in DOMAIN checker.sigs
    /\ Generic(k) => Infers(Expr[k])
    /\ Descend(checker, None)

\* The types of an instance's parameter and result (applySubst).
OweSignature(c, f, t) == OweStructs(OweStructs(c, Subst(c.sigs[f], t)), Subst(ParamOf(f), t))

EnterGivenCall ==
  \E k \in DOMAIN Expr :
    /\ Enters(k, {"call"}) /\ Callee(k) \in DOMAIN checker.sigs
    /\ Generic(k) /\ ~Infers(Expr[k])
    /\ LET t == InFunction(Expr[k].type, task.fn)
       IN  Descend(OweSignature(OweStructs(checker, t), Callee(k), t), t)

LeavePlainCall ==
  \E k \in DOMAIN Expr :
    /\ Leaves(k, {"call"}) /\ ~Generic(k)
    /\ Return(ReportIf(Clash(task.type, ParamOf(Callee(k))), checker, "mismatch"), checker.sigs[Callee(k)])

InferCall ==
  \E k \in DOMAIN Expr :
    /\ Leaves(k, {"call"}) /\ Generic(k) /\ task.calls[k] = None
    /\ LET param == ParamOf(Callee(k))
           t == Bound(param, task.type)
       IN  IF ~Unifies(param, task.type) THEN Return(ReportIf(Known(task.type), checker, "mismatch"), Bad)
           ELSE IF param.of # "T" THEN Return(Report(checker, "cannot infer"), Bad)
           ELSE Again(OweSignature(checker, Callee(k), t), t)

LeaveGenericCall ==
  \E k \in DOMAIN Expr :
    /\ Leaves(k, {"call"}) /\ Generic(k) /\ task.calls[k] # None
    /\ LET f == Callee(k)
           t == task.calls[k]
           checked == ReportIf(Clash(task.type, Subst(ParamOf(f), t)), checker, "mismatch")
       IN  Return(IF Concrete(t) THEN Rename(OweFunc(checked, <<f[1], t>>), Place(k), <<f[1], t>>) ELSE checked,
                  Subst(checker.sigs[f], t))

\* checkStructLit for S { value: .. }, or for the instance that the literal names.
UnknownStruct ==
  \E k \in DOMAIN Expr :
    /\ Enters(k, {"new"}) /\ Named(k) /\ checker.names[Place(k)] \notin checker.structs
    /\ Yield(Report(checker, "undefined"), Bad)

EnterNew ==
  \E k \in DOMAIN Expr :
    /\ Enters(k, {"new"}) /\ (Named(k) => checker.names[Place(k)] \in checker.structs)
    /\ Descend(checker, None)

LeaveInstance ==
  \E k \in DOMAIN Expr :
    /\ Leaves(k, {"new"}) /\ Named(k)
    /\ LET t == checker.names[Place(k)]
       IN  Return(ReportIf(Clash(task.type, Ty(t.n - 1, t.of)), checker, "mismatch"), t)

InferNew ==
  \E k \in DOMAIN Expr :
    /\ Leaves(k, {"new"}) /\ ~Named(k) /\ task.calls[k] = None
    /\ IF Known(task.type) THEN Again(OweStructs(checker, task.type), task.type)
       ELSE Return(Report(checker, "cannot infer"), Bad)

LeaveNew ==
  \E k \in DOMAIN Expr :
    /\ Leaves(k, {"new"}) /\ ~Named(k) /\ task.calls[k] # None
    /\ LET t == task.calls[k]
           whole == Ty(t.n + 1, t.of)
           checked == ReportIf(Clash(task.type, t), checker, "mismatch")
       IN  Return(IF Concrete(t) THEN Rename(OweStructs(checked, whole), Place(k), whole) ELSE checked, whole)

EnterMember == \E k \in DOMAIN Expr : Enters(k, {"value", "method"}) /\ Descend(checker, None)

NoMember ==
  \E k \in DOMAIN Expr :
    /\ Leaves(k, {"value", "method"}) /\ task.type.n = 0
    /\ Return(ReportIf(Known(task.type), checker, "no struct"), Bad)

\* .value
LeaveField ==
  \E k \in DOMAIN Expr :
    /\ Leaves(k, {"value"}) /\ task.type.n # 0
    /\ LET t == Ty(task.type.n - 1, task.type.of) IN Return(OweStructs(checker, t), t)

\* A method of the instance, or as long as there is none that of the generic impl.
LeaveMethod ==
  \E k \in DOMAIN Expr :
    /\ Leaves(k, {"method"}) /\ task.type.n # 0
    /\ LET t == Ty(task.type.n - 1, task.type.of)
           own == <<Expr[k].f, t>>
           ret == Subst(checker.sigs[IF own \in DOMAIN checker.sigs THEN own ELSE <<Expr[k].f, None>>], t)
       IN  Return(OweStructs(checker, ret), ret)

Work ==
  /\ ~Idle
  /\ \/ Leaf \/ UnknownCallee \/ EnterCall \/ EnterGivenCall \/ LeavePlainCall \/ InferCall \/ LeaveGenericCall
     \/ UnknownStruct \/ EnterNew \/ LeaveInstance \/ InferNew \/ LeaveNew
     \/ EnterMember \/ NoMember \/ LeaveField \/ LeaveMethod

----------------------------------------------------------------------------
(* checkFunction, checkMethod *)

ExprDone == ~Idle /\ task.type # None /\ task.calls = <<>>

NextExpr ==
  /\ ExprDone /\ task.stmt # Len(Body(task.fn))
  /\ task' = [task EXCEPT !.stmt = @ + 1, !.type = None]
  /\ UNCHANGED <<prog, stage, turn, todo, checker>>

\* The last expression is the value, and gives the return type if none is written.  Where unit is
\* written it is a statement like the others (checkFunctionBlock).
EndBody ==
  /\ ExprDone /\ task.stmt = Len(Body(task.fn))
  /\ checker' = IF RetOf(task.fn) = None
                THEN [checker EXCEPT !.sigs[task.fn] = IF Known(task.type) THEN task.type ELSE Unit]
                ELSE ReportIf(RetOf(task.fn) # Unit /\ Clash(task.type, RetOf(task.fn)), checker, "mismatch")
  /\ task' = NoTask
  /\ UNCHANGED <<prog, stage, turn, todo>>

----------------------------------------------------------------------------
(* The order of checking *)

\* collectSignatures for a function, and methodSignature for a method of an instance, which
\* takes a return type that is not written for unit.
Declare(c, f, unwritten) ==
  LET owing == OweStructs(OweStructs(c, ParamOf(f)), RetOf(f))
      ret == IF RetOf(f) = None THEN unwritten ELSE RetOf(f)
  IN  [owing EXCEPT !.sigs = [g \in DOMAIN @ \cup {f} |-> IF g = f THEN ret ELSE @[g]]]

\* cloneFunction: the copy has the names that checking has put into the template so far.
Cloned(c, f) ==
  LET written == <<f[1], None>>
      copies == {n \in {<<f, n[2], n[3]>> : n \in DOMAIN c.names} : <<written, n[2], n[3]>> \in DOMAIN c.names}
  IN  [c EXCEPT !.names = [n \in DOMAIN @ \cup copies |-> IF n \in copies THEN @[<<written, n[2], n[3]>>] ELSE @[n]]]

CollectItem ==
  /\ stage = "collect" /\ turn \in DOMAIN Order
  /\ checker' = Declare(checker, <<Order[turn].name, None>>, Bad)
  /\ turn' = turn + 1
  /\ UNCHANGED <<prog, stage, todo, task>>

CheckItem ==
  /\ stage = "items" /\ Idle /\ turn \in DOMAIN Order
  /\ task' = Begin(<<Order[turn].name, None>>)
  /\ turn' = turn + 1
  /\ UNCHANGED <<prog, stage, checker, todo>>

NextStage ==
  /\ Idle /\ turn \notin DOMAIN Order
  /\ \/ stage = "collect" /\ stage' = "items" /\ turn' = 1
     \/ stage = "items" /\ stage' = "structs" /\ UNCHANGED turn
  /\ UNCHANGED <<prog, checker, todo, task>>

\* The struct, then for each method of its impl the signature and the check.
InstantiateStruct ==
  /\ stage = "structs" /\ Idle /\ todo = <<>> /\ checker.owedStructs # <<>>
  /\ LET s == Head(checker.owedStructs)
     IN  /\ checker' = [checker EXCEPT !.owedStructs = Tail(@), !.structs = @ \cup {s}]
         /\ todo' = [i \in DOMAIN prog.methods |-> <<prog.methods[i].name, Ty(s.n - 1, s.of)>>]
  /\ UNCHANGED <<prog, stage, turn, task>>

InstantiateMethod ==
  /\ Idle /\ todo # <<>>
  /\ checker' = Declare(Cloned(checker, Head(todo)), Head(todo), Unit)
  /\ task' = Begin(Head(todo))
  /\ todo' = Tail(todo)
  /\ UNCHANGED <<prog, stage, turn>>

InstantiateFunc ==
  /\ stage = "funcs" /\ Idle /\ checker.owedFuncs # <<>>
  /\ LET f == Head(checker.owedFuncs)
     IN  /\ checker' = Declare(Cloned([checker EXCEPT !.owedFuncs = Tail(@)], f), f, Bad)
         /\ task' = Begin(f)
  /\ UNCHANGED <<prog, stage, turn, todo>>

\* A bug that TypesExist finds: structs that functions ask for are left.
NextQueueOnce ==
  /\ Idle /\ todo = <<>>
  /\ \/ stage = "structs" /\ checker.owedStructs = <<>> /\ stage' = "funcs"
     \/ stage = "funcs" /\ checker.owedFuncs = <<>> /\ stage' = "over"
  /\ UNCHANGED <<prog, turn, checker, todo, task>>

\* processInstantiations goes on with the other queue when one is empty.
NextQueue ==
  /\ Idle /\ todo = <<>>
  /\ \/ stage = "structs" /\ checker.owedStructs = <<>> /\ stage' = "funcs"
     \/ /\ stage = "funcs" /\ checker.owedFuncs = <<>>
        /\ stage' = IF checker.owedStructs # <<>> THEN "structs" ELSE "over"
  /\ UNCHANGED <<prog, turn, checker, todo, task>>

\* filterMonomorphic: what is handed to the compiler.
Kept == {f \in DOMAIN checker.sigs : ~IsGeneric(f)}
Accepted == stage = "over" /\ checker.diags = {}

MonoInit ==
  /\ prog \in Programs
  /\ stage = "collect" /\ turn = 1
  /\ checker = [names |-> <<>>, sigs |-> <<>>, structs |-> {}, owedStructs |-> <<>>, owedFuncs |-> <<>>,
                structKeys |-> {}, funcKeys |-> {}, diags |-> {}]
  /\ todo = <<>> /\ task = NoTask

MonoNext ==
  \/ CollectItem \/ CheckItem \/ NextStage
  \/ Work \/ NextExpr \/ EndBody
  \/ InstantiateStruct \/ InstantiateMethod \/ InstantiateFunc \/ NextQueue
MonoSpec == MonoInit /\ [][MonoNext]_monoVars

(***************************************************************************)
(* Programs for which the properties hold                                  *)
(***************************************************************************)

Exprs(it) == {it.body[j] : j \in DOMAIN it.body}
CalledIn(it) == UNION {{e[k].f : k \in {i \in DOMAIN e : e[i].op \in {"call", "method"}}} : e \in Exprs(it)}
Position(n) == CHOOSE i \in DOMAIN Order : Order[i].name = n

\* A return type that is not written has been found before it is used.
InferredFirst ==
  \A i \in DOMAIN Order : \A n \in CalledIn(Order[i]) : Item(n).ret = None => Position(n) < i

\* What is written into the tree, and what is checked twice: nothing of the first kind is in an
\* argument of the second kind.
Resolved(op) == op.op = "new" \/ (op.op = "call" /\ Item(op.f).generic)
Apart ==
  \A i \in DOMAIN Order : \A e \in Exprs(Order[i]) :
    \A k \in DOMAIN e : Resolved(e[k]) /\ e[k].type = None => \A m \in DOMAIN e : m > k => ~Resolved(e[m])

\* Checking a generic function has not resolved anything in it: its instances depend on T.
TemplatesOpen == \A n \in DOMAIN checker.names : ~IsGeneric(n[1])

(***************************************************************************)
(* Properties                                                              *)
(***************************************************************************)

\* The type that a second check finds for an operation, from that of what is inside it: with every
\* name as it was written into the tree, and every declaration as it is in the end.
Retype(f, j, k, inside) ==
  LET op == Body(f)[j][k]
      at == <<f, j, k>>
      callee == IF at \in DOMAIN checker.names THEN checker.names[at] ELSE <<op.f, None>>
      inner(t) == Ty(t.n - 1, t.of)
  IN  CASE op.op = "lit" -> Ty(0, "A")
        [] op.op = "arg" -> ParamOf(f)
        [] op.op = "call" ->
             IF callee \in Kept /\ inside = ParamOf(callee) THEN checker.sigs[callee] ELSE Bad
        [] op.op = "new" ->
             IF /\ at \in DOMAIN checker.names /\ checker.names[at] \in checker.structs
                /\ inside = inner(checker.names[at])
             THEN checker.names[at] ELSE Bad
        [] op.op = "value" -> IF inside \in checker.structs THEN inner(inside) ELSE Bad
        [] op.op = "method" ->
             IF inside \in checker.structs THEN checker.sigs[<<op.f, inner(inside)>>] ELSE Bad
TypeAgain(f, j) ==
  LET type[k \in DOMAIN Body(f)[j]] == Retype(f, j, k, type[k + 1])
  IN  type[1]
\* Checking what is handed on again, with every name as it was written into the tree and every
\* declaration as it is in the end, finds a type for every expression and the declared return
\* types: no check was skipped because a type was not yet known, and no call leads to a function
\* that was filtered out (the order of checkFunction, checkMethod and processInstantiations).
Rechecks ==
  Accepted /\ InferredFirst =>
    \A f \in Kept : \A j \in DOMAIN Body(f) :
      Known(TypeAgain(f, j)) /\ (j = Len(Body(f)) /\ RetOf(f) # Unit => TypeAgain(f, j) = checker.sigs[f])

\* No diagnostic says of a function or struct that has been asked for that there is none, in
\* programs whose instances are asked for one at a time and not from generic functions for types
\* of their own (checkCallExpr and checkStructLit write names that the worklist makes good later).
NoFalseUndefined == Apart /\ TemplatesOpen => "undefined" \notin checker.diags

\* The types an instance's signature speaks of exist in the end, although the worklist goes back
\* and forth between structs and functions.
TypesExist ==
  stage = "over" =>
    \A f \in Kept : \A t \in {ParamOf(f), checker.sigs[f]} :
      \A n \in 1 .. t.n : Ty(n, t.of) \in checker.structs
=============================================================================
