------------------------------ MODULE DropElab ------------------------------
(***************************************************************************)
(* The drop elaboration of the stage0 compiler (internal/compile): while a *)
(* function body is walked once, statement by statement, the compiler      *)
(* keeps for every variable whether it still owns its value, and from that *)
(* state alone decides which drop calls to emit at a scope end, before an  *)
(* assignment, at break, continue and return.  The environment is the      *)
(* program: each action is the compilation of one statement, or of the     *)
(* opening, the middle or the end of a control construct.                  *)
(*                                                                         *)
(* Names are resolved: a variable here is the VarInfo a name resolves to.  *)
(* All variables have a type that needs dropping (String, array, struct).  *)
(* Conditions and scrutinees are copy values, so they move nothing.        *)
(***************************************************************************)
EXTENDS Naturals, Sequences, FiniteSets

CONSTANTS
  Vars,        \* the variables of the function
  Params,      \* those of them that are parameters
  NoVar,       \* the operand of "return" without a value
  MaxStmts,    \* bound: statements compiled in one function
  MaxDepth,    \* bound: nesting of control constructs
  Shapes,      \* the constructs the program may use (a subset of AllShapes)
  Discipline   \* what is assumed of the program (a subset of AllDisciplines)

AllShapes == {"block", "if", "loop", "arms", "redeclare"}

(***************************************************************************)
(* "loop": the ownership state is the same on every edge into a loop head  *)
(* and into the block behind the loop.  "arms": the same for the arms of a *)
(* match or of an if in tail position.  "exact": on every edge into a      *)
(* block, whatever construct made it, the two states are equal.  The       *)
(* compiler checks none of these: they describe classes of programs.       *)
(***************************************************************************)
AllDisciplines == {"loop", "arms", "exact"}

ASSUME ElabAssumption ==
  /\ IsFiniteSet(Vars)
  /\ Params \subseteq Vars
  /\ NoVar \notin Vars
  /\ MaxStmts \in Nat
  /\ MaxDepth \in Nat
  /\ Shapes \subseteq AllShapes
  /\ Discipline \subseteq AllDisciplines

VARIABLES
  phase,   \* "compile", "ready" (code complete) or "rejected" (a diagnostic)
  stmts,   \* statements compiled so far
  flag,    \* VarInfo of every variable: does it own its value?
  order,   \* scopeStack: the declared variables, outermost scope first
  ctl,     \* the open control constructs (activations of compileIf, ...)
  term,    \* the current block's terminator: "open", "jump" or "ret"
  code,    \* the IR emitted so far
  at,      \* block label -> index of its first instruction, 0 if not placed
  ann,     \* history: flag as it was when each instruction was emitted
  into     \* history: block label -> the states on the edges jumping to it

elabVars == <<phase, stmts, flag, order, ctl, term, code, at, ann, into>>

-----------------------------------------------------------------------------
(* What the compiler knows of a variable                                    *)

(***************************************************************************)
(* "own"   : neither Moved nor Borrowed, will be dropped                   *)
(* "param" : Param, never dropped                                          *)
(* "lent"  : Borrowed (holds a string literal), never dropped              *)
(* "moved" : Moved, never dropped, its use is a diagnostic                 *)
(* "out"   : not in scope                                                  *)
(***************************************************************************)
Flag == {"own", "param", "lent", "moved", "out"}
FlagMap == [Vars -> Flag]

\* Mutant: a moved variable may be used.
ReadableMoved == {v \in Vars : flag[v] # "out"}
Readable == {v \in Vars : flag[v] \in {"own", "param", "lent"}}
Owned == {v \in Vars : flag[v] = "own"}

\* Moved and Borrowed are each or-ed when two branches meet.
Worse(a, b) ==
  IF a = b THEN a ELSE IF {a, b} = {"own", "lent"} THEN "lent" ELSE "moved"
\* Mutant: only what is in scope in the first branch survives the merge.
MergeInScope(f, g) == [v \in {w \in Vars : f[w] # "out"} |-> Worse(f[v], g[v])]
Merge(f, g) == [v \in Vars |-> Worse(f[v], g[v])]

\* State g claims no more than state f.
Below(f, g) ==
  \A v \in Vars : \/ g[v] \in {"moved", "out"}
                  \/ f[v] = g[v]
                  \/ f[v] = "own" /\ g[v] = "lent"

\* Declared beyond position k, the innermost first: the variables that
\* leave their scopes when the scope stack is cut back to k.
Leaving(k) == [i \in 1..(Len(order) - k) |-> order[Len(order) + 1 - i]]
LeavingSet(k) == {order[i] : i \in (k + 1)..Len(order)}
Outside(f, k) == [v \in Vars |-> IF v \in LeavingSet(k) THEN "out" ELSE f[v]]

-----------------------------------------------------------------------------
(* Emission                                                                 *)

\* The drop calls for what leaves scope: emitDropForVar skips the variables
\* that are not in own.
DropList == [vs : Seq(Vars), own : SUBSET Vars]
Drops(k) == [vs |-> Leaving(k), own |-> Owned]

\* StoreVar (old: preceded by the drop of the variable's old value), a use of
\* a loaded variable, the drops of a scope end, and the terminators with the
\* drops emitted in front of them.
Inst ==
  [op : {"new", "lit"}, v : Vars, old : BOOLEAN]
    \cup [op : {"mov"}, v : Vars, src : Vars, old : BOOLEAN]
    \cup [op : {"use", "give", "drop"}, v : Vars]
    \cup [op : {"leave"}, d : DropList]
    \cup [op : {"br"}, to : Nat]
    \cup [op : {"jmp"}, to : Nat, d : DropList]
    \cup [op : {"ret"}, v : Vars \cup {NoVar}, d : DropList]

New(v, old)      == [op |-> "new", v |-> v, old |-> old]
Lit(v, old)      == [op |-> "lit", v |-> v, old |-> old]
Mov(v, src, old) == [op |-> "mov", v |-> v, src |-> src, old |-> old]
Borrow(v)        == [op |-> "use", v |-> v]
Give(v)          == [op |-> "give", v |-> v]
DropOne(v)       == [op |-> "drop", v |-> v]
DropAll(d)       == [op |-> "leave", d |-> d]
Branch(l)        == [op |-> "br", to |-> l]
Jump(l, d)       == [op |-> "jmp", to |-> l, d |-> d]
Ret(v, d)        == [op |-> "ret", v |-> v, d |-> d]

Emit(i) ==
  /\ code' = Append(code, i)
  /\ ann' = Append(ann, flag)

\* At the end of a block: fall into label l, dropping what leaves scope,
\* unless the block already ended in a terminator.
FallInto(l, k) ==
  IF term = "open"
    THEN Emit(Jump(l, Drops(k)))
    ELSE UNCHANGED <<code, ann>>
FallEdge(k) == IF term = "open" THEN {Outside(flag, k)} ELSE {}

Place(f, l) == [f EXCEPT ![l] = Len(code') + 1]
\* Two new labels, placed at a and b (0: not yet).
NewLabels(a, b) == at' = Append(Append(at, a), b)
NewEdges(a, b) == into' = Append(Append(into, a), b)

-----------------------------------------------------------------------------
(* Simple statements                                                        *)

Stmt ==
  /\ phase = "compile"
  /\ term = "open"
  /\ stmts < MaxStmts
  /\ stmts' = stmts + 1

\* compileLet: declare, move or borrow the initializer, store.
Declare(v) == flag[v] = "out" /\ order' = Append(order, v)

LetNew(v) ==
  /\ Stmt /\ Declare(v)
  /\ Emit(New(v, FALSE))
  /\ flag' = [flag EXCEPT ![v] = "own"]
  /\ UNCHANGED <<phase, ctl, term, at, into>>

LetLit(v) ==
  /\ Stmt /\ Declare(v)
  /\ Emit(Lit(v, FALSE))
  /\ flag' = [flag EXCEPT ![v] = "lent"]
  /\ UNCHANGED <<phase, ctl, term, at, into>>

\* The state of a variable that receives the value of u.
Received(u) == IF flag[u] = "lent" THEN "lent" ELSE "own"

LetMove(v, u) ==
  /\ Stmt /\ Declare(v) /\ u \in Readable
  /\ Emit(Mov(v, u, FALSE))
  /\ flag' = [flag EXCEPT ![u] = "moved", ![v] = Received(u)]
  /\ UNCHANGED <<phase, ctl, term, at, into>>

(***************************************************************************)
(* A second "let" of the name that resolves to u, in u's own scope: the    *)
(* scope's map entry is overwritten and the name is appended to its order  *)
(* again, so every order entry of the name now resolves to v.              *)
(***************************************************************************)
ScopeStart == IF ctl = <<>> THEN 0 ELSE ctl[Len(ctl)].mark

LetAgain(v, u) ==
  /\ "redeclare" \in Shapes
  /\ Stmt
  /\ flag[v] = "out"
  /\ u \in LeavingSet(ScopeStart) \ Params
  /\ order' = Append([i \in DOMAIN order |->
                        IF order[i] = u THEN v ELSE order[i]], v)
  /\ Emit(New(v, FALSE))
  /\ flag' = [flag EXCEPT ![u] = "out", ![v] = "own"]
  /\ UNCHANGED <<phase, ctl, term, at, into>>

\* compileAssign: the value first, then the drop of the old one, the store.
Assignable == {v \in Vars \ Params : flag[v] # "out"}

\* Mutant: the old value is overwritten without its drop.
AssignNewForgets(v) ==
  /\ Stmt /\ v \in Assignable
  /\ Emit(New(v, FALSE))
  /\ flag' = [flag EXCEPT ![v] = "own"]
  /\ UNCHANGED <<phase, order, ctl, term, at, into>>

AssignNew(v) ==
  /\ Stmt /\ v \in Assignable
  /\ Emit(New(v, flag[v] = "own"))
  /\ flag' = [flag EXCEPT ![v] = "own"]
  /\ UNCHANGED <<phase, order, ctl, term, at, into>>

AssignLit(v) ==
  /\ Stmt /\ v \in Assignable
  /\ Emit(Lit(v, flag[v] = "own"))
  /\ flag' = [flag EXCEPT ![v] = "lent"]
  /\ UNCHANGED <<phase, order, ctl, term, at, into>>

\* In "x = x" the value has marked x moved before its old value is looked at.
AssignMove(v, u) ==
  /\ Stmt /\ v \in Assignable /\ u \in Readable
  /\ Emit(Mov(v, u, v # u /\ flag[v] = "own"))
  /\ flag' = [flag EXCEPT ![u] = "moved", ![v] = Received(u)]
  /\ UNCHANGED <<phase, order, ctl, term, at, into>>

\* A call that borrows its argument, "let _ = u", a method on u.
UseVar(u) ==
  /\ Stmt /\ u \in Readable
  /\ Emit(Borrow(u))
  /\ UNCHANGED <<phase, flag, order, ctl, term, at, into>>

\* An argument the callee consumes, an element of a literal, push.
Consume(u) ==
  /\ Stmt /\ u \in Readable
  /\ Emit(Give(u))
  /\ flag' = [flag EXCEPT ![u] = "moved"]
  /\ UNCHANGED <<phase, order, ctl, term, at, into>>

\* The expression statement "u": its value is dropped on the spot.
Discard(u) ==
  /\ Stmt /\ u \in Readable
  /\ Emit(IF flag[u] = "lent" THEN Borrow(u) ELSE DropOne(u))
  /\ flag' = [flag EXCEPT ![u] = "moved"]
  /\ UNCHANGED <<phase, order, ctl, term, at, into>>

\* "use of moved value": a diagnostic, no code is generated.
UseMoved(u) ==
  /\ Stmt /\ flag[u] = "moved"
  /\ phase' = "rejected"
  /\ UNCHANGED <<flag, order, ctl, term, code, at, ann, into>>

\* compileReturn, and the tail expression of compileBlockWithTail: the value
\* is moved out, then everything in every scope is dropped.
Return(u) ==
  /\ Stmt /\ u \in Readable \cup {NoVar}
  /\ Emit(Ret(u, [Drops(0) EXCEPT !.own = @ \ {u}]))
  /\ flag' = [v \in Vars |-> IF v = u THEN "moved" ELSE flag[v]]
  /\ term' = "ret"
  /\ UNCHANGED <<phase, order, ctl, at, into>>

-----------------------------------------------------------------------------
(* Control constructs                                                       *)

(***************************************************************************)
(* A frame is an activation of compileBlock, compileIf, compileWhile,      *)
(* compileLoop, compileTailIf or compileMatch: the position of its scope   *)
(* in the scope stack, the labels it made (head: loop head; next: else     *)
(* block or next arm; exit: merge or after block), the snapshot of the     *)
(* scopes, and for the second branch the captured state of the first.      *)
(* live: the snapshot is the scope stack in use, so that statements change *)
(* it.                                                                     *)
(***************************************************************************)
FrameKind == {"block", "then", "else", "loop", "arm", "last"}
FrameSet ==
  [kind : FrameKind, mark : Nat,
   head : Nat, next : Nat, exit : Nat, base : FlagMap, save : FlagMap,
   ret : BOOLEAN, live : BOOLEAN]

Frame(kind, head, next, exit) ==
  [kind |-> kind, mark |-> Len(order), head |-> head, next |-> next,
   exit |-> exit, base |-> flag, save |-> flag, ret |-> FALSE,
   live |-> FALSE]

Top == ctl[Len(ctl)]
Pop == SubSeq(ctl, 1, Len(ctl) - 1)
TopIs(kind) == phase = "compile" /\ ctl # <<>> /\ Top.kind = kind

Open(shape) == shape \in Shapes /\ Stmt /\ Len(ctl) < MaxDepth

\* A state may flow along an edge into a block whose state is g.
Agrees(kind, f, g) ==
  /\ kind \in Discipline => Below(f, g)
  /\ "exact" \in Discipline => f = g
AllAgree(kind, fs, g) == \A f \in fs : Agrees(kind, f, g)

\* popScope.  Mutant: the scope stays on the stack.
CutNothing == order' = order
CutScope == order' = SubSeq(order, 1, Top.mark)

\* compileBlock
OpenBlock ==
  /\ Open("block")
  /\ ctl' = Append(ctl, Frame("block", 0, 0, 0))
  /\ UNCHANGED <<phase, flag, order, term, code, at, ann, into>>

CloseBlock ==
  /\ TopIs("block")
  /\ IF term = "open" THEN Emit(DropAll(Drops(Top.mark)))
                      ELSE UNCHANGED <<code, ann>>
  /\ flag' = Outside(flag, Top.mark)
  /\ CutScope
  /\ ctl' = Pop
  /\ UNCHANGED <<phase, stmts, term, at, into>>

\* compileIf: branch, snapshot, then block.
OpenIf ==
  /\ Open("if")
  /\ Emit(Branch(Len(at) + 1))
  /\ NewLabels(0, 0)
  /\ NewEdges({flag}, {})
  /\ ctl' = Append(ctl, Frame("then", 0, Len(at) + 1, Len(at) + 2))
  /\ UNCHANGED <<phase, flag, order, term>>

\* restoreScopes.  Mutant: the else block starts where the then block ended.
RestoredNothing == Outside(flag, Top.mark)
Restored == Top.base

(***************************************************************************)
(* restoreScopes does not copy: the snapshot becomes the scope stack, and  *)
(* the else block changes it, until a construct in that block installs its *)
(* own snapshot.  What the outer snapshot then holds is the state at the   *)
(* end of the inner then block.                                            *)
(***************************************************************************)
Abandoned(c) ==
  [k \in DOMAIN c |->
     IF c[k].live
       THEN [c[k] EXCEPT !.base = Outside(flag, c[k].mark), !.live = FALSE]
       ELSE c[k]]

\* End of the then block: capture its state, restore the snapshot.
Else ==
  /\ TopIs("then")
  /\ FallInto(Top.exit, Top.mark)
  /\ at' = Place(at, Top.next)
  /\ into' = [into EXCEPT ![Top.exit] = @ \cup FallEdge(Top.mark)]
  /\ ctl' = Append(Abandoned(Pop),
                   [Top EXCEPT !.kind = "else", !.live = TRUE,
                               !.save = Outside(flag, Top.mark),
                               !.ret = (term = "ret")])
  /\ flag' = Restored
  /\ CutScope
  /\ term' = "open"
  /\ UNCHANGED <<phase, stmts>>

\* End of the else block (empty when the source has none): merge the states
\* of the branches that do not return.  If both return, the snapshot is read
\* as it is now.
\* Mutant: the then block's state is forgotten.
MergedElseOnly == Outside(flag, Top.mark)
Merged ==
  LET elseState == Outside(flag, Top.mark)
      snapshot == IF Top.live THEN elseState ELSE Top.base
  IN  IF Top.ret /\ term = "ret" THEN snapshot
      ELSE IF Top.ret THEN elseState
      ELSE IF term = "ret" THEN Top.save
      ELSE Merge(Top.save, elseState)

EndIf ==
  /\ TopIs("else")
  /\ FallInto(Top.exit, Top.mark)
  /\ at' = Place(at, Top.exit)
  /\ into' = [into EXCEPT ![Top.exit] = @ \cup FallEdge(Top.mark)]
  /\ flag' = Merged
  /\ AllAgree("if", into'[Top.exit], flag')
  /\ CutScope
  /\ ctl' = Pop
  /\ term' = "open"
  /\ UNCHANGED <<phase, stmts>>

\* compileLoop: the body block is the loop head; only break leaves it.
OpenLoop ==
  /\ Open("loop")
  /\ NewLabels(Len(code) + 1, 0)
  /\ NewEdges({}, {})
  /\ ctl' = Append(ctl, Frame("loop", Len(at) + 1, 0, Len(at) + 2))
  /\ UNCHANGED <<phase, flag, order, term, code, ann>>

\* compileWhile: the condition block is the head, its branch also leaves.
OpenWhile ==
  /\ Open("loop")
  /\ Emit(Branch(Len(at) + 2))
  /\ NewLabels(Len(code) + 1, 0)
  /\ NewEdges({}, {flag})
  /\ ctl' = Append(ctl, Frame("loop", Len(at) + 1, 0, Len(at) + 2))
  /\ UNCHANGED <<phase, flag, order, term>>

\* Nothing merges the state at the end of the body into the head, nor the
\* states of the breaks into the block behind the loop.
EndLoop ==
  /\ TopIs("loop")
  /\ FallInto(Top.head, Top.mark)
  /\ AllAgree("loop", FallEdge(Top.mark), Top.base)
  /\ at' = Place(at, Top.exit)
  /\ into' = [into EXCEPT ![Top.head] = @ \cup FallEdge(Top.mark)]
  /\ flag' = Outside(flag, Top.mark)
  /\ AllAgree("loop", into[Top.exit], flag')
  /\ CutScope
  /\ ctl' = Pop
  /\ term' = "open"
  /\ UNCHANGED <<phase, stmts>>

\* compileBreak and compileContinue, with or without a loop label.
Break(k) ==
  /\ Stmt /\ k \in DOMAIN ctl /\ ctl[k].kind = "loop"
  /\ Emit(Jump(ctl[k].exit, Drops(ctl[k].mark)))
  /\ into' = [into EXCEPT ![ctl[k].exit] = @ \cup {Outside(flag, ctl[k].mark)}]
  /\ term' = "jump"
  /\ UNCHANGED <<phase, flag, order, ctl, at>>

Continue(k) ==
  /\ Stmt /\ k \in DOMAIN ctl /\ ctl[k].kind = "loop"
  /\ Agrees("loop", Outside(flag, ctl[k].mark), ctl[k].base)
  /\ Emit(Jump(ctl[k].head, Drops(ctl[k].mark)))
  /\ into' = [into EXCEPT ![ctl[k].head] = @ \cup {Outside(flag, ctl[k].mark)}]
  /\ term' = "jump"
  /\ UNCHANGED <<phase, flag, order, ctl, at>>

\* compileMatch and compileTailIf: the first arm; the branch goes to the next.
OpenArms ==
  /\ Open("arms")
  /\ Emit(Branch(Len(at) + 1))
  /\ NewLabels(0, 0)
  /\ NewEdges({flag}, {})
  /\ ctl' = Append(ctl, Frame("arm", 0, Len(at) + 1, Len(at) + 2))
  /\ UNCHANGED <<phase, flag, order, term>>

\* The next arm starts in whatever state the previous one left: there is no
\* snapshot.  The last arm of an exhaustive match takes no branch.
NextArm ==
  /\ TopIs("arm")
  /\ FallInto(Top.exit, Top.mark)
  /\ at' = Place(at, Top.next)
  /\ into' = [into EXCEPT ![Top.exit] = @ \cup FallEdge(Top.mark)]
  /\ flag' = Outside(flag, Top.mark)
  /\ AllAgree("arms", into[Top.next], flag')
  /\ ctl' = Append(Pop, [Top EXCEPT !.kind = "last"])
  /\ CutScope
  /\ term' = "open"
  /\ UNCHANGED <<phase, stmts>>

EndArms ==
  /\ TopIs("last")
  /\ FallInto(Top.exit, Top.mark)
  /\ at' = Place(at, Top.exit)
  /\ into' = [into EXCEPT ![Top.exit] = @ \cup FallEdge(Top.mark)]
  /\ flag' = Outside(flag, Top.mark)
  /\ AllAgree("arms", into'[Top.exit], flag')
  /\ CutScope
  /\ ctl' = Pop
  /\ term' = "open"
  /\ UNCHANGED <<phase, stmts>>

\* compileFunctionNamedWithSelf after the body: drop everything, return.
\* Mutant: a body without a value gets no return.
FinishFallsOff ==
  /\ phase = "compile"
  /\ ctl = <<>>
  /\ term' = "ret"
  /\ phase' = "ready"
  /\ UNCHANGED <<stmts, flag, order, ctl, code, at, ann, into>>

Finish ==
  /\ phase = "compile"
  /\ ctl = <<>>
  /\ IF term = "open" THEN Emit(Ret(NoVar, Drops(0)))
                      ELSE UNCHANGED <<code, ann>>
  /\ term' = "ret"
  /\ phase' = "ready"
  /\ UNCHANGED <<stmts, flag, order, ctl, at, into>>

-----------------------------------------------------------------------------
ElabInit ==
  /\ phase = "compile"
  /\ stmts = 0
  /\ flag = [v \in Vars |-> IF v \in Params THEN "param" ELSE "out"]
  /\ order = <<>>
  /\ ctl = <<>>
  /\ term = "open"
  /\ code = <<>>
  /\ at = <<>>
  /\ ann = <<>>
  /\ into = <<>>

ElabNext ==
  \/ \E v \in Vars : LetNew(v) \/ LetLit(v) \/ AssignNew(v) \/ AssignLit(v)
  \/ \E v, u \in Vars : LetMove(v, u) \/ LetAgain(v, u) \/ AssignMove(v, u)
  \/ \E u \in Vars : UseVar(u) \/ Consume(u) \/ Discard(u) \/ UseMoved(u)
  \/ \E u \in Vars \cup {NoVar} : Return(u)
  \/ OpenBlock \/ CloseBlock
  \/ OpenIf \/ Else \/ EndIf
  \/ OpenLoop \/ OpenWhile \/ EndLoop
  \/ \E k \in 1..MaxDepth : Break(k) \/ Continue(k)
  \/ OpenArms \/ NextArm \/ EndArms
  \/ Finish

(* The compiler's state has the shape of compileContext.                     *)
ElabTypeOK ==
  /\ phase \in {"compile", "ready", "rejected"}
  /\ stmts \in 0..MaxStmts
  /\ flag \in FlagMap
  /\ order \in Seq(Vars)
  /\ ctl \in Seq(FrameSet)
  /\ term \in {"open", "jump", "ret"}
  /\ code \in Seq(Inst)
  /\ at \in Seq(Nat)
  /\ ann \in Seq(FlagMap)
  /\ into \in Seq(SUBSET FlagMap)
=============================================================================
