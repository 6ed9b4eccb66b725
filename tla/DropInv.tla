------------------------------ MODULE DropInv -------------------------------
(***************************************************************************)
(* The inductive invariant of DropExec.  While a function is compiled, the *)
(* emitted code with its history of ownership states (ann, into) is        *)
(* consistent: every instruction is legal in the state it was emitted in,  *)
(* and along every edge of the control flow the state an instruction       *)
(* leaves behind claims at least what the state at the edge's end claims.  *)
(* While the code runs, the state recorded at pc is true of the heap.      *)
(* LeakInv is the converse, for programs whose meeting states are equal.   *)
(***************************************************************************)
EXTENDS DropExec

\* The programs the compiler handles safely: no name is declared twice in a
\* scope; and if they loop or match, their edges agree on ownership.
Disciplined ==
  /\ "redeclare" \notin Shapes
  /\ "loop" \in Shapes => Discipline \cap {"loop", "exact"} # {}
  /\ "arms" \in Shapes => Discipline \cap {"arms", "exact"} # {}

\* The labels in use exist.
FrameKnown(F) ==
  /\ F.kind # "block" => F.exit \in DOMAIN at
  /\ F.kind \in {"then", "arm"} => F.next \in DOMAIN at
  /\ F.kind = "loop" => F.head \in DOMAIN at
LabelsKnown ==
  /\ Len(into) = Len(at)
  /\ \A i \in DOMAIN code : code[i].op \in {"br", "jmp"} => code[i].to \in DOMAIN at
  /\ \A k \in DOMAIN ctl : FrameKnown(ctl[k])

\* Scopes are nested like the constructs that opened them.
ScopesNest ==
  \A k \in DOMAIN ctl : /\ ctl[k].mark <= Len(order)
                        /\ \A j \in 1..k : ctl[j].mark <= ctl[k].mark

TypeInv == TypeOK /\ LabelsKnown /\ ScopesNest

StartFlag == [v \in Vars |-> IF v \in Params THEN "param" ELSE "out"]

\* The compiler's state in front of instruction j (behind the last: now).
StateAt(j) == IF j <= Len(code) THEN ann[j] ELSE flag

LegalDrops(d, f) ==
  /\ \A i \in DOMAIN d.vs : d.vs[i] \in d.own => f[d.vs[i]] = "own"
  /\ \A i, j \in DOMAIN d.vs : d.vs[i] = d.vs[j] => i = j
OutOf(d, f) ==
  [v \in Vars |-> IF \E i \in DOMAIN d.vs : d.vs[i] = v THEN "out" ELSE f[v]]

\* What state f must allow for instruction c.
Legal(c, f) ==
  CASE c.op \in {"new", "lit"} -> c.old => f[c.v] = "own"
    [] c.op = "mov" -> /\ f[c.src] \in {"own", "param", "lent"}
                       /\ c.old => c.v # c.src /\ f[c.v] = "own"
    [] c.op \in {"use", "give"} -> f[c.v] \in {"own", "param", "lent"}
    [] c.op = "drop" -> f[c.v] \in {"own", "param"}
    [] c.op \in {"leave", "jmp"} -> LegalDrops(c.d, f)
    [] c.op = "br" -> TRUE
    [] c.op = "ret" -> /\ LegalDrops(c.d, f)
                       /\ c.v # NoVar => f[c.v] \in {"own", "param", "lent"}
                       /\ c.v \notin c.d.own

\* The state behind instruction c.
Post(c, f) ==
  CASE c.op = "new" -> [f EXCEPT ![c.v] = "own"]
    [] c.op = "lit" -> [f EXCEPT ![c.v] = "lent"]
    [] c.op = "mov" -> [f EXCEPT ![c.src] = "moved",
                          ![c.v] = IF f[c.src] = "lent" THEN "lent" ELSE "own"]
    [] c.op \in {"give", "drop"} -> [f EXCEPT ![c.v] = "moved"]
    [] c.op \in {"leave", "jmp"} -> OutOf(c.d, f)
    [] OTHER -> f

FallsTo(i) == /\ i < Len(code) \/ (phase # "ready" /\ term = "open")
              /\ Below(Post(code[i], ann[i]), StateAt(i + 1))
JumpsTo(i) == Post(code[i], ann[i]) \in into[code[i].to]

InstOK(i) == /\ Legal(code[i], ann[i])
             /\ code[i].op \notin {"jmp", "ret"} => FallsTo(i)
             /\ code[i].op \in {"jmp", "br"} => JumpsTo(i)

CodeInv ==
  /\ Len(ann) = Len(code)
  /\ StateAt(1) = StartFlag
  /\ \A i \in DOMAIN code : InstOK(i)
  /\ term # "open" => Len(code) > 0 /\ code[Len(code)].op \in {"jmp", "ret"}
  /\ phase = "ready" => term # "open" /\ ctl = <<>>

\* The labels an open construct has yet to place.
Branching(F) == F.kind \in {"then", "arm"}
Labels(F) == (IF F.kind = "block" THEN {} ELSE {F.exit})
               \cup (IF Branching(F) THEN {F.next} ELSE {})
\* A placed label: every state that enters the block claims what it claims.
LabelInv ==
  \A l \in DOMAIN at :
    /\ at[l] <= Len(code) + 1
    /\ at[l] = Len(code) + 1 => term = "open"
    /\ at[l] # 0 => \A f \in into[l] : Below(f, StateAt(at[l]))
    /\ at[l] = 0 => \E k \in DOMAIN ctl : l \in Labels(ctl[k])

\* The scope stack: variables are declared once and are in scope.
InScope(f, n) == \A i \in 1..n : f[order[i]] # "out"
ScopeInv ==
  /\ \A i, j \in DOMAIN order : order[i] = order[j] => i = j
  /\ InScope(flag, Len(order))
  /\ \A k \in DOMAIN ctl : /\ InScope(ctl[k].base, ctl[k].mark)
                           /\ InScope(ctl[k].save, ctl[k].mark)

\* The open constructs: whose labels are whose, and which states are on
\* their way to them.
FrameOK(F) ==
  /\ F.live => F.kind = "else"
  /\ F.kind # "block" => at[F.exit] = 0
  /\ F.kind \in {"then", "else"} =>
       into[F.exit] \subseteq IF F.kind = "else" /\ ~F.ret THEN {F.save} ELSE {}
  /\ Branching(F) => /\ F.next # F.exit
                     /\ at[F.next] = 0
                     /\ into[F.next] = {F.base}
  /\ F.kind = "loop" => /\ "loop" \in Shapes
                        /\ at[F.head] # 0 /\ StateAt(at[F.head]) = F.base
  /\ F.kind \in {"arm", "last"} => "arms" \in Shapes

FrameInv ==
  /\ \A k \in DOMAIN ctl : FrameOK(ctl[k])
  /\ \A j, k \in DOMAIN ctl :
       j # k => Labels(ctl[j]) \cap Labels(ctl[k]) = {}

CompilerInv == CodeInv /\ LabelInv /\ ScopeInv /\ FrameInv

\* Execution: before it starts the parameters own their values; while it
\* runs the recorded state is true, and it has not failed.
ExecInv ==
  /\ phase # "ready" => /\ pc = 1 /\ status = "running"
                        /\ SoundIn(owner, env, StartFlag)
  /\ phase = "ready" /\ status = "running" =>
       pc \in DOMAIN code /\ SoundIn(owner, env, ann[pc])
  /\ status \in {"running", "returned"}

(* Every emitted instruction is legal in the state it was emitted in, every  *)
(* edge leads to a state that claims no more than the one before it, and the *)
(* state recorded at pc is true of the heap.                                 *)
IInv == TypeInv /\ CompilerInv /\ ExecInv
-----------------------------------------------------------------------------
(***************************************************************************)
(* Leaks.  The invariant above says that a state claims no more than what  *)
(* is true; against leaks it must also claim all that is.  That needs the  *)
(* converse on every edge, which programs have in which the states that    *)
(* meet are equal.                                                         *)
(***************************************************************************)
Exact == "redeclare" \notin Shapes /\ "exact" \in Discipline

\* The variables that own a value if f is true, and will see to it.
Claims(f) == {v \in Vars : f[v] \in {"own", "param"}}
Retains(f, g) == Claims(f) \subseteq Claims(g)

\* Instruction c forgets nothing that f claims.
CompleteDrops(d, f, kept) ==
  \A i \in DOMAIN d.vs : d.vs[i] \in Claims(f) => d.vs[i] \in d.own \cup kept
Complete(c, f) ==
  CASE c.op \in {"new", "lit"} -> c.old \/ c.v \notin Claims(f)
    [] c.op = "mov" -> c.old \/ c.v = c.src \/ c.v \notin Claims(f)
    [] c.op \in {"leave", "jmp"} -> CompleteDrops(c.d, f, {})
    [] c.op = "ret" -> /\ CompleteDrops(c.d, f, {c.v})
                       /\ \A v \in Claims(f) \ Params :
                            v = c.v \/ \E i \in DOMAIN c.d.vs : c.d.vs[i] = v
    [] OTHER -> TRUE

CodeExact ==
  \A i \in DOMAIN code :
    /\ Complete(code[i], ann[i])
    /\ code[i].op \notin {"jmp", "ret"} =>
         Retains(Post(code[i], ann[i]), StateAt(i + 1))
LabelExact ==
  \A l \in DOMAIN at :
    at[l] # 0 => \A f \in into[l] : Retains(f, StateAt(at[l]))

\* What is in scope is on the scope stack, or a parameter.
Full(o, f, n) ==
  \A v \in Vars :
    /\ v \in Params => f[v] \in {"param", "moved"}
    /\ v \notin Params => f[v] # "param"
    /\ v \notin Params /\ f[v] # "out" => \E i \in 1..n : o[i] = v
ScopeFull ==
  /\ \A i \in DOMAIN order : order[i] \notin Params
  /\ Full(order, flag, Len(order))
  /\ \A k \in DOMAIN ctl : /\ Full(order, ctl[k].base, ctl[k].mark)
                           /\ Full(order, ctl[k].save, ctl[k].mark)

\* Every live value has an owner that is known to have it.
AllOwned(own, e, f) ==
  \A c \in Cells : /\ own[c] # Lost
                   /\ own[c] \in Vars => own[c] \in Claims(f) /\ e[own[c]] = c
OwnersKnown ==
  /\ phase # "ready" => AllOwned(owner, env, StartFlag)
  /\ phase = "ready" /\ status = "running" => AllOwned(owner, env, ann[pc])

(* The emitted code forgets nothing that the compiler's state claims, every  *)
(* edge keeps the claims, every variable that claims a value is in a scope   *)
(* that will drop it, and every live value is claimed where the code runs.   *)
LeakInv == CodeExact /\ LabelExact /\ ScopeFull /\ OwnersKnown /\ NoLeak
=============================================================================
