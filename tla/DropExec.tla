------------------------------ MODULE DropExec ------------------------------
(***************************************************************************)
(* Execution of one compiled function: the IR that DropElab has emitted is *)
(* run, every branch taken either way, on a heap of values.  A value has   *)
(* at most one owner, a variable; releasing a value that the releasing     *)
(* variable does not own is a double drop, reading one is a stale use.     *)
(* Releasing a string literal does nothing: the runtime's string_free      *)
(* ignores a pointer it did not allocate.  (So it does with a string freed *)
(* twice, unless the address was given out again; an array is freed twice.)*)
(***************************************************************************)
EXTENDS DropElab

CONSTANTS
  Cells,    \* heap values
  Static,   \* what a variable holds when it was given a string literal
  Unset,    \* what a variable holds before its first store
  Released, \* owner of a value that was freed or handed over
  Lost      \* owner of a live value no variable will release any more

ASSUME ExecAssumption ==
  /\ IsFiniteSet(Cells)
  /\ Cardinality(Cells) > Cardinality(Vars)
  /\ Static \notin Cells /\ Unset \notin Cells /\ Static # Unset
  /\ Released \notin Vars /\ Lost \notin Vars /\ Released # Lost

VARIABLES
  pc,     \* index of the next instruction
  env,    \* the storage slots of the variables
  owner,  \* who owns each value
  status  \* "running", "returned", or stopped by a "double" drop or a "stale" use

execVars == <<pc, env, owner, status>>
vars == <<elabVars, execVars>>

-----------------------------------------------------------------------------
OwnsIn(own, e, v) == e[v] \in Cells /\ own[e[v]] = v
Owns(v) == OwnsIn(owner, env, v)
\* May v be read, or released?  Literals live in static data.
Valid(v) == Owns(v) \/ env[v] = Static

\* A value nobody owns and no slot points to (the slots that still point to
\* a released value are the ones a double drop would come from).
Fresh == {c \in Cells : owner[c] \notin Vars /\ \A v \in Vars : env[v] # c}

Running == phase = "ready" /\ status = "running" /\ pc \in DOMAIN code
Cur == code[pc]
At(op) == Running /\ Cur.op = op

Fail(kind) == status' = kind /\ UNCHANGED <<pc, env, owner>>
Goto(p) == pc' = p /\ status' = status
Next1 == Goto(pc + 1)

\* The old value of an overwritten variable: dropped, or forgotten.
Old(v) == IF Owns(v) THEN {env[v]} ELSE {}
Overwritten(i) == IF i.old THEN Released ELSE Lost

StepNew(c) ==
  /\ At("new") /\ c \in Fresh
  /\ IF Cur.old /\ ~Valid(Cur.v)
       THEN Fail("double")
       ELSE /\ env' = [env EXCEPT ![Cur.v] = c]
            /\ owner' = [d \in Cells |-> IF d = c THEN Cur.v
                                         ELSE IF d \in Old(Cur.v)
                                                THEN Overwritten(Cur)
                                                ELSE owner[d]]
            /\ Next1

StepLit ==
  /\ At("lit")
  /\ IF Cur.old /\ ~Valid(Cur.v)
       THEN Fail("double")
       ELSE /\ env' = [env EXCEPT ![Cur.v] = Static]
            /\ owner' = [d \in Cells |-> IF d \in Old(Cur.v)
                                           THEN Overwritten(Cur)
                                           ELSE owner[d]]
            /\ Next1

\* The source slot keeps its pointer: moving does not clear it.
StepMov ==
  /\ At("mov")
  /\ IF ~Valid(Cur.src) THEN Fail("stale")
     ELSE IF Cur.old /\ ~Valid(Cur.v) THEN Fail("double")
     ELSE /\ env' = [env EXCEPT ![Cur.v] = env[Cur.src]]
          /\ owner' = [d \in Cells |-> IF d = env[Cur.src] THEN Cur.v
                                       ELSE IF d \in Old(Cur.v)
                                              THEN Overwritten(Cur)
                                              ELSE owner[d]]
          /\ Next1

StepUse ==
  /\ At("use")
  /\ IF Valid(Cur.v) THEN Next1 /\ UNCHANGED <<env, owner>> ELSE Fail("stale")

\* Handing a literal over transfers nothing.
StepGive ==
  /\ At("give")
  /\ IF Valid(Cur.v)
       THEN /\ owner' = [d \in Cells |-> IF d = env[Cur.v] THEN Released
                                         ELSE owner[d]]
            /\ Next1 /\ env' = env
       ELSE Fail("stale")

StepDrop ==
  /\ At("drop")
  /\ IF Valid(Cur.v)
       THEN /\ owner' = [d \in Cells |-> IF d = env[Cur.v] THEN Released
                                         ELSE owner[d]]
            /\ Next1 /\ env' = env
       ELSE Fail("double")

(***************************************************************************)
(* The drops at a scope end: drop calls for the variables of the list that *)
(* are in own, in order.  A second call for the same value, or a call for  *)
(* a variable whose value is gone, is a double drop.  What a local that    *)
(* leaves scope owns and is not dropped is lost.                           *)
(***************************************************************************)
Called(d) == {i \in DOMAIN d.vs : d.vs[i] \in d.own}
DropsFine(d) ==
  /\ \A i \in Called(d) : Valid(d.vs[i])
  /\ \A i, j \in Called(d) : Owns(d.vs[i]) /\ d.vs[i] = d.vs[j] => i = j
AfterDrops(d) ==
  [c \in Cells |->
     IF \E i \in DOMAIN d.vs : owner[c] = d.vs[i]
       THEN IF owner[c] \in d.own THEN Released ELSE Lost
       ELSE owner[c]]

StepLeave ==
  /\ At("leave")
  /\ IF DropsFine(Cur.d)
       THEN owner' = AfterDrops(Cur.d) /\ env' = env /\ Next1
       ELSE Fail("double")

StepBranch ==
  /\ At("br")
  /\ Next1 \/ Goto(at[Cur.to])
  /\ UNCHANGED <<env, owner>>

StepJump ==
  /\ At("jmp")
  /\ IF DropsFine(Cur.d)
       THEN owner' = AfterDrops(Cur.d) /\ env' = env /\ Goto(at[Cur.to])
       ELSE Fail("double")

\* The returned value goes to the caller before the drops run.
StepRet ==
  /\ At("ret")
  /\ IF Cur.v # NoVar /\ ~Valid(Cur.v) THEN Fail("stale")
     ELSE IF ~DropsFine(Cur.d) THEN Fail("double")
     ELSE /\ owner' = [c \in Cells |->
                         IF Cur.v # NoVar /\ env[Cur.v] = c THEN Released
                         ELSE AfterDrops(Cur.d)[c]]
          /\ status' = "returned"
          /\ UNCHANGED <<pc, env>>

-----------------------------------------------------------------------------
(* Every parameter comes with a value of its own.                           *)
ExecInit ==
  /\ pc = 1
  /\ env \in [Vars -> Cells \cup {Unset}]
  /\ \A v \in Vars : env[v] \in Cells <=> v \in Params
  /\ \A u, v \in Params : env[u] = env[v] => u = v
  /\ owner = [c \in Cells |-> IF \E v \in Params : env[v] = c
                                THEN CHOOSE v \in Params : env[v] = c
                                ELSE Released]
  /\ status = "running"

ExecStep ==
  \/ \E c \in Cells : StepNew(c)
  \/ StepLit \/ StepMov \/ StepUse \/ StepGive \/ StepDrop
  \/ StepLeave \/ StepBranch \/ StepJump \/ StepRet

Init == ElabInit /\ ExecInit
Next == \/ ElabNext /\ UNCHANGED execVars
        \/ ExecStep /\ UNCHANGED elabVars

Spec == Init /\ [][Next]_vars

-----------------------------------------------------------------------------
(* Properties                                                               *)

ExecTypeOK ==
  /\ pc \in Nat
  /\ env \in [Vars -> Cells \cup {Static, Unset}]
  /\ owner \in [Cells -> Vars \cup {Released, Lost}]
  /\ status \in {"running", "returned", "double", "stale"}

(* Every variable of the compiler and of the machine keeps its type.         *)
TypeOK == ElabTypeOK /\ ExecTypeOK

(* Memory safety of the emitted code: no path of it drops a value that was   *)
(* dropped, moved or handed over before (drop.go emitDropForVar and its      *)
(* callers), however the branches fall.                                      *)
NoDoubleDrop == status # "double"

(* No path reads a variable whose value is gone: "use of moved value" is     *)
(* reported for every program that could (expr.go, compileExpr).             *)
NoStaleUse == status # "stale"

(* Every block label that execution reaches is placed and every block ends   *)
(* in a terminator: control never runs off the code.                         *)
StaysInCode == phase = "ready" /\ status = "running" => pc \in DOMAIN code

(* The state the compiler had when it emitted an instruction is true of the  *)
(* heap whenever that instruction is executed: own and param variables own a *)
(* live value, lent ones hold a literal or a value that nobody will drop.    *)
SoundIn(own, e, f) ==
  \A v \in Vars : /\ f[v] \in {"own", "param"} => OwnsIn(own, e, v)
                  /\ f[v] = "lent" => OwnsIn(own, e, v) \/ e[v] = Static
FlagsSound ==
  phase = "ready" /\ status = "running" /\ pc \in DOMAIN code
    => SoundIn(owner, env, ann[pc])

(* Nothing leaks: no live value is overwritten or leaves scope without its   *)
(* drop, and when the function has returned no local owns anything.          *)
NoLeak ==
  \A c \in Cells : /\ owner[c] # Lost
                   /\ status = "returned" => owner[c] \notin Vars \ Params
=============================================================================
