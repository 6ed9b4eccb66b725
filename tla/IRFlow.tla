------------------------------- MODULE IRFlow --------------------------------
(***************************************************************************)
(* dast ir-opt (cmd/dast/main.go) from block to block: a function is       *)
(* validated (ir.go), its calls are inlined, its known branches folded and *)
(* its unreachable blocks removed (opt.go), it is validated again, and     *)
(* then it runs side by side with the function it was made from            *)
(* (interp/runtime.go).  What optimizeBlock knows inside one block is      *)
(* IRBlock's matter; here a condition is known if it is a constant.        *)
(*                                                                         *)
(* The program is a function that calls one other, of a single block, and  *)
(* any number of functions that are only seen from outside ("ext").        *)
(* "deep" stands for the instructions that remapInstr has no case for: a   *)
(* call of a closure, the address of a field or of an element.  A name     *)
(* carries the number of the call it was inlined for, 0 at first.          *)
(* Values: 0 is what a temporary holds at first; an operator makes one of  *)
(* 1 .. 3 of its operands.                                                 *)
(***************************************************************************)
EXTENDS Integers, SequencesExt

CONSTANTS
  Programs,  \* [blocks, params, temps, callee]; blocks are numbered in their order
  Inputs     \* what the function is called with

VARIABLES
  source,     \* the program as it was read
  blocks,     \* the function's blocks, by label: [code, term]
  temps,      \* its TempCount
  stage,      \* "read", "flow", "valid", "rejected", "optimized", "run" or "ended"
  optimized,  \* Optimize is behind
  outs,       \* outSets
  turn,       \* the block that the round of the validation comes to
  changed,    \* an outSet has changed in this round
  frames,     \* <<of the source, of the blocks>>: [temps, vars, out, bad, at]
  result      \* <<of the source, of the blocks>>: what is returned

flow == <<outs, turn, changed>>
run == <<frames, result>>
irVars == <<source, blocks, temps, stage, optimized, flow, run>>

Temp(n) == <<"temp", n>>
Const(v) == <<"const", v>>
NoValue == <<"none", 0>>
IsTemp(a) == a[1] = "temp"
NoDst == -1
Entry == 1

Elements(s) == {s[i] : i \in DOMAIN s}
IsSequence(s) == s \in Seq(Elements(s))

\* What the compiler hands over: lists of instructions, in which no name has been numbered yet and
\* a call has an argument for each parameter, which the types were checked for; a branch is on a
\* temporary or a constant.
Readable(code, f) ==
  /\ IsSequence(code)
  /\ \A c \in Elements(code) :
       /\ DOMAIN c = {"op", "dst", "name", "args"} /\ c.name = <<c.name[1], 0>>
       /\ c.op = "call" => DOMAIN c.args = DOMAIN f.params
ProgramsAssumption ==
  \A p \in Programs :
    /\ IsSequence(p.blocks) /\ p.blocks # <<>> /\ p.temps \in Nat
    /\ \A b \in Elements(p.blocks) :
         Readable(b.code, p.callee) /\ (b.term.op = "branch" => b.term.cond[1] \in {"temp", "const"})
    /\ Readable(p.callee.code, p.callee)
    /\ IsSequence(p.callee.params) /\ p.callee.temps \in Nat
    /\ p.callee.ret = <<p.callee.ret[1], p.callee.ret[2]>>
ASSUME ProgramsAssumption

----------------------------------------------------------------------------
(* Validation.                                                             *)

Targets(t) == CASE t.op = "jump" -> {t.to} [] t.op = "branch" -> {t.then, t.else} [] OTHER -> {}

\* The blocks that are reached from the entry along blocks in Through: those that are in every
\* set of blocks which has the entry and which no such block leads out of.
Closed(bs, Through, S) == Entry \in S /\ \A l \in S \cap Through : Targets(bs[l].term) \cap DOMAIN bs \subseteq S
Reached(bs, Through) == {l \in DOMAIN bs : \A S \in SUBSET DOMAIN bs : Closed(bs, Through, S) => l \in S}
ReachableBlocks(bs) == Reached(bs, DOMAIN bs)

Stores(code) == {c.name : c \in {d \in Elements(code) : d.op = "store"}}
Names(params) == {<<p, 0>> : p \in Elements(params)}
Declared == Names(source.params) \cup UNION {Stores(blocks[l].code) : l \in DOMAIN blocks}

\* validateInstr and validateBlock.
ValidTemp(a, n) == IsTemp(a) => a[2] \in 0 .. n - 1
ValidInstr(c, n, names) ==
  /\ c.dst \in 0 .. n - 1 \/ (c.dst = NoDst /\ c.op \in {"store", "call", "ext", "deep"})
  /\ \A a \in Elements(c.args) : ValidTemp(a, n)
  /\ c.op = "load" => c.name \in names
ValidBlock(b) ==
  /\ \A c \in Elements(b.code) : ValidInstr(c, temps, Declared)
  /\ Targets(b.term) \subseteq DOMAIN blocks
  /\ b.term.op = "branch" => ValidTemp(b.term.cond, temps)
  /\ b.term.op = "return" => ValidTemp(b.term.val, temps)

\* A load in front of any store of its name, where the names in assigned have been stored.
Misuses(code, assigned) ==
  \E i \in DOMAIN code : code[i].op = "load" /\ code[i].name \notin assigned \cup Stores(SubSeq(code, 1, i - 1))

\* collectDeclaredVars: no parameter twice.
ValidParams(params) == \A i, j \in DOMAIN params : params[i] = params[j] => i = j

\* The callee is validated in the same way; it has one block.
ValidCallee(f) ==
  /\ ValidParams(f.params)
  /\ \A c \in Elements(f.code) : ValidInstr(c, f.temps, Names(f.params) \cup Stores(f.code))
  /\ ValidTemp(f.ret, f.temps)
  /\ ~Misuses(f.code, Names(f.params))

\* A bug that FlowExact finds: the sets start empty.
StartSetsEmpty == [l \in DOMAIN blocks |-> {}]

\* The beginning of validateDefiniteAssignment: everything holds everywhere.
StartSets == [l \in DOMAIN blocks |-> Declared]

Check ==
  /\ stage \in {"read", "optimized"}
  /\ IF /\ ValidParams(source.params)
        /\ \A l \in DOMAIN blocks : ValidBlock(blocks[l])
        /\ ValidCallee(source.callee)
     THEN stage' = "flow" /\ outs' = StartSets /\ turn' = Entry /\ changed' = FALSE
     ELSE stage' = "rejected" /\ outs' = <<>> /\ UNCHANGED <<turn, changed>>
  /\ UNCHANGED <<source, blocks, temps, optimized, run>>

Predecessors(l) == {k \in ReachableBlocks(blocks) : l \in Targets(blocks[k].term)}

\* A bug that ValidatedRuns finds: one way in is enough.
InSetOfAny(l) ==
  IF l = Entry THEN Names(source.params) ELSE UNION {outs[k] : k \in Predecessors(l)}

\* What has been stored on every way into a block.
InSet(l) ==
  IF l = Entry THEN Names(source.params)
  ELSE {n \in Declared : Predecessors(l) # {} /\ \A k \in Predecessors(l) : n \in outs[k]}
OutSet(l) == InSet(l) \cup Stores(blocks[l].code)

\* One block of a round; blocks that are not reached, and those that have been removed, are passed
\* over.
RoundEnd == Len(source.blocks) + 1
\* A bug that ValidateEnds finds: a set is compared with what it was at first.
VisitRestless ==
  /\ stage = "flow" /\ turn # RoundEnd
  /\ turn' = turn + 1
  /\ outs' = IF turn \in ReachableBlocks(blocks) THEN [outs EXCEPT ![turn] = OutSet(turn)] ELSE outs
  /\ changed' = (changed \/ outs' # StartSets)
  /\ UNCHANGED <<source, blocks, temps, stage, optimized, run>>

Visit ==
  /\ stage = "flow" /\ turn # RoundEnd
  /\ turn' = turn + 1
  /\ outs' = IF turn \in ReachableBlocks(blocks) THEN [outs EXCEPT ![turn] = OutSet(turn)] ELSE outs
  /\ changed' = (changed \/ outs' # outs)
  /\ UNCHANGED <<source, blocks, temps, stage, optimized, run>>

Again ==
  /\ stage = "flow" /\ turn = RoundEnd /\ changed
  /\ turn' = Entry /\ changed' = FALSE
  /\ UNCHANGED <<source, blocks, temps, stage, optimized, outs, run>>

\* The sets are settled: every load must lie behind a store.
Settle ==
  /\ stage = "flow" /\ turn = RoundEnd /\ ~changed
  /\ stage' = IF \E l \in ReachableBlocks(blocks) : Misuses(blocks[l].code, InSet(l)) THEN "rejected" ELSE "valid"
  /\ UNCHANGED <<source, blocks, temps, optimized, flow, run>>

----------------------------------------------------------------------------
(* Optimize.                                                               *)

\* collectInlineCandidates and inlineCalls: a block without calls; a constant is not inlined for
\* its value.
Candidate(f) == \A c \in Elements(f.code) : c.op \notin {"call", "ext"}
Inlinable(c) ==
  /\ c.op = "call" /\ Candidate(source.callee)
  /\ c.dst # NoDst => IsTemp(source.callee.ret)

\* A bug that SameMeaning finds: the callee keeps its numbers.
TempMapKept(c, f, next) ==
  [t \in 0 .. f.temps - 1 |-> IF f.ret = Temp(t) /\ c.dst # NoDst THEN c.dst ELSE t]

\* tempMap: the value that is returned goes where the call wanted it, the others to new ones,
\* from next on.
TempMap(c, f, next) ==
  [t \in 0 .. f.temps - 1 |->
     IF f.ret = Temp(t) /\ c.dst # NoDst THEN c.dst
     ELSE next + Cardinality({u \in 0 .. t - 1 : ~(f.ret = Temp(u) /\ c.dst # NoDst)})]
Used(c, f) == IF c.dst # NoDst /\ IsTemp(f.ret) THEN f.temps - 1 ELSE f.temps

\* remapInstr; mapVar puts the number of the call into the name.
Remap(c, map, id) ==
  LET Moved(a) == IF IsTemp(a) THEN Temp(map[a[2]]) ELSE a
  IN  IF c.op = "deep" THEN c
      ELSE [c EXCEPT !.dst = IF @ = NoDst THEN @ ELSE map[@],
                     !.args = [i \in DOMAIN @ |-> Moved(@[i])],
                     !.name = IF c.op \in {"load", "store"} THEN <<@[1], id>> ELSE @]

\* A bug that OptimizedValid finds: the parameter's name is not renamed.
StoreArgPlain(name, arg, id) == [op |-> "store", dst |-> NoDst, name |-> <<name, 0>>, args |-> <<arg>>]

StoreArg(name, arg, id) == [op |-> "store", dst |-> NoDst, name |-> <<name, id>>, args |-> <<arg>>]

\* inlineCall
Inlined(c, next, id) ==
  LET f == source.callee
      map == TempMap(c, f, next)
  IN  [i \in DOMAIN f.params |-> StoreArg(f.params[i], c.args[i], id)]
        \o [i \in DOMAIN f.code |-> Remap(f.code[i], map, id)]

\* inlineCalls, instruction by instruction: [code, next, id].
InlineInstr(acc, c) ==
  IF Inlinable(c)
  THEN [code |-> acc.code \o Inlined(c, acc.next, acc.id),
        next |-> acc.next + Used(c, source.callee), id |-> acc.id + 1]
  ELSE [acc EXCEPT !.code = Append(@, c)]
InlineUpTo(code, next, id) ==
  LET upTo[n \in 0 .. Len(code)] ==
        IF n = 0 THEN [code |-> <<>>, next |-> next, id |-> id] ELSE InlineInstr(upTo[n - 1], code[n])
  IN  upTo
InlineBlock(code, next, id) == InlineUpTo(code, next, id)[Len(code)]

\* All blocks, in their order: [codes, next, id].
NextBlock(acc, b) ==
  LET done == InlineBlock(b.code, acc.next, acc.id)
  IN  [codes |-> Append(acc.codes, done.code), next |-> done.next, id |-> done.id]
InlineBlocks ==
  LET upTo[n \in 0 .. Len(source.blocks)] ==
        IF n = 0 THEN [codes |-> <<>>, next |-> temps, id |-> 1] ELSE NextBlock(upTo[n - 1], source.blocks[n])
  IN  upTo
InlineCalls == InlineBlocks[Len(source.blocks)]

\* optimizeBlock on a branch whose condition is known.
Holds(v) == v % 2 = 1
Fold(t) ==
  IF t.op = "branch" /\ ~IsTemp(t.cond)
  THEN [op |-> "jump", to |-> IF Holds(t.cond[2]) THEN t.then ELSE t.else]
  ELSE t

PruneUnreachable(bs) == Restrict(bs, ReachableBlocks(bs))

Optimize ==
  /\ stage = "valid" /\ ~optimized
  /\ LET inl == InlineCalls
     IN  /\ blocks' = PruneUnreachable(
                        [l \in DOMAIN blocks |-> [code |-> inl.codes[l], term |-> Fold(blocks[l].term)]])
         /\ temps' = inl.next
  /\ stage' = "optimized" /\ optimized' = TRUE
  /\ UNCHANGED <<source, flow, run>>

----------------------------------------------------------------------------
(* The interpreter, on both programs at once.                              *)

ValueOf(fr, a) == CASE a[1] = "const" -> a[2] [] IsTemp(a) -> fr.temps[a[2]] [] OTHER -> 0
Values(fr, args) == [i \in DOMAIN args |-> ValueOf(fr, args[i])]
Mix(vs) == IF 0 \in Elements(vs) THEN 0 ELSE 1 + FoldLeft(LAMBDA x, y : (2 * x + y) % 3, 0, vs)

SetTemp(fr, n, v) == IF n = NoDst THEN fr ELSE [fr EXCEPT !.temps[n] = v]
WithVar(f, n, v) == [x \in DOMAIN f \cup {n} |-> IF x = n THEN v ELSE f[x]]

\* execInstr, but for calls of the one function that is seen.
Simple(fr, c) ==
  LET vs == Values(fr, c.args)
  IN  CASE c.op = "store" -> [fr EXCEPT !.vars = WithVar(@, c.name, vs[1])]
        [] c.op = "load" ->
             IF c.name \in DOMAIN fr.vars THEN SetTemp(fr, c.dst, fr.vars[c.name]) ELSE [fr EXCEPT !.bad = TRUE]
        [] c.op = "ext" -> [SetTemp(fr, c.dst, Mix(vs)) EXCEPT !.out = Append(@, vs)]
        [] OTHER -> SetTemp(fr, c.dst, Mix(vs))

\* callFunction: the arguments are the first temporaries and the variables of the parameters.
Frame(params, n, vs) ==
  [temps |-> [t \in 0 .. n - 1 |-> IF t < Len(params) THEN vs[t + 1] ELSE 0],
   vars |-> [x \in Names(params) |-> vs[CHOOSE i \in DOMAIN params : params[i] = x[1]]],
   out |-> <<>>, bad |-> FALSE, at |-> Entry]

\* A frame before the first instruction of a block, and after each of them.
Called(fr, code) ==
  LET after[n \in 0 .. Len(code)] == IF n = 0 THEN fr ELSE Simple(after[n - 1], code[n]) IN after

ExecInstr(fr, c) ==
  IF c.op # "call" THEN Simple(fr, c)
  ELSE LET f == source.callee
           inner == Called(Frame(f.params, f.temps, Values(fr, c.args)), f.code)[Len(f.code)]
       IN  [SetTemp(fr, c.dst, ValueOf(inner, f.ret)) EXCEPT !.out = @ \o inner.out, !.bad = @ \/ inner.bad]

Start ==
  /\ stage = "valid" /\ optimized
  /\ \E vs \in [DOMAIN source.params -> Inputs] :
       frames' = <<Frame(source.params, source.temps, vs), Frame(source.params, temps, vs)>>
  /\ stage' = "run"
  /\ UNCHANGED <<source, blocks, temps, optimized, flow, result>>

\* execFrame: a block and its terminator; only the last block's calls are remembered.
Executed(fr, code) ==
  LET after[n \in 0 .. Len(code)] == IF n = 0 THEN fr ELSE ExecInstr(after[n - 1], code[n]) IN after
ExecBlock(fr, bs) == LET code == bs[fr.at].code IN Executed([fr EXCEPT !.out = <<>>], code)[Len(code)]
Goto(fr, t) ==
  CASE t.op = "jump" -> t.to
    [] t.op = "branch" -> IF Holds(ValueOf(fr, t.cond)) THEN t.then ELSE t.else
    [] OTHER -> 0
Step(fr, bs) == LET done == ExecBlock(fr, bs) IN [done EXCEPT !.at = Goto(done, bs[fr.at].term)]
Returned(fr, t) == IF t.op = "return" THEN ValueOf(fr, t.val) ELSE 0

RunBlock ==
  /\ stage = "run"
  /\ frames' = <<Step(frames[1], source.blocks), Step(frames[2], blocks)>>
  /\ result' = <<Returned(frames'[1], source.blocks[frames[1].at].term),
                 Returned(frames'[2], blocks[frames[2].at].term)>>
  /\ stage' = IF frames'[1].at = 0 \/ frames'[1].at # frames'[2].at THEN "ended" ELSE "run"
  /\ UNCHANGED <<source, blocks, temps, optimized, flow>>

----------------------------------------------------------------------------
IRInit ==
  /\ source \in Programs
  /\ blocks = source.blocks /\ temps = source.temps
  /\ stage = "read" /\ optimized = FALSE
  /\ outs = <<>> /\ turn = 0 /\ changed = FALSE
  /\ frames = <<>> /\ result = <<0, 0>>

IRNext == Check \/ Visit \/ Again \/ Settle \/ Optimize \/ Start \/ RunBlock

\* The validation is a loop of the compiler's own thread.
IRSpec == IRInit /\ [][IRNext]_irVars /\ WF_irVars(Visit \/ Again \/ Settle)

(***************************************************************************)
(* Properties                                                              *)
(***************************************************************************)

\* A validated function loads no variable that was not stored before, on any path that it takes,
\* neither as it was read nor after Optimize (validateDefiniteAssignment).
ValidatedRuns == \A i \in DOMAIN frames : ~frames[i].bad

\* Dataflow over rounds of blocks says exactly what paths say: a reachable load is rejected if and
\* only if some path from the entry comes to it without a store of its name.  A set that starts
\* too small, or rounds that end early, reject good loops or accept bad ones.
Bypassed(n) == {l \in DOMAIN blocks : n \notin Stores(blocks[l].code)}
Exposed ==
  \E n \in Declared \ Names(source.params) :
    \E l \in Reached(blocks, Bypassed(n)) :
      \E i \in DOMAIN blocks[l].code :
        /\ blocks[l].code[i].op = "load" /\ blocks[l].code[i].name = n
        /\ n \notin Stores(SubSeq(blocks[l].code, 1, i - 1))
FlowExact ==
  /\ stage = "valid" => ~Exposed
  /\ stage = "rejected" /\ outs # <<>> => Exposed

\* What Optimize makes of a valid program is valid: ir-opt's second Validate never fails.
OptimizedValid == ~(optimized /\ stage = "rejected")

\* Optimize keeps what a program does: every block calls the same functions with the same
\* arguments, branches the same way and returns the same value.
SameMeaning ==
  stage \in {"run", "ended"} =>
    frames[1].at = frames[2].at /\ frames[1].out = frames[2].out /\ result[1] = result[2]

\* The callees for which it does: they read no temporary before they have set it, not even one of
\* their arguments, and have no instruction that remapInstr leaves as it is.
SetBefore(code, n) == {code[j].dst : j \in {i \in DOMAIN code : i < n /\ code[i].op # "store"}}
ReadsWhatItSets(f) ==
  /\ \A i \in DOMAIN f.code :
       /\ f.code[i].op # "deep"
       /\ \A e \in Elements(f.code[i].args) : IsTemp(e) => e[2] \in SetBefore(f.code, i)
  /\ IsTemp(f.ret) => f.ret[2] \in SetBefore(f.code, Len(f.code) + 1)
CarefulCallees == \A p \in Programs : Candidate(p.callee) => ReadsWhatItSets(p.callee)

\* The rounds of validateDefiniteAssignment end.
ValidateEnds == stage = "flow" ~> stage \in {"valid", "rejected"}
=============================================================================
