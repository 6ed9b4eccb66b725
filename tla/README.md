# Dast, modelled

TLA+ models of the Dast compiler (`compiler/stage0`, written in Go, and what is
built with it: the self-hosted `stage2`, the language server in `stage3`, the C
runtime and the scripts), the TLC runs that check them and the theorems TLAPS
checks about them. The reference is the code; documents are quoted only where
they state a promise that a run compares with the code.

## 1. The system and its hard parts

A Dast program passes through a pipeline of components, in one process with one
thread. Each component keeps its own state; they hand over complete data
structures, so almost all of the difficulty is inside a component, in long
sequences of legal operations, or between two components that each rely on what
the other has been through. From outside, three things can happen at any moment:
the process is killed, a file is gone, a tool (`qbe`, `cc`) fails.

| Component (source) | State it keeps | Operations and interactions | What makes it correct |
|---|---|---|---|
| **Loader** (`loader/loader.go`) | packages with their dependencies, finished modules, modules being loaded, diagnostics | entry resolution, depth-first loading of packages over manifests and of modules over imports | an accepted program is closed under imports and free of cycles; a cycle is reported only if there is one; every module once |
| Lexer, parser | cursor over the tokens, names of known structs | recursive descent; `Name {` is a literal only if the struct is known | it is told every struct before it meets a literal |
| Syntax tree (`ast/`) and the walks over it | the tree, changed in place by six packages | strip prefixes, expand, rename, splice, alias, clone, compare, print (the last two not modelled) | each walk gets as far as the ones that rely on it |
| **Macro expansion** (`macroexpand/expand.go`) | the list of sites, pointers into the tree, known structs | collect sites, compile and *interpret* a wrapper for each, splice items, then statements and expressions | every site replaced once, all or nothing, texts read with all structs known |
| **Quoting** (`interp/quote.go`) | scopes of the hygiene renamer, a counter for unique names | parse a template, rename its names, replace placeholders, print | no capture in either direction |
| **Type checker** (`typecheck/`) | environments, generic instances, two worklists, names written into the tree, diagnostics | check, infer, write instance names into the tree, monomorphize | what is handed on checks again; no instance is missing |
| **Ownership and drops** (`compile/`) | scope stack with Moved / Borrowed / Param per variable, current block, loop contexts | one walk over the body emits IR with drop calls | every value is released exactly once on every path |
| Drop glue (`compile/drop.go`, `stmt.go`) | generated `drop` functions, per-iteration element variables | array, struct, enum drops; `for`; pattern payloads | an element has one owner |
| Closures (`compile/closure.go`) | captured variables | environment construction | captures agree with the owner's drops |
| **IR validation and optimizer** (`ir/ir.go`, `ir/opt.go`) | sets of assigned names per block; constants of temps and variables per block, array facts, inline candidates | definite assignment, propagate, fold, inline, prune | no unset variable is loaded; the optimized function computes what the interpreter computes |
| Interpreter (`interp/`) | frames, temporaries, variables, references | executes IR (also at compile time, for macros) | the meaning of the IR |
| QBE backend (`qbe/`) | text | per-instruction translation | local |
| C runtime (`runtime/c_runtime.c`) | allocation total, freed ranges, tracked strings and arrays | allocate, grow, free, report | the tables agree with what is live; no live string freed, none reported as freed |
| **`dast` driver** (`cmd/dast`) | which command, nested functions with temporary directories, the error on its way up | loader, expansion, checker, compiler, validation; then print, build, run, interpret | nothing left behind, status 0 only for work done, every command ends |
| stage2 (`compiler/stage2`) | as stage0, in Dast | - | same promises as stage0 |
| Language server (`stage3/lsp`) | open documents, initialized / shutdown | stdin framing loop, one handler per method | one answer per request; documents as last sent |
| Scripts (`scripts/`) | child pid, peak, killed | poll, TERM, KILL, wait | the child ends, the right status is reported |

The hard behaviours, with their lines, are the `hazards` of `PROJECT.json`. The
worst of them is ownership: Dast has neither a garbage collector nor run-time
drop flags, so whether a value is released once depends only on static
bookkeeping that one walk over the syntax tree does, while the emitted code
runs along paths that the walk never sees as paths.

## 2. Modules

| Module | What it is |
|---|---|
| `DropElab` | the compiler's ownership bookkeeping and what it emits: one action per statement and per opening, middle and end of a control construct. The environment is the program |
| `DropExec` | extends it: the emitted code runs on a heap of values with owners, every branch either way. The safety properties are here |
| `DropInv` | the inductive invariants `IInv` (safety) and `LeakInv` (leaks) in named parts |
| `DropSafety` | proofs: type correctness, `IInv` and with it the safety properties, `LeakInv` and with it that nothing leaks |
| `MCDrop` | TLC instances, symmetry |
| `IRBlock` | the block optimizer beside the interpreter: one action per IR instruction, executed and noted in the same step. The environment is the block |
| `IRBlockProofs` | proofs: the optimizer's tables are true, its jumps and unchecked accesses right |
| `MCIRBlock` | TLC instances, symmetry |
| `IRFlow` | `ir-opt` between blocks: validation, inlining, pruning, validation again, and the two functions run side by side |
| `IRFlowProofs` | proofs: the definite-assignment analysis is exact, what it accepts runs without a fault, and what `Optimize` makes of it is accepted again and does the same |
| `MCIRFlow` | TLC instances: every function of three blocks over five bodies, with careful callees and with callees as they are compiled |
| `Loader` | `loadPackage` and `loadModule` as machines with a stack of activations |
| `ImportClosure` | abstract specification: what is accepted, without order of search, files, packages |
| `LoaderProofs` | proofs: the loader implements `ImportClosure`, what it accepts is closed, its cycles are cycles |
| `MacroExpand` | collection, evaluation and placement of macro and `compile!` sites |
| `ExpandProofs` | proofs: expansion replaces everything, with all structs known, or places nothing |
| `Driver` | composes `Loader` and `MacroExpand` to the whole process from arguments to exit status |
| `DriverProofs` | proofs: no directory stays, status 0 is earned, and what holds of the parts holds in the process |
| `MCDriver` | TLC instance: a small world of directories, manifests, texts and programs |
| `Ast`, `TreeWalks` | the syntax tree as a graph of node kinds, and six walks as sets of its edges |
| `Quote` | one template under hygiene and splicing, name by name |
| `QuoteProofs` | proofs: names keep their meaning, nothing is captured, walks get as far as those that rely on them |
| `MCQuoting` | TLC instance of `Quote` and `TreeWalks`; one moves, the other stands still |
| `Mono` | type checking in its order, activation by activation of `checkExpr`, with the worklists of instances |
| `MonoProofs` | proofs: what is handed on checks again, "undefined" is never said of what exists, types of instances exist |
| `MCMono` | TLC instance: programs of a main, a generic function, a third function and two methods, in several orders |

### Correspondence of `DropElab` and `DropExec`

`flag[v]` is a variable's `VarInfo`: Moved, Borrowed and Param as the one value
that `emitDropForVar` distinguishes, and "out" outside its scope. `order` is the
scope stack flattened, `ctl` the activations of the recursive compile functions
that are open, with the labels, the scope position and the snapshot each of
them holds in Go local variables. `term` is the current block's terminator,
`code` the instructions, `at` the labels' places. `stmts`, `ann` and `into` are
history: how many statements were compiled, the state in front of every
instruction, and the states on the edges to every label.

* **Whole handlers.** `LetMove`, `AssignMove`, `Return` and so on are complete
  statements: value, moves, drop of the old value, store, flags. `Else` is all
  that `compileIf` does between its two blocks (end of the first scope with its
  drops, jump, captured state, restored snapshot), `EndIf` all that follows.
* **Snapshots are not constants.** `restoreScopes` makes the snapshot itself the scope
  stack, so what the else block moves is moved in the snapshot too: an if both of whose branches
  return goes on in the state that the else block left, not in the one in front of the if. A frame
  is `live` while the scope stack is its snapshot; when a further if inside the else block
  installs its own, the outer snapshot keeps what it holds then (`Abandoned`).
* **What the compiler does not do** is modelled as it is: `EndLoop` merges
  nothing into the loop head, `NextArm` starts from what the previous arm
  left, `EndIf` or-s Moved and Borrowed of the branches that do not return (code behind an
  if that has none is compiled all the same, in the state of the snapshot), `LetAgain` overwrites a scope entry and
  lists its name twice.
* **Abstracted.** Names are resolved (a variable is the `VarInfo` a name resolves
  to); every variable has a droppable type; a value is a heap cell with an
  owner; a literal is the value `Static`, whose release does nothing, because
  `dast_string_free` ignores pointers it does not track; expressions appear as
  what they do to ownership: produce a value, read, move, lend.
* **A double drop** here is the release of a value by a variable that does not
  own it. At run time such a call frees an array twice; a string freed twice is
  ignored unless its address was given out again, and then somebody else's
  string is freed.

### Which programs `DropElab` compiles

The compiler accepts programs for which its code is wrong (findings below), so
the safety theorems are about a class of programs, given by the constants
`Shapes` and `Discipline` and named `Disciplined`: no name is declared twice in
one scope, and on the edges into a loop head, behind a loop, and between and
behind match arms, the state that arrives grants what the compiler goes on
with. Nothing at all is assumed of blocks, ifs, returns, breaks in ifs. The
stronger "exact" (equal states on all edges) is what absence of leaks needs.
An edge that breaks the discipline is not taken, i.e. that program is not
looked at; `drop_loop` looks at loops without it, and with `Shapes = {"match"}` the
same configuration looks at match arms.

### Correspondence of `IRBlock`

`temps`, `vars` and `heap` are the interpreter's frame and the objects its values
point to. `consts` and `varConsts` are the maps of the same names in
`optimizeBlock`, `lens` is `arrayLens` restricted to `arraySafe`. `seen` is
history (a temporary is defined once and not behind a use, as the compiler
numbers them), `access` and `out` keep the last unchecked access and what became
of the branch.

The optimizer passes the block once, in order, and changes no instruction so
that it computes something else; it can therefore run in step with the
interpreter, and its claims can be compared with the state they are about. One
thing in it looks ahead: `scanArraySafety` decides before the walk which array
literals are used for nothing but indexing. The model makes that choice when the
array is made (`safe` in `MakeArray`) and then allows only blocks that live up to
it (`Untracked` in the instructions that `instrTemps` knows).

* **Abstracted.** An object is its length, if it is an array, and the set of
  variables and objects it may hold; which element holds which is not kept, a
  read may give any of them or any literal, and what is overwritten still counts
  as held. A callee (a function, a builtin such as `push` and `pop`, a closure) may
  change whatever it can reach from its arguments and return any of it
  (`CalleeEffect`); what it allocates itself is not looked at. A runtime error ends
  the run: no step.
* **Kept.** Integers have a width and wrap; the interpreter's unsigned view of them
  and the optimizer's lack of one; references to variables, and to fields and
  elements (with the variable that `fieldRef.store` overwrites on the way);
  arrays and structs shared by pointer.
* **Left out.** Strings (folded like booleans), enums, floats, `*`, `%`, `!=`,
  `<=`, `>`, `>=`, `||` (folded as the operators shown are), bitwise operators (never
  folded), references to a part of a part.
* **Careful.** With `Careful = TRUE` the environment writes only blocks in which
  tracked arrays are not put into arrays and not given to closures, and no closure
  is called that can reach a variable of known value. Without it the claims are
  false: findings 2 and 3.

### Correspondence of `IRFlow`

`source` is the function as it was read, `blocks` what it is now; `outs`, `turn` and
`changed` are `outSets`, the block of the inner loop and the flag of the outer loop
of `validateDefiniteAssignment`. `Check` is the part of `Validate` in front of it,
`Visit` one block of a round, `Again` and `Settle` the two ways out of a round,
`Optimize` all of `ir.Optimize` on this function, and `RunBlock` one block of
`execFrame` in each of the two programs at once.

* **Abstracted.** An instruction is what it does to names: store, load, call of the
  one function that is seen, call of any other ("ext"), an operator, or "deep", the
  instructions for which `remapInstr` has no case. What `optimizeBlock` knows inside a
  block is `IRBlock`'s matter; here a condition is known if it is a constant. The
  callee has one block, as every candidate for inlining has.
* **Left out.** `Ref`, `RefLoad` and `RefStore`: `storeSets` counts a `RefStore`'s target
  only where a `Ref` names it, and the last pass of the validation does not look at
  loads through references at all, so nothing it promises is about them.
* **Careful callees** read a parameter through its variable and hold no "deep"
  instruction. `ir_inline` takes the callees that `compile` makes (finding 4).

### Correspondence of `Loader`, `ImportClosure`, `MacroExpand`, `Driver`

`pstack` and `stack` are the activations of the recursive `loadPackage` and
`loadModule`, with what each has left to do; `visiting` and `stack` of the code are both
read off the second. A manifest is the sequence of its meaningful lines and is
parsed as the code does: the first malformed line of a workspace section ends it,
the sections behind it are not seen. The text of a source file is chosen when the
file is read first, as any of the sequences of imports in `Texts`, and a file may be
gone at that moment (`ReadFails`). A module's identity is its directory.

*Refinement.* `Closure == INSTANCE ImportClosure WITH uses <- Imports, verdict <- outcome`,
where `Imports` gives of each finished module what its imports lead to. `FinishModule` is
`Add`, the ends of loading are `Accept` and `Reject`, everything else is a stutter;
that the process forgets its maps behind the loader is `Forget`. That a finished
module refers to finished modules only is what makes the imports free of cycles, and
nothing in the code says it: it follows from the order of the recursion and the way
`visiting` is kept.

In `MacroExpand` a program is its items and its forms; a form is known by its place, the
sequence of child numbers that leads to it. What the recursion of `rewriteStmt` and
`rewriteExpr` does is said of a place by what is around it: it gets there if it enters
every form above (`Entered`, with the quoting of macro arguments), and the expansion there is
a site of its own unless it is part of one around it (`Merged`, the parameter `inCompile`); the
order of the sites is that of the walk (`InFront`). `placed` maps places to sites. "opaque" forms are those whose parts
`expand.go` does not walk (`for`, closures, the value of `break`, quotes; `TreeWalks` has
the exact list), "bare" ones the parts of a macro call that are not quoted: the receiver of one
that is written like a method's, and arguments that call `ast_expr`, `gensym` or the like. What evaluating a site gives is any of `Yields`: an AST value of a
kind, a text that reads as it should or not, literals and declarations of structs
in it, a further expansion in it, or something that is no AST value.

`Driver` has one action per step of `runX` in `cmd/dast/main.go`. `frames` are the
functions with a deferred `os.RemoveAll` that have not returned; `failure` is the error
on its way up through them. The maps of the loader and of the expansion are local
variables and are forgotten when these return (`Loaded`, `ExpandDone`). Checker,
compiler, optimizer and tools are represented by whether they succeed; the checker
rejects a program in which an expansion is left. `Killed` may happen at any moment
and stands for the user and for `scripts/safe-run.sh`.

* **Abstracted.** Symbolic links and the text below a line; which of the messages is
  printed; the names of temporary files; targets other than "the host or not".

### Correspondence of `Ast`, `TreeWalks` and `Quote`

`Ast` lists, for every node type of `ast/ast.go`, the parts that hold names, types,
patterns, expressions, statements and blocks. A walk of `TreeWalks` is the set of the
parts that the function has a case for and goes on into; what it forgets is
visible as the part that is subtracted. A behaviour descends along one path and
keeps the walks that have come along, so the properties say, of every path in
every tree, that one walk gets as far as another. Node kinds that allow each
other are unbounded in depth, the state space is not.

`Quote` goes through one template in textual order and does at each place what the
renamer does there and then what the splicer does. A printed name is a base and a
number; 0 is a name as it was written. Three maps per scope: what a name means in
the template (`means`), what the renamer makes of it (`ren`, the code's `scopes`), and
what a name means in the printed result (`out`). Constructs without a case in the
renamer are "skipped", and a callee is a string that is never renamed: both are
modelled as they are, and the properties are about the names the renamer sees.

### Correspondence of `Mono`

`checker` holds the parts of `Checker` that matter here: signatures (`sigs`), instances
that exist (`structs`), the two worklists and the keys already asked for, the
diagnostics, and `names`, the callee and struct names that checking has written
into the tree at a place. `task` is the body that is being checked. An expression is a
chain of operations, so its activations of `checkExpr` are a prefix of it, `task.calls`: for
each, what T stands for as soon as that is known. `Enter...` goes one operation further in,
`Leave...` returns the type of one, and `InferCall` and `InferNew` stand between the first check of
an argument, which finds T, and the second, against the parameter with T replaced. The order is
the code's: functions, methods, structs asked for, functions asked for, and round again.

* A written result of unit asks nothing of the last expression (`checkFunctionBlock`).
* **Abstracted.** One type parameter, one generic struct, so a type is `Ty(n, of)`: S applied n
  times to T or to a type without parameters. Bodies are sequences of expressions, each a chain of
  literal, argument, call, literal of the struct, field and method. Traits, enums and
  operators do not take part in monomorphization other than these do.
* **Programs** are those that the declarations and the parser let pass (`ProgramOK`): names have
  one declaration, methods belong to `impl[T] S[T]`. One restriction is the model's: only functions
  with T in their parameter speak of T, so that the argument and never the expected type
  (`currentExpected`) tells what T stands for.
* **Preconditions** of the properties, all met in the way the documents' examples are
  written: `InferredFirst` (no use of a return type that is yet to be inferred), `Apart`
  (nothing that names an instance inside the argument of a call or literal whose type is
  inferred), `TemplatesOpen` (checking a generic function resolved nothing in it). Without them
  see section 4.

## 3. Runs

| Run | Question | Bounds |
|---|---|---|
| `drop_if` | Are the compiler's beliefs true on every path, is a gone value ever read, does control stay in the code? Blocks, ifs, redeclared names, no assumption | a parameter, two locals, 4 statements, depth 2 |
| `drop_all` | Is a value ever dropped twice; is `IInv` an invariant? All constructs, disciplined programs | a parameter, a local, 4 statements, depth 2 |
| `drop_exact` | Does anything leak when the states agree exactly; is `LeakInv` an invariant? | a local, 5 statements, depth 2, ifs, loops, arms |
| `drop_loop` | (violation) the same promise without discipline, loops | one variable, 4 statements |
| `opt_block` | Are the optimizer's constants and lengths true, its jumps and unchecked accesses right? Careful blocks, signed integers | 3 temporaries, 1 variable, 2 objects, integers -2..1, arrays up to length 1, operators `-` and `<` |
| `opt_stale` | (violation) jumps right in any block | 3 temporaries, 1 variable, 1 object, booleans |
| `opt_escape` | (violation) unchecked accesses in bounds in any block | as `opt_block` |
| `irflow` | Does definite assignment reject exactly what some path makes wrong, and do its rounds end? Is what `ir-opt` makes valid, and does it do what the original does? Careful callees | all functions of 3 blocks over 5 bodies and 3 terminators each, 3 callees, one parameter, one variable, inputs 1 and 2 |
| `ir_inline` | (violation) the same meaning with callees as `compile` makes them | the same blocks, 2 callees |
| `dast` | From the command line to the exit status: is an accepted program closed, is a reported cycle one, is every file in one module; is every site replaced, with all structs known, all or nothing; is nothing left behind; is status 0 earned; does loading implement `ImportClosure`; does every command end? | 7 directories, 12 sets of manifests, 6 texts per file, 4 command lines; 9 programs with expansions, 6 yields |
| `quoting` | Does a name in a printed template mean what it meant, is nothing captured? Does each walk get as far as those that rely on it? | 2 names, nesting 3, 4 declarations; trees of any depth |
| `mono` | Does what the checker hands on check again; is "undefined" ever said of something that exists; do the types of all instances exist? | 8448 programs of five items |

*Bounds.* In the drop runs, opening a construct counts as a statement, `else`, the
next arm and all ends do not. Four statements hold every pair of nested constructs
with two statements that change ownership between or inside them, and every mutant in
`PROJECT.json` is caught. `drop_exact` has five, which hold a declaration and an if
with a statement in each branch, inside an if or a loop; there the states recorded behind an
if both of whose branches return meet those of another edge. There is always one heap value more
than variables, so a fresh value exists; more are not distinguishable. The
theorems remove the bounds. Locals and heap values
are interchangeable, hence the symmetry sets. In `IRBlock` every
instruction that gives a result uses up a temporary, so three of them bound the
block; stores come without limit. Three temporaries, two objects and a variable
hold each known way to a wrong conclusion (an alias, a change through it, a use),
and index 0 and 1 against length 0 and 1 are both sides of the boundary. In `IRFlow`
three blocks hold a diamond's two ways, a loop, a loop into the middle, a block that
nothing reaches and one that only a folded branch reached; two inputs decide a
branch either way. In `dast` the world holds a dependency cycle between packages, a
workspace with and without the entry, an import cycle of two and one of a module
with itself, a diamond, tests beside sources, several files of one command in
different directories; the programs hold an expansion in every kind of place. In
`quoting` two names and four declarations are a name shadowed in an inner scope,
redeclared in the same one, and both beside another. In `mono` each program has a
caller in front of and behind the generic function it uses.

*Fairness.* `Driver` assumes `WF(Bounded)`: the process gets on with its own work, which
is one thread without lock or retry. Nothing is assumed of the steps whose length is not its own
(`OpenEnded`): a macro is interpreted without a limit of steps (`Evaluate`), the checker follows
generic calls and aliases that may grow for ever (`Check`, section 4), tools and programs are waited
for (`QBE`, `CC`, `StartProgram`, `Interpret`). `CommandEnds` therefore says that a command ends or
comes to wait in one of these for good: it does not go back and forth among its own steps. `IRFlow` assumes weak fairness of the steps of the validation
loop, which nothing can interrupt. All else is safety, without fairness.

*Deadlock* is not checked: compilations, templates, blocks and processes end, and an
execution may stop at a runtime error.

## 4. Findings

With a run:

1. `drop_loop`: a variable moved in a loop body is moved and dropped again in
   the next iteration (`let x = mk(); loop { x; }`); nothing is reported.
2. `opt_stale`: constants of variables survive `call_closure`.
3. `opt_escape`: an array that gets into another array, or to a closure, keeps its
   noted length, and is then indexed unchecked, which stops the interpreter.
4. `ir_inline`: the body of an inlined callee reads its parameters from temporaries
   that the inliner never sets, and instructions unknown to `remapInstr` overwrite the
   caller's temporaries.

The first is in the shapes that `docs/24-pre-macro-checklist.md` names as covered; the
others contradict `docs/19-ir-spec.md`, which says that `ir-opt` keeps the meaning and
removes bounds checks where it is provably safe.

Seen in the models under other constants, or in the code while modelling, without a
run of their own:

* Ownership: arms of a match, and branches of an if in tail position, are compiled
  in sequence in one state, so a value moved in the first arm and replaced in the
  second is dropped twice behind the first (`Shapes = {"match"}`, no discipline); a
  value given up in one branch of an if leaks on the other path, since there are no
  drop flags (`NoLeak` under `drop_if`'s constants); behind an if both of whose branches return,
  the state is that of the else block, so `let x = mk(); if a { if c { return; } else
  { return x; } }` leaks x where a is false (the same constants, five statements); a name declared twice in a scope
  is dropped twice and its first value leaks (`LetAgain`); parameters are never dropped
  by the callee (`docs/07-memory-management.md` rule 3 says otherwise), so `NoLeak`
  leaves them out.
* Optimizer: unsigned comparisons and divisions are folded as signed ones
  (`opt_stale`'s constants with an unsigned type).
* Checker: an inferred generic call inside the argument of another is checked twice,
  the second time against the name of an instance that does not exist yet: "undefined
  function 'g__i64'" (`Mono` without `Apart`; `docs/22-stage0-language.md:231` lists such
  calls). So is a generic call whose type arguments are given, if it is inside one that is
  inferred: the first check writes its instance into the tree as well. A generic function that calls itself at a larger type, and an alias that
  stands for a type containing itself, never end.
* Expansion: a macro call in a closure, in a `for`, or as the value of a `break` is never
  expanded and then rejected by the checker (`docs/10-macro-system.md` knows no such
  limit).
* Hygiene: names of `for` patterns, closures and callees in a template are not renamed
  (`Quote`'s "skipped"; `docs/10-macro-system.md:5` promises hygiene).
* Equality of AST values (`interp/ast_eq.go`) and printing (`ast/format.go`) differ in details:
  the kind of a quote is compared (`ast_eq.go:86`) but not printed (`format.go:589`), `constValueEq`
  has no case for characters (`ast_eq.go:489`), so a pattern `'a'` is not equal to itself, and an if
  expression without else is printed with one (`format.go:96`).
* Walks: `rewriteExpr` of the loader also rewrites a local that shadows an alias;
  `rewriteType` ignores type arguments (`docs/22-stage0-language.md:75`).
* Loader: the check for circular packages that `loadPackage` has is never reached,
  because a package is known before its dependencies are loaded; circular imports of
  modules are found (`docs/03-module-package.md:164`). A standard-library module, and a
  module reached from two packages, keep the package of whoever imported it first. A
  malformed line of a workspace section hides everything behind it. With files of
  several directories on one command line, which alias holds in a file that is in two
  modules depends on the order of a Go map.
* Driver: `dast build --target x` takes `--target` for a file name; what the interpreted
  `main` returns is dropped; a failing tool ends `run` with its status and without a
  message; a test in a macro's expansion is not collected.

## 5. Theorems

### Ownership

Assumptions: `ElabAssumption` and `ExecAssumption` (finite sets, distinct
special values, one more heap value than variables), for the safety theorems
`Disciplined`, for the leak theorems the stronger `Exact`. They hold for any number of variables, statements and
any nesting depth.

* `TypeCorrect`, `TypeInvariance` (DropSafety): one lemma per action.
* `Invariance` (DropSafety): `Disciplined` implies `Spec => []IInv`, and from it
  `DropsOnce`, `ReadsLive`, `NeverRunsOff`, `BeliefsHold`.
* `LeakInvariance` (DropSafety): `Exact` implies `Spec => []LeakInv`, and from it
  `NothingLeaks`.

*Why an inductive invariant is needed.* That a drop is right at run time
depends on a state the compiler had when it emitted it, long before. `IInv`
therefore carries the compiler's history: `CodeInv` says that each instruction
was legal in the state it was emitted in and that what it leaves behind grants
the state in front of its successor (`Below`); `LabelInv` says the same for
jumps, once the label is placed, and that only open constructs have labels not
yet placed; `FrameInv` says which states are under way to the labels of an open
construct (for an if: only the captured one; for a loop: its head is in the
state of its snapshot); `ScopeInv` says that declared variables are in scope
once. With these, compiling keeps the code consistent (`CompilerStep`), and one
step of execution leads from a true state to a true state (`StepSound`,
`ExecInvStep`). At an if the merge is below both branches (`MergeBelow`); at
loops and arms the discipline says so (`AgreesBelow`).

The snapshot of an open if may change under it, and `AroundPop` says how: a construct that
stays open keeps all but that (`Rebased`). `FrameInv` is not touched (`RebasedOK`): only an else
block has its snapshot in use, and the label that the snapshot entered was placed in front of it.

*Why leaks need an invariant of their own.* `Below` only bounds what a state claims from
above: a compiler that forgot every variable would satisfy `IInv`, and drop nothing.
`LeakInv` is the converse. `Complete` says of each instruction that it overwrites or
takes out of scope nothing claimed without its drop; `CodeExact` and `LabelExact` that the
claims of a state are `Retain`ed along every edge; `ScopeFull` that what is in scope is on
the scope stack (so that `Drops`, which only looks there, finds it) and in each snapshot on
the part of the stack below its construct; `OwnersKnown` that every live value is owned by
a variable which holds it and which the recorded state claims. The merge at an if does not
retain claims: a value that only one branch moves is claimed by nobody behind it. So the
theorem needs `Exact` (the states that meet are equal, `AgreesExact`), and its failure without
is the compiler's: it has no drop flags at run time (section 4). The proof goes
action by action beside that of `IInv`, from which it takes that labels keep their states
(`Keeps`) and that the executed instruction is legal (`StepOwned`, `OwnersStep`).

### The block optimizer

Assumptions: the named assumptions of `IRBlock` (an integer width of at least one
bit, literals are scalars, `None` is no value, variables are not objects) and
`Plain`: careful blocks, no unsigned type. They hold for any number of
temporaries, variables, objects, any width and any operators.

* `BlockInvariant` and from it `BlockConstsTrue`, `BlockBranchSound`,
  `BlockUncheckedSafe` (IRBlockProofs).

*The invariant* `IRInv` adds to these properties why the noted lengths are true: an
array with a noted length is referred to by its temporary and by nothing else
(`Tracked`), so that no instruction but its own can change it; an object not yet
allocated is referred to by nothing (`Allocated`), so that a new one starts alone;
and nothing is known of a temporary that has not occurred (`Noted`). The argument
goes over what a callee can reach: an object that only tracked temporaries refer
to is outside every closed set of what the others name (`ReachPrivate`), so a
callee neither changes it nor returns it (`CalleeFacts`), and a step that gives no
such object away keeps the invariant (`Discreet`). That folding gives the
interpreter's result is `FoldSound`.

### Validation and inlining

Assumption: `ProgramsAssumption`. Blocks and instructions come in lists, and there is a
block; a name has no number yet (`_inl` prefixes are given by `inlineCalls` only); a call has
an argument for each parameter, which the type checker sees to and `Validate` does not; a
branch is on a temporary or a constant, as `compile` makes it. All of it is what the
compiler hands over; of a text written by hand `ir-opt` checks only what `Check` does. The
theorems hold for any number of blocks and instructions, any flow among them, any
names, inputs and callees, "deep" instructions in callees included (but for `MeaningIsKept`).

* `FlowIsExact` (IRFlowProofs): `IRSpec => []FlowExact`. A function is accepted only if
  no path from its entry comes to a load of a name that was not stored on it, and it is
  rejected by the analysis only if some path does.
* `RunInvariance` and from it `ValidatedNeverFails` and `OptimizedIsValid`.
* `MeaningInvariance` and from it `MeaningIsKept`, for callees as in `CarefulCallees`: one that
  can be inlined reads no temporary that it has not set, not even one of its arguments, and has
  no "deep" instruction. So are the functions without parameters, of those `compile` makes,
  if they have none of the instructions unknown to `remapInstr`. For the others the property is
  false, which `ir_inline` shows. TLC checks the same condition of the callees of `irflow`.

*The invariant* `FlowInv` adds two facts about a round that is under way. `Settled`: as
long as nothing has changed in a round, the equations hold for the blocks it has
passed, so that they hold for all at its end; with it, a name that is in the sets
along all edges is stored on every path ("accepted" is right). `Justified`: a name
missing from the set of a block is missing because some path from the entry to
the end of this block stores it nowhere, in every round and not only at the end;
with it, what is rejected has a path ("rejected" is right). Each alone is the half of
the theorem; a set that starts too small breaks the second, a round that ends too
early the first.

*The invariant* `RunInv` goes on from the verdict, which as `Exposed` speaks of blocks and
paths and not of sets, so that it can be carried to the run and through `Optimize`. To the
run: a variable that a frame lacks at a block is one that some path to the block does not
store (`Running`); stepping to the next block extends the path (`StepKeeps`), and a load of
such a variable would be exposed. Through `Optimize`: what inlining has made of the first n
instructions has all their stores, and each of its loads lies behind a store of its own or
is one of theirs behind all that they lay behind (`Made`); inlined code closes over its names,
since the arguments are stored in front and `ValidCallee` is the callee's own verdict
(`InlinedCloses`); so an exposed load of the result would have been exposed in the source, along
the same path, as folding removes edges and pruning only what no path reaches (`OptimizeAccepted`).

*The invariant* `MeaningInv` adds to `RunInv` what the source has become (`OptimizedOK`: each block
is what `InlineBlock` makes of the block of that label, from numbers not below the source's
TempCount and with a number for each call) and that the two frames agree on the source's
temporaries and on the names without a number (`Agree`). Between two instructions of the source
that is all one has to know, whatever stands in the temporaries and names that inlining
has added. Within an inlined call the optimized frame may differ in the one temporary that takes
the call's result (`AgreeBut`), and every temporary that the callee has set and every variable of
its own has the same value there under its new number or name (`Mirrors`); for that no two of
the callee's temporaries may get the same number (`TempsApart`), and arguments are
stored before anything of the callee is overwritten (`ArgsArePlaced`). So one instruction of the
callee and its copy keep `Mirrors` (`StepMirrored`, `CodeMirrored`), the call and what stands for it
keep `Agree` (`InlinedMeans`), hence a block does (`BlockMeans`), and then folding goes on to the
same block (`StepMeans`).

*Induction over the data.* Lists of instructions are passed over by recursive functions, and
what holds after each step is shown with `Inductive`, which is induction over a set of
numbers instead of an operator (from the well-foundedness of `<`); that the functions
are what their equations say (`CalledStep`, `ExecutedStep`, `InlineStep`, `InlineBlocksStep`)
is shown by building them up to n in the same way.

### The loader

Assumption: `LoaderAssumption` (the directory above a directory is one, what marks a
missing directory is none, a directory is a sequence of names, imports of a text and the
paths of a command are sequences). It holds for any
directories, manifests, workspaces, source texts and command lines, for `LoadSpec`, the
loader on its own; that the process around it keeps these properties is `dast`'s matter.

* `AcceptedIsClosed`, `CyclesAreReal`, `ImplementsClosure` (LoaderProofs).

*The invariant* `LoadInv` is about activations of `loadModule` that have not returned.
Of each, `StackOK` compares what the files it has scanned lead to (`Used`) with what it
has seen to: every such directory is finished, or among the imports still to come, or is
what the next activation is loading, or is nowhere, and then a diagnostic says so. So when
an activation returns, all its module uses is finished (`ModuleFinished`), which is what
`Add` asks for; when a directory is met again that is being loaded, the chain of "what the
next activation is loading" is the circular import. No directory has two
activations and none that is finished has one, since `visiting` and the finished modules
are looked up in front of every new one. That texts do not change when they are read is
what keeps finished modules finished (`UsesStay`).

* `FilesAreInOneModule`, with an invariant of its own, `FilesInv`: the files of a
  module under the command's modules are in the module's directory. It holds when all
  files of the command are in one directory (`OneDir`), which is the premise of the
  property too; then only the entry module gets files from the command line, and only
  its own directory's.

### Macro expansion

Assumption: `ExpandAssumption` (every form has one around it up to its item, and there are
finitely many; no text has a literal of the empty name). It holds for any programs, any
nesting and any values of the sites.

* `ExpandInvariance` and from it `PlacingIsWhole`, `NothingIsLeft`, `CodeKnowsStructs`
  (ExpandProofs).

*The invariant* `ExpandInv` says how far each stage is. `EvaluatedFirst`: in front of the first
placing every site has a value, or a fault, which ends it. `PlacedInTurn`: every expansion
that the walk finds has a site with its place, and the sites passed without fault are in
theirs; so at the end all places of `Own` are taken. That this leaves nothing over is a fact
about places alone (`Outermost`): around an expansion found there is, at some level, one with
a site of its own. `StructsNoted`: what an item placed declares is known, and code is placed
with the final set, since no item is placed behind it.

### The command line

Assumptions: those of the loader and of expansion. They hold for any worlds of directories,
manifests and texts, any programs and any command.

* `DriverInvariance` and from it `TempsAreRemoved` and `ZeroIsSuccess`; `DriverLoads`,
  `DriverExpands`, `DriverImplementsClosure`: every step of the process is a step of the
  loader, of expansion, or leaves their variables as they are or forgotten (DriverProofs).

*The invariant* `DriverInv` ties the step to what is going on in it: which commands get there
(`VerbAt`), which functions with a directory have not returned (`FramesAt`), what is made and
what error is on its way (`MadeAt`), that the directories are those of these functions
(`TempsAt`, all of which `return` passes), and that behind the checker there is a loaded program
without expansions (`SourceAt`). `PartsAt` says that the loader and expansion are in states of
their own invariants or at their beginning.

### Hygiene

Assumption: `QuoteAssumption` (there are finitely many names). It holds for any depth of
scopes, any number of declarations and any splices. The theorems are about `QuoteSpec`; the
run's specification adds only that `TreeWalks` stands still.

* `QuoteInvariance` and from it `NamesAreKept` and `NothingIsCaptured` (QuoteProofs).

*The invariant* `QuoteInv` says of each open scope that it is `Honest`. `Numbered`: a numbered
name of the result stands for the declaration that drew this number. `Faithful`, of scopes that the renamer goes into: it knows the
very names the scope declares, each as the name that the result declares there, and
plain names are bound only by what a splice is meant to see. Lookups
go from the innermost scope outward in three maps, so a use is kept only if all three
find the name in the same scope; `Nested` (inside a skipped scope all are skipped) is
what makes the renamer's scopes a prefix of the open ones.

### Walks through the tree

No assumption: `TreeWalks` has no constants, the kinds of nodes being those of `Ast`. The run sees
all its states already; what the proofs add is the reason, part by part, so that who changes a walk
sees which lemma fails.

* `RenamedWhereSplicedAlways`, `SubstitutedWhereExpandedAlways`, `StrippedWhereEvaluatedAlways`
  (QuoteProofs).

*The argument* has two halves. At one node: what one walk follows the other follows too
(`ExpandStrip`, `RenameReplace`, `AliasClone`, `CloneAlias`), where the last three
hold only of some kinds of nodes. On a path: *the invariant* `WalkInv` says that the walks are
together at nodes of these kinds, because only the top of a path and a method are items (no walk
has stopped before), a path gets into a pattern and knows of it, and nothing leads from
types and names back to statements.

### The type checker

Assumption: `ProgramsAssumption` (programs are `ProgramOK`, section 2). It holds for any number of
functions and methods, bodies of any length, expressions and types of any depth, and also for
programs whose worklist never ends.

* `TypesExistAlways`, for every program.
* `NoFalseUndefinedAlways`, for programs that are `Apart` and whose templates are open.
* `RechecksAlways`, for accepted programs that are `InferredFirst` (MonoProofs).

*The invariant* `TypesInv` says what the worklists owe: the keys asked for are those of the
instances that exist and of those that are pending, each once (`StructsOK`, `FuncsOK`); each
signature's types have been asked for with all that is inside them (`SigsOK`, `Asked`); an instance
of S has the methods of the impl, but for those still in `todo` (`MethodsOK`); a name in the tree is of an
instance asked for, and fits the operation (`NamesOK`). At the end nothing is pending, so what was
asked for exists: `TypesExistAlways`.

*The invariant* `OrderInv` says how far checking is: which bodies have been begun, that the result of
a function that is checked does not change any more, that only the current body's tree is written to,
and that an operation's activation has the type arguments that are given (`GivenOK`).
`UndefinedInv` adds `Behind`: the names in the body that is being checked are in statements that are
done, or, on the way out, in operations that have returned. A name is written on the way out; from
there checking turns inward once more only in an operation that infers its type, and then
`Apart` says that nothing further in has been given a name. TLC found that the `Apart` of an earlier version, which let a call with type
arguments pass, was too weak for this.

*The invariant* `TypedInv` is about what has been checked, in programs without a diagnostic.
`Rule` is the typing rule of an operation, given the type of what is inside it; `Typed` says that
types can be put at all operations from some point inward such that each keeps its rule; `WholeOK`
that this is so for each expression of a body, with the declared result at its last. A check that
returns adds one operation (`OneMore`); that no later step takes away what the rule
relies on is `Keeps`. The instances are the point: a copy is checked from its beginning, but with
the names that its template's check has put into it, and what this check finds as its result, if
that is inferred, must be what callers of the template were told, with their type for T. Template
and copy both have types then, and operation by operation, from the innermost outward, those of the
copy are those of the template with a type in the place of T (`SubstWhole`, `CallTwins`, `RuleTwins`,
`TypedTwins`); at the last expression this is `InstanceOK`. At the end the recursive definition
`TypeAgain` of the second check has, operation by operation, the types that `Typed` promises (`AgainIs`).

### What stays with the model checker

* `CommandEnds` and `ValidateEnds`, since liveness under fairness is out of the prover's reach.

## 6. Not modelled, and why

* **Drop glue of containers, `for`, pattern payloads** (`compile/drop.go`, `stmt.go`):
  elements have owners of their own, which needs a heap of trees where `DropExec` has
  cells. What the drop runs show is about variables; the hazards list the lines.
* **Closures** (`compile/closure.go`): appear only as calls with any effect (`IRBlock`).
* **C runtime**: its release of a value is in `DropExec`, a string's release being without
  effect if it is not tracked. Address reuse, the table of freed ranges and the
  allocation limit are not modelled; the code is C under `runtime/` and its failures need
  a program that already drops twice.
* **QBE backend, IR text, lexer, parser**: translation without state worth a model;
  their size is wording and layout. The parser appears where its result depends on
  state (`Misread` in `MacroExpand`).
* **Comparing and printing trees** (`interp/ast_eq.go`, `ast/format.go`): both have a case for every
  part of every kind of node, and where they differ is in attributes, which the graph of `Ast` does
  not have (section 4).
* **Type rules** of expressions, traits, borrow checking of returned references:
  `Mono` models the order of checking and what is written into the tree.
* **stage2** repeats stage0's algorithms in Dast; a model would be the same model.
* **Language server, editor extension, watchdog**: small loops over one stream or
  one child process. Their hazards are listed with the reason no property covers them.
