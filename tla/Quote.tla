-------------------------------- MODULE Quote --------------------------------
(***************************************************************************)
(* quote (interp/quote.go): a template is parsed, its own names are made   *)
(* unique (hygieneRenamer), what is spliced in replaces the placeholders   *)
(* (replaceExpr and its kin), and the result is printed.                   *)
(*                                                                         *)
(* A behaviour goes through one template in the order of its text, doing   *)
(* at each place what the two passes do there; in the printed tree a name  *)
(* is a base and a number, 0 for a name as it was written.  Some           *)
(* constructs have no case in either pass ("skipped"): what is in them     *)
(* stays as it was written, placeholders too.  An open scope holds three   *)
(* maps, of what a name means in the template, of what the renamer makes   *)
(* of it, and of what a name means in the printed tree.  Binders are       *)
(* numbered; 0 stands for the place of the macro call.                     *)
(***************************************************************************)
EXTENDS Naturals, Sequences, FiniteSetsExt

CONSTANTS
  Names,      \* names in templates and in what is spliced
  MaxDepth,   \* bound on nesting
  MaxBinders  \* bound on declarations in a template

VARIABLES
  scopes,     \* the open constructs: [skipped, means, ren, out]
  gensym,     \* number of binders, and gensymCount
  kept,       \* the binders whose names are meant to be seen from outside
  last,       \* the name just passed: [how, want, got]
  status      \* "open", "done" or "error"

quoteVars == <<scopes, gensym, kept, last, status>>

QuoteAssumption == IsFiniteSet(Names) /\ MaxDepth \in Nat /\ MaxBinders \in Nat
ASSUME QuoteAssumption

Kinds == {"expr", "stmt", "block", "item"}
Nothing == [how |-> "none", want |-> 0, got |-> 0]

\* hygieneRenamer.lookup: the innermost scope that has the name.
LookUp(maps, n, otherwise) ==
  LET hits == {i \in DOMAIN maps : n \in DOMAIN maps[i]}
  IN  IF hits = {} THEN otherwise ELSE maps[Max(hits)][n]
Maps(f) == [i \in DOMAIN scopes |-> scopes[i][f]]

Extended(f, g) == [n \in DOMAIN f \cup DOMAIN g |-> IF n \in DOMAIN g THEN g[n] ELSE f[n]]

Top == scopes[Len(scopes)]
Skipped == Top.skipped
Plain(x) == <<x, 0>>

\* unique: a name and the next number.
Number(S) == CHOOSE f \in [S -> gensym + 1 .. gensym + Cardinality(S)] :
               \A x, y \in S : x # y => f[x] # f[y]

\* What declaring the names S adds to the maps, with their names made unique or kept.
Declared(S, renamed) ==
  LET id == Number(S)
      new == [x \in S |-> IF renamed THEN <<x, id[x]>> ELSE Plain(x)]
  IN  [means |-> id,
       ren |-> IF renamed THEN new ELSE <<>>,
       out |-> [n \in {new[x] : x \in S} |-> id[n[1]]]]

Open(skipped, S, renamed) ==
  /\ status = "open" /\ Len(scopes) < MaxDepth /\ gensym + Cardinality(S) <= MaxBinders
  /\ LET d == Declared(S, renamed)
     IN  scopes' = Append(scopes, [skipped |-> skipped, means |-> d.means, ren |-> d.ren, out |-> d.out])
  /\ gensym' = gensym + Cardinality(S)
  /\ last' = Nothing
  /\ UNCHANGED <<kept, status>>

\* A block, the body of a loop, a branch.
OpenBlock == Open(Skipped, {}, ~Skipped)

\* A bug that NoCapture finds: the names of an arm's pattern stay as they are.
OpenArmPlain(S) == Open(Skipped, S, FALSE)

\* if let, while let, a match arm: the names of the pattern hold in what follows (renamePattern).
OpenArm(S) == Open(Skipped, S, ~Skipped)

\* A for loop with the names of its pattern, a closure with its parameters; with no names, the
\* value of a break, a tuple, a loop expression, a nested quote.
OpenSkipped(S) == Open(TRUE, S, FALSE)

Close ==
  /\ status = "open" /\ Len(scopes) > 1
  /\ scopes' = SubSeq(scopes, 1, Len(scopes) - 1)
  /\ last' = Nothing
  /\ UNCHANGED <<gensym, kept, status>>

\* let, with a name or a pattern, behind its initial value.
Declare(d) ==
  scopes' = [scopes EXCEPT ![Len(scopes)] =
    [skipped |-> Skipped, means |-> Extended(Top.means, d.means),
     ren |-> Extended(Top.ren, d.ren), out |-> Extended(Top.out, d.out)]]
Let(S) ==
  /\ status = "open" /\ gensym + Cardinality(S) <= MaxBinders
  /\ Declare(Declared(S, ~Skipped))
  /\ gensym' = gensym + Cardinality(S)
  /\ last' = Nothing
  /\ UNCHANGED <<kept, status>>

\* let with a spliced name, which is meant to hold for what is spliced in behind it.
LetSpliced(x) ==
  /\ status = "open" /\ ~Skipped /\ gensym < MaxBinders
  /\ Declare([means |-> <<>>, ren |-> <<>>, out |-> [n \in {Plain(x)} |-> gensym + 1]])
  /\ gensym' = gensym + 1
  /\ kept' = kept \cup {gensym + 1}
  /\ last' = Nothing
  /\ UNCHANGED status

Passed(how, want, got) == last' = [how |-> how, want |-> want, got |-> got]

\* A bug that UsesKept finds: only the innermost scope is looked at.
UseInScope(x) ==
  /\ status = "open"
  /\ LET printed == IF x \in DOMAIN Top.ren THEN Top.ren[x] ELSE Plain(x)
     IN  Passed(IF Skipped THEN "skipped" ELSE "use", LookUp(Maps("means"), x, 0), LookUp(Maps("out"), printed, 0))
  /\ UNCHANGED <<scopes, gensym, kept, status>>

\* renameExpr on an identifier.
Use(x) ==
  /\ status = "open"
  /\ LET printed == IF Skipped THEN Plain(x) ELSE LookUp(Maps("ren"), x, Plain(x))
     IN  Passed(IF Skipped THEN "skipped" ELSE "use", LookUp(Maps("means"), x, 0), LookUp(Maps("out"), printed, 0))
  /\ UNCHANGED <<scopes, gensym, kept, status>>

\* The callee of a call is a string in the tree and is not renamed.
UseCallee(x) ==
  /\ status = "open"
  /\ Passed("callee", LookUp(Maps("means"), x, 0), LookUp(Maps("out"), Plain(x), 0))
  /\ UNCHANGED <<scopes, gensym, kept, status>>

\* Which kinds can stand where: spliceExpr (a statement if it is an expression), spliceStmt,
\* spliceBlock, spliceItem.
Usable(kind, position) ==
  \/ kind = position
  \/ position = "expr" /\ kind \in {"block", "stmt"}
  \/ position = "stmt" /\ kind \in {"expr", "block"}

\* A splice in which the name x of the macro call's place is free.
SpliceIn(kind, position, x) ==
  /\ status = "open" /\ ~Skipped
  /\ Usable(kind, position)
  /\ Passed("splice", 0, LookUp(Maps("out"), Plain(x), 0))
  /\ UNCHANGED <<scopes, gensym, kept, status>>

\* A splice that cannot stand there, does not parse, or is no identifier where one is needed.
SpliceFails ==
  /\ status = "open" /\ ~Skipped
  /\ status' = "error" /\ last' = Nothing
  /\ UNCHANGED <<scopes, gensym, kept>>

\* The template ends and is printed.
EndTemplate ==
  /\ status = "open" /\ Len(scopes) = 1
  /\ status' = "done" /\ last' = Nothing
  /\ UNCHANGED <<scopes, gensym, kept>>

\* A template of an expression, a statement or a block, or a function with its parameters, whose
\* names stay (declareRenamed).
QuoteInit ==
  /\ \E params \in SUBSET Names :
       LET id == CHOOSE f \in [params -> 1 .. Cardinality(params)] :
                   \A x, y \in params : x # y => f[x] # f[y]
       IN  /\ scopes = <<[skipped |-> FALSE, means |-> id, ren |-> [x \in params |-> Plain(x)],
                          out |-> [n \in {Plain(x) : x \in params} |-> id[n[1]]]]>>
           /\ gensym = Cardinality(params) /\ kept = 1 .. gensym
  /\ last = Nothing /\ status = "open"

QuoteNext ==
  \/ OpenBlock \/ Close \/ SpliceFails \/ EndTemplate
  \/ \E S \in SUBSET Names : OpenSkipped(S) \/ (S # {} /\ (OpenArm(S) \/ Let(S)))
  \/ \E x \in Names : Use(x) \/ UseCallee(x) \/ LetSpliced(x)
  \/ \E x \in Names, kind, position \in Kinds : SpliceIn(kind, position, x)

QuoteSpec == QuoteInit /\ [][QuoteNext]_quoteVars

(***************************************************************************)
(* Properties                                                              *)
(***************************************************************************)

\* A name that the template declares means in the printed tree what it meant in the template,
\* whatever shadows whatever, in whichever scope, and whatever is spliced in (hygieneRenamer's
\* scopes).  It is about the names that the renamer sees; parameters keep their names.
UsesKept == last.how = "use" /\ last.want \notin {0} \cup kept => last.got = last.want

\* What is spliced in keeps the meaning of the place of the call: no name that the template
\* introduces captures it, but for the parameters of a quoted function and a name that was
\* itself spliced in.
NoCapture == last.how = "splice" => last.got \in {0} \cup kept
=============================================================================
