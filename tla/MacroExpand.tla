---------------------------- MODULE MacroExpand ----------------------------
(***************************************************************************)
(* Macro expansion (macroexpand/expand.go): every macro call and compile!  *)
(* form that the walk finds becomes a site; a site's expression is wrapped *)
(* in a function, compiled together with the macros and interpreted; the   *)
(* text it yields is parsed and put where the form was.                    *)
(*                                                                         *)
(* A form is known by its place, the sequence of child numbers that leads  *)
(* to it, which begins with the number of its item.  "compile" and "macro" *)
(* are the forms to expand, "badmacro" a macro call whose callee is        *)
(* neither a name nor a field; "statement" is an expression statement,     *)
(* "block" a block, "bare" a part of a macro call that is not quoted: the  *)
(* receiver of one like a method's, or an argument that calls ast_expr,    *)
(* gensym or the like, "node" any other form whose parts are walked and    *)
(* "opaque" one whose parts are not (for, closures, break values, quotes:  *)
(* see TreeWalks).                                                         *)
(***************************************************************************)
EXTENDS Naturals, SequencesExt, FiniteSets

CONSTANTS
  Sources,   \* programs: [items: a sequence of [kind, name, macro], forms: of a place, its kind]
  Yields     \* what evaluating a site may yield: [as, text, lits, decl, calls]

VARIABLES
  program,   \* the program
  sites,     \* the sites found: [kind, place, form, yield], form being the place of the expansion
  stage,     \* "collect", "compile", "evaluate", "items", "code", "done", "failed"
  turn,      \* the next site, in the stages that go through the sites
  known,     \* struct names the parser is told
  placed,    \* of a place: the site put there and the struct names known then
  faults     \* sites that reported an error

expandVars == <<program, sites, stage, turn, known, placed, faults>>

Calls == {"compile", "macro", "badmacro"}
NoYield == [as |-> "none", text |-> "", lits |-> {}, decl |-> "", calls |-> FALSE]

NoProgram == [items |-> <<>>, forms |-> <<>>]

Items == program.items
Forms == DOMAIN program.forms
Kind(p) == program.forms[p]
ItemKind(p) == Items[p[1]].kind
Up(p, n) == SubSeq(p, 1, n)

ExpandAssumption ==
  /\ \A s \in Sources :
       /\ IsFiniteSet(DOMAIN s.forms)
       /\ \A p \in DOMAIN s.forms :
            /\ p \in Seq(Nat) /\ p # <<>> /\ p[1] \in DOMAIN s.items
            /\ Len(p) > 1 => SubSeq(p, 1, Len(p) - 1) \in DOMAIN s.forms
       /\ \A i \in DOMAIN s.items : s.items[i].kind = "expansion" => s.forms[<<i>>] \in Calls
  /\ NoYield \notin Yields
  /\ \A y \in Yields : "" \notin y.lits
ASSUME ExpandAssumption

----------------------------------------------------------------------------
(* Collecting sites *)

\* The walk gets to a form if it enters all that are around it; the arguments of a macro call are
\* quoted but for expansions and bare ones (autoQuoteMacroArg), and those of a bad one are dropped.
Entered(p, closed) ==
  \A n \in 1 .. Len(p) - 1 :
    /\ Kind(Up(p, n)) \notin closed \cup {"badmacro"}
    /\ Kind(Up(p, n)) = "macro" => Kind(Up(p, n + 1)) \in Calls \cup {"bare"}

\* The expansions that the walk gets to.
Found == {p \in Forms : Kind(p) \in Calls /\ ItemKind(p) \in {"fn", "expansion"} /\ Entered(p, {"opaque"})}

\* Inside an expansion, a further one is part of it until a block begins.
Merged(p) ==
  \E n \in 1 .. Len(p) - 1 :
    Kind(Up(p, n)) \in Calls /\ \A m \in n + 1 .. Len(p) - 1 : Kind(Up(p, m)) # "block"

IsItem(p) == Len(p) = 1 /\ ItemKind(p) = "expansion"
IsStatement(p) == Len(p) > 1 /\ Kind(Front(p)) = "statement"
Site(kind, place, p) == [kind |-> kind, place |-> place, form |-> p, yield |-> NoYield]

\* A bug that AllReplaced finds: a statement is no site of its own.
SitesOfForms ==
  {Site("item", p, p) : p \in {q \in Found : IsItem(q)}}
    \cup {Site("expr", p, p) : p \in {q \in Found : ~IsItem(q) /\ ~IsStatement(q) /\ ~Merged(q)}}

Own ==
  {Site("item", p, p) : p \in {q \in Found : IsItem(q)}}
    \cup {Site("stmt", Front(p), p) : p \in {q \in Found : IsStatement(q)}}
    \cup {Site("expr", p, p) : p \in {q \in Found : ~IsItem(q) /\ ~IsStatement(q) /\ ~Merged(q)}}

\* The order of the walk: an expression is a site before what is in it, the others are behind that.
InFront(s, t) ==
  LET n == Len(LongestCommonPrefix({s.form, t.form}))
  IN  CASE IsPrefix(s.form, t.form) -> s.kind = "expr"
        [] IsPrefix(t.form, s.form) -> t.kind # "expr"
        [] OTHER -> s.form[n + 1] < t.form[n + 1]
InOrder(S) ==
  {s \in [1 .. Cardinality(S) -> S] :
     (\A x \in S : \E i \in DOMAIN s : s[i] = x) /\ \A i, j \in DOMAIN s : i < j => InFront(s[i], s[j])}

StructNames == {Items[i].name : i \in {j \in DOMAIN Items : Items[j].kind = "struct"}}

GoTo(next) == stage' = next /\ turn' = 1

Collect ==
  /\ stage = "collect"
  /\ sites' \in InOrder(Own)
  /\ GoTo(IF \E p \in Found : Kind(p) = "badmacro" THEN "failed" ELSE IF Own = {} THEN "done" ELSE "compile")
  /\ known' = StructNames
  /\ UNCHANGED <<program, placed, faults>>

----------------------------------------------------------------------------
(* Compiling and evaluating *)

\* A macro call that the walk has not entered is left in the tree, and compile rejects it; a
\* compile! there is compiled as what it holds.
Unentered(p) ==
  \E q \in Forms :
    /\ IsStrictPrefix(p, q) /\ Kind(Front(q)) = "opaque" /\ Kind(q) \in Calls \ {"compile"}
    /\ \A n \in Len(p) + 1 .. Len(q) - 1 : Kind(Up(q, n)) \notin Calls

MacroItems == {i \in DOMAIN Items : Items[i].kind = "fn" /\ Items[i].macro}

\* CompileForMacro on the macros and the wrappers; any other error of theirs is possible too.
CompileWrappers ==
  /\ stage = "compile"
  /\ \/ GoTo("failed")
     \/ /\ \A i \in DOMAIN sites : ~Unentered(sites[i].form)
        /\ \A i \in MacroItems : ~Unentered(<<i>>)
        /\ GoTo("evaluate")
  /\ UNCHANGED <<program, sites, known, placed, faults>>

\* A site is evaluated by the interpreter: its call fails or yields a value.
Evaluate ==
  /\ stage = "evaluate" /\ turn <= Len(sites)
  /\ turn' = turn + 1
  /\ \/ faults' = faults \cup {turn} /\ UNCHANGED sites
     \/ \E y \in Yields : sites' = [sites EXCEPT ![turn].yield = y] /\ UNCHANGED faults
  /\ UNCHANGED <<program, stage, known, placed>>

\* A bug that PlacedWhole finds: failed evaluations are passed over.
EvaluatedAnyway ==
  /\ stage = "evaluate" /\ turn > Len(sites)
  /\ GoTo("items")
  /\ UNCHANGED <<program, sites, known, placed, faults>>

Evaluated ==
  /\ stage = "evaluate" /\ turn > Len(sites)
  /\ GoTo(IF faults = {} THEN "items" ELSE "failed")
  /\ UNCHANGED <<program, sites, known, placed, faults>>

----------------------------------------------------------------------------
(* Parsing and placing *)

\* What each kind of site takes; an expression site takes a statement only if that is an
\* expression (parseItem, parseExpr, parseStmt).
Takes(kind) ==
  CASE kind = "item" -> {"AstItem"}
    [] kind = "expr" -> {"AstExpr", "AstBlock", "AstExprStmt"}
    [] kind = "stmt" -> {"AstStmt", "AstExprStmt", "AstExpr", "AstBlock"}

\* The text is not a form of that kind, or it is and contains `Name {` with a name the parser
\* does not take for a struct; then it is read as something else or not at all.
Unreadable(y) == y.text = "garbled"
Misread(y, names) == ~(y.lits \subseteq names \cup {y.decl})

Place(kinds) ==
  LET s == sites[turn]
  IN  IF s.kind \notin kinds
      THEN UNCHANGED <<placed, faults>>
      ELSE \/ /\ s.yield.as \notin Takes(s.kind) \/ Unreadable(s.yield) \/ Misread(s.yield, known)
              /\ faults' = faults \cup {turn}
              /\ UNCHANGED placed
           \/ /\ s.yield.as \in Takes(s.kind) /\ ~Unreadable(s.yield)
              /\ placed' = [p \in DOMAIN placed \cup {s.place} |->
                              IF p = s.place THEN [site |-> turn, known |-> known] ELSE placed[p]]
              /\ UNCHANGED faults

\* A bug that StructsKnown finds: structs of new items are not noted.
PlaceItemSilently ==
  /\ stage = "items" /\ turn <= Len(sites)
  /\ turn' = turn + 1
  /\ Place({"item"})
  /\ UNCHANGED <<program, sites, stage, known>>

\* Items come first, and the structs they declare are known to what follows.
PlaceItem ==
  /\ stage = "items" /\ turn <= Len(sites)
  /\ turn' = turn + 1
  /\ Place({"item"})
  /\ known' = IF placed' # placed /\ sites[turn].yield.decl # ""
              THEN known \cup {sites[turn].yield.decl} ELSE known
  /\ UNCHANGED <<program, sites, stage>>

ItemsPlaced ==
  /\ stage = "items" /\ turn > Len(sites)
  /\ GoTo("code")
  /\ UNCHANGED <<program, sites, known, placed, faults>>

PlaceCode ==
  /\ stage = "code" /\ turn <= Len(sites)
  /\ turn' = turn + 1
  /\ Place({"expr", "stmt"})
  /\ UNCHANGED <<program, sites, stage, known>>

Expanded ==
  /\ stage = "code" /\ turn > Len(sites)
  /\ GoTo(IF faults = {} THEN "done" ELSE "failed")
  /\ UNCHANGED <<program, sites, known, placed, faults>>

ExpandInit ==
  /\ program \in Sources
  /\ sites = <<>> /\ stage = "collect" /\ turn = 1 /\ known = {} /\ placed = <<>> /\ faults = {}

ExpandNext ==
  \/ Collect \/ CompileWrappers \/ Evaluate \/ Evaluated
  \/ PlaceItem \/ ItemsPlaced \/ PlaceCode \/ Expanded

----------------------------------------------------------------------------
(* The program that results *)

\* The outermost of the placed texts are in the program, what they replaced is not.
InProgram == {p \in DOMAIN placed : \A q \in DOMAIN placed : ~IsStrictPrefix(q, p)}
YieldAt(p) == sites[placed[p].site].yield
DeclaredStructs ==
  StructNames \cup {YieldAt(p).decl : p \in {q \in InProgram : sites[placed[q].site].kind = "item"}}

\* The expansions in items of some kinds that no text has replaced, but for those in closed forms.
Left(kinds, closed) ==
  {p \in Forms : /\ Kind(p) \in Calls /\ ItemKind(p) \in kinds /\ Entered(p, closed)
                 /\ \A q \in InProgram : ~IsPrefix(q, p)}

\* The type checker meets an expansion that is still there and rejects it (typecheck/expr.go,
\* evalConstExpr for constants).
LeftOver == Left({"fn", "expansion", "const"}, {}) # {} \/ \E p \in InProgram : YieldAt(p).calls

(***************************************************************************)
(* Properties                                                              *)
(***************************************************************************)

\* The texts of statements and expressions are read with every struct of the program known,
\* those that other expansions declare included, wherever they stand (Expand's two passes).
StructsKnown ==
  stage = "done" =>
    \A p \in InProgram :
      sites[placed[p].site].kind # "item" =>
        YieldAt(p).lits \cap DeclaredStructs \subseteq placed[p].known \cup {YieldAt(p).decl}

\* A successful expansion leaves no expansion in the parts of functions and items that are not
\* opaque: each is replaced, itself or with what contains it, by the text of the site that was
\* made for the replaced form (rewriteItem .. addSite and the slots).
AllReplaced ==
  stage = "done" =>
    /\ Left({"fn", "expansion"}, {"opaque"}) = {}
    /\ \A p \in InProgram : sites[placed[p].site].place = p

\* Evaluation is all or nothing: no text is placed in a program one of whose sites failed to
\* evaluate (Expand's early returns).
PlacedWhole == placed # <<>> => \A i \in DOMAIN sites : sites[i].yield # NoYield

ExpandSpec == ExpandInit /\ [][ExpandNext]_expandVars
=============================================================================
