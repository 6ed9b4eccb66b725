------------------------------ MODULE TreeWalks ------------------------------
(***************************************************************************)
(* The recursive functions of the front end that walk the syntax tree, and *)
(* how far each gets.  They are written one by one, with a case for each   *)
(* kind of node, in six packages; a program goes through several of them,  *)
(* and each relies on those in front of it having been everywhere.  A walk *)
(* is the set of the parts <<kind, part>> that it follows or treats; what  *)
(* it has no case for it leaves as it is.                                  *)
(*                                                                         *)
(* A behaviour descends from an item to some node and keeps which of the   *)
(* walks have come along: every path of every tree, of any depth.          *)
(***************************************************************************)
EXTENDS Ast

VARIABLES
  root,     \* the kind of item at the top
  at,       \* the kind of the node reached
  inside,   \* of "function" and "pattern": what the path leads through
  come      \* the walks that reach the node

walkVars == <<root, at, inside, come>>

----------------------------------------------------------------------------
(* loader: stripModulePrefixes.  The prefixes of imported modules go.      *)

StripItem ==
  PartsOf({"Function", "Struct", "Enum", "Const", "Impl", "CompileItem"})
    \ (OfSort(PartsOf(DOMAIN ItemParts), {"Bind"}) \cup {<<"Impl", "typeArgs">>}
         \cup {<<k, "bounds">> : k \in {"Function", "Struct", "Enum", "Impl"}})
StripStmt == PartsOf(DOMAIN StmtParts) \ {<<"Let", "name">>}
StripPattern ==
  PartsOf({"Variant", "StructPat", "Or", "TuplePat", "ArrayPat"}) \ {<<"Variant", "binding">>, <<"StructPat", "bindings">>}
StripType == {<<"Type", "elem">>, <<"Type", "tuple">>, <<"Type", "name">>}
\* A bug that StrippedWhereEvaluated finds: no case for if expressions.
StripExprNoIf ==
  PartsOf(DOMAIN ExprParts \ {"Closure", "IfExpr"}) \ {<<k, "typeArgs">> : k \in {"Call", "StructLit", "EnumVariant"}}
StripExpr ==
  PartsOf(DOMAIN ExprParts \ {"Closure"}) \ {<<k, "typeArgs">> : k \in {"Call", "StructLit", "EnumVariant"}}
Strip == StripItem \cup StripStmt \cup StripPattern \cup StripType \cup StripExpr

----------------------------------------------------------------------------
(* macroexpand: the search for compile! and macro calls.                   *)

ExpandItem == {<<"Function", "body">>, <<"Impl", "methods">>, <<"CompileItem", "expr">>}
ExpandStmt ==
  OfSort(PartsOf(DOMAIN StmtParts \ {"For", "Break"}), {"Expr", "Stmt", "Block"})
ExpandExpr ==
  OfSort(PartsOf(DOMAIN ExprParts \ {"Closure", "Quote"}), {"Expr", "Block"})
Expand == ExpandItem \cup ExpandStmt \cup ExpandExpr

----------------------------------------------------------------------------
(* typecheck: expandAliasesInProgram.                                      *)

AliasItem ==
  {<<"Const", "type">>} \cup
    (OfSort(PartsOf({"Function", "Struct", "Enum", "TypeAlias", "Impl", "ImplTrait"}), {"Type", "Block", "Method"})
       \ {<<k, "bounds">> : k \in DOMAIN ItemParts})
AliasStmt == OfSort(PartsOf(DOMAIN StmtParts), {"Type", "Expr", "Block", "Stmt"})
AliasExpr == OfSort(PartsOf(DOMAIN ExprParts \ {"Closure"}), {"Type", "Expr", "Block"})
AliasType == PartsOf({"Type"})
Aliases == AliasItem \cup AliasStmt \cup AliasExpr \cup AliasType

----------------------------------------------------------------------------
(* typecheck: cloneFunction, which substitutes type parameters in a copy.  *)

CloneFunction ==
  (PartsOf({"Function"}) \ {<<"Function", "bounds">>}) \cup {<<"Impl", "methods">>, <<"ImplTrait", "methods">>}
\* A bug that SubstitutedWhereExpanded finds: no case for while let.
CloneStmtNoWhileLet == PartsOf(DOMAIN StmtParts \ {"WhileLet"})
CloneStmt == PartsOf(DOMAIN StmtParts)
CloneExpr == PartsOf(DOMAIN ExprParts \ {"Closure"})
ClonePattern == PartsOf(DOMAIN PatternParts)
CloneType == PartsOf({"Type"})
Clone == CloneFunction \cup CloneStmt \cup CloneExpr \cup ClonePattern \cup CloneType

----------------------------------------------------------------------------
(* interp: quote's template is renamed (hygiene), then placeholders in it  *)
(* are replaced by what is spliced in.                                     *)

RenameItem == {<<"Function", "paramNames">>, <<"Function", "body">>, <<"Impl", "methods">>}
RenameStmt ==
  OfSort(PartsOf(DOMAIN StmtParts \ {"For", "Break"}), {"Bind", "Pattern", "Expr", "Block", "Stmt"})
\* A bug that RenamedWhereSpliced finds: names in a match are not renamed.
RenameExprNoMatch ==
  OfSort(PartsOf(DOMAIN ExprParts \ {"MatchExpr", "TupleLit", "LoopExpr", "Closure", "Quote"}), {"Expr", "Pattern", "Block"})
    \cup {<<"Ident", "name">>}
RenameExpr ==
  OfSort(PartsOf(DOMAIN ExprParts \ {"TupleLit", "LoopExpr", "Closure", "Quote"}), {"Expr", "Pattern", "Block"})
    \cup {<<"Ident", "name">>}
RenamePattern ==
  OfSort(PartsOf({"Binding", "Variant", "StructPat", "TuplePat", "ArrayPat", "Or"}), {"Bind", "Pattern"})
Rename == RenameItem \cup RenameStmt \cup RenameExpr \cup RenamePattern

ReplaceItem ==
  PartsOf({"Function", "Struct", "Enum", "Const", "Impl"})
    \ ({<<k, "bounds">> : k \in DOMAIN ItemParts} \cup {<<"Impl", "typeArgs">>})
ReplaceStmt == PartsOf(DOMAIN StmtParts \ {"For", "Break"})
ReplaceExpr ==
  PartsOf(DOMAIN ExprParts \ {"TupleLit", "LoopExpr", "Closure", "Quote"})
    \ ({<<k, "typeArgs">> : k \in DOMAIN ExprParts} \cup {<<"Call", "callee">>})
ReplacePattern == PartsOf({"Binding", "Variant", "StructPat", "TuplePat", "ArrayPat", "Or"})
ReplaceType == {<<"Type", "name">>, <<"Type", "elem">>}
Replace == ReplaceItem \cup ReplaceStmt \cup ReplaceExpr \cup ReplacePattern \cup ReplaceType

----------------------------------------------------------------------------

Follows ==
  [strip |-> Strip, expand |-> Expand, alias |-> Aliases, clone |-> Clone,
   rename |-> Rename, replace |-> Replace]

WalkInit ==
  /\ root \in DOMAIN ItemParts /\ at = root
  /\ inside = IF root = "Function" THEN {"function"} ELSE {}
  /\ come = DOMAIN Follows

\* One part further down.
Descend ==
  \E p \in Parts[at] :
    /\ at' \in KindsOf(p[2])
    /\ inside' = inside \cup (IF at' = "Function" THEN {"function"} ELSE {})
                        \cup (IF at' \in DOMAIN PatternParts THEN {"pattern"} ELSE {})
    /\ come' = {w \in come : <<at, p[1]>> \in Follows[w]}
    /\ UNCHANGED root

WalkSpec == WalkInit /\ [][Descend]_walkVars

(***************************************************************************)
(* Properties                                                              *)
(***************************************************************************)

\* Where something can be spliced into a template, the template's own names around it have been
\* renamed: the pass that replaces never gets further than the one that renames (quote.go).
RenamedWhereSpliced ==
  /\ root \in {"Function", "Impl"} /\ at \in DOMAIN StmtParts \cup DOMAIN ExprParts \cup DOMAIN PatternParts
  => ("replace" \in come <=> "rename" \in come)

\* In a function's copy for some type arguments, a type in which aliases are expanded has had its
\* type parameters substituted, and the other way round but for what patterns contain: no type is
\* half concrete (clone.go when the copy is made, alias.go on the whole program in the end).
SubstitutedWhereExpanded ==
  at = "Type" /\ "function" \in inside =>
    /\ "alias" \in come => "clone" \in come
    /\ "clone" \in come /\ "pattern" \notin inside => "alias" \in come

\* A macro call or compile! that is evaluated has lost its module prefixes, its own and those of
\* all it contains that is evaluated with it (loader.go, then expand.go).
StrippedWhereEvaluated ==
  "expand" \in come /\ at \in DOMAIN ExprParts => "strip" \in come
=============================================================================
