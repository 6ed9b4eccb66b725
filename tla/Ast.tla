--------------------------------- MODULE Ast ---------------------------------
(***************************************************************************)
(* The syntax tree (package ast) as a graph of kinds: the parts that a     *)
(* node of a kind has, each with the sort of what stands there.  "Use" is  *)
(* a name that refers to a variable, function or type, "Bind" a name that  *)
(* introduces one.  A list is one part; names of fields, variants and      *)
(* methods are left out.                                                   *)
(***************************************************************************)
ItemParts ==
  [Function |-> {<<"name", "Bind">>, <<"bounds", "Type">>, <<"paramNames", "Bind">>, <<"params", "Type">>,
                 <<"result", "Type">>, <<"body", "Block">>},
   Import |-> {},
   Struct |-> {<<"name", "Bind">>, <<"bounds", "Type">>, <<"fields", "Type">>},
   Enum |-> {<<"name", "Bind">>, <<"bounds", "Type">>, <<"payloads", "Type">>},
   Const |-> {<<"name", "Bind">>, <<"type", "Type">>, <<"expr", "Expr">>},
   Impl |-> {<<"type", "Use">>, <<"typeArgs", "Type">>, <<"bounds", "Type">>, <<"methods", "Method">>},
   Trait |-> {<<"name", "Bind">>, <<"bounds", "Type">>, <<"paramNames", "Bind">>, <<"params", "Type">>,
              <<"result", "Type">>},
   ImplTrait |-> {<<"trait", "Use">>, <<"traitArgs", "Type">>, <<"for", "Use">>, <<"forArgs", "Type">>,
                  <<"bounds", "Type">>, <<"methods", "Method">>},
   TypeAlias |-> {<<"name", "Bind">>, <<"bounds", "Type">>, <<"value", "Type">>},
   CompileItem |-> {<<"expr", "Expr">>}]

MatchParts == {<<"expr", "Expr">>, <<"patterns", "Pattern">>, <<"guards", "Expr">>, <<"bodies", "Block">>}

StmtParts ==
  [Block |-> {<<"stmts", "Stmt">>},
   Let |-> {<<"name", "Bind">>, <<"type", "Type">>, <<"init", "Expr">>},
   LetPattern |-> {<<"pattern", "Pattern">>, <<"type", "Type">>, <<"init", "Expr">>},
   Assign |-> {<<"target", "Expr">>, <<"value", "Expr">>},
   ExprStmt |-> {<<"expr", "Expr">>},
   Return |-> {<<"value", "Expr">>},
   IfStmt |-> {<<"cond", "Expr">>, <<"then", "Block">>, <<"else", "Block">>},
   IfLet |-> {<<"pattern", "Pattern">>, <<"expr", "Expr">>, <<"then", "Block">>, <<"else", "Block">>},
   While |-> {<<"cond", "Expr">>, <<"body", "Block">>},
   WhileLet |-> {<<"pattern", "Pattern">>, <<"expr", "Expr">>, <<"body", "Block">>},
   LoopStmt |-> {<<"body", "Block">>},
   Break |-> {<<"value", "Expr">>},
   Continue |-> {},
   MatchStmt |-> MatchParts,
   For |-> {<<"pattern", "Pattern">>, <<"expr", "Expr">>, <<"body", "Block">>}]

ExprParts ==
  [Ident |-> {<<"name", "Use">>},
   Literal |-> {},
   ArrayLit |-> {<<"elems", "Expr">>},
   TupleLit |-> {<<"elems", "Expr">>},
   Unary |-> {<<"expr", "Expr">>},
   RefTo |-> {<<"expr", "Expr">>},
   Deref |-> {<<"expr", "Expr">>},
   Binary |-> {<<"left", "Expr">>, <<"right", "Expr">>},
   Call |-> {<<"callee", "Use">>, <<"typeArgs", "Type">>, <<"args", "Expr">>},
   MethodCall |-> {<<"receiver", "Expr">>, <<"args", "Expr">>},
   Closure |-> {<<"paramNames", "Bind">>, <<"params", "Type">>, <<"result", "Type">>, <<"body", "Expr">>},
   StructLit |-> {<<"name", "Use">>, <<"typeArgs", "Type">>, <<"fields", "Expr">>},
   Access |-> {<<"receiver", "Expr">>},
   Index |-> {<<"receiver", "Expr">>, <<"index", "Expr">>},
   EnumVariant |-> {<<"enum", "Use">>, <<"typeArgs", "Type">>, <<"arg", "Expr">>},
   BlockExpr |-> {<<"block", "Block">>},
   LoopExpr |-> {<<"body", "Block">>},
   IfExpr |-> {<<"cond", "Expr">>, <<"then", "Expr">>, <<"else", "Expr">>},
   MatchExpr |-> MatchParts,
   Compile |-> {<<"expr", "Expr">>},
   MacroCall |-> {<<"callee", "Expr">>, <<"args", "Expr">>},
   Quote |-> {<<"parts", "Expr">>}]

PatternParts ==
  [Wildcard |-> {},
   Binding |-> {<<"name", "Bind">>},
   Variant |-> {<<"enum", "Use">>, <<"binding", "Bind">>, <<"payload", "Pattern">>},
   LiteralPat |-> {},
   Range |-> {<<"ends", "Expr">>},
   Or |-> {<<"alts", "Pattern">>},
   StructPat |-> {<<"struct", "Use">>, <<"bindings", "Bind">>, <<"fields", "Pattern">>},
   TuplePat |-> {<<"elems", "Pattern">>},
   ArrayPat |-> {<<"elems", "Pattern">>}]

TypeParts ==
  [Type |-> {<<"name", "Use">>, <<"elem", "Type">>, <<"tuple", "Type">>, <<"args", "Type">>}]

NodeKinds ==
  DOMAIN ItemParts \cup DOMAIN StmtParts \cup DOMAIN ExprParts \cup DOMAIN PatternParts \cup DOMAIN TypeParts
    \cup {"Use", "Bind"}
Parts ==
  [k \in NodeKinds |->
     CASE k \in DOMAIN ItemParts    -> ItemParts[k]
       [] k \in DOMAIN StmtParts    -> StmtParts[k]
       [] k \in DOMAIN ExprParts    -> ExprParts[k]
       [] k \in DOMAIN PatternParts -> PatternParts[k]
       [] k \in DOMAIN TypeParts    -> TypeParts[k]
       [] OTHER                     -> {}]

KindsOf(sort) ==
  CASE sort = "Method"  -> {"Function"}
    [] sort = "Block"   -> {"Block"}
    [] sort = "Stmt"    -> DOMAIN StmtParts
    [] sort = "Expr"    -> DOMAIN ExprParts
    [] sort = "Pattern" -> DOMAIN PatternParts
    [] OTHER            -> {sort}

\* All parts of nodes of some kinds, and those of them at which a sort of node stands.
PartsOf(kinds) == UNION {{<<k, p[1]>> : p \in Parts[k]} : k \in kinds}
OfSort(parts, sorts) == {e \in parts : \E s \in sorts : <<e[2], s>> \in Parts[e[1]]}
=============================================================================
