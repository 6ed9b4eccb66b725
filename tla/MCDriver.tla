------------------------------ MODULE MCDriver ------------------------------
(* The command line on a small world.  For the loader: a package a with src and a module m   *)
(* in it, a package b, a standard library s with a module t, and perhaps a workspace around  *)
(* them.  For macro expansion: programs with expansions in every kind of place, and one     *)
(* yield of every kind.                                                                      *)
EXTENDS Driver

a == <<"a">>
src == <<"a", "src">>
m == <<"a", "src", "m">>
b == <<"b">>
t == <<"s", "t">>
WDirs == {<<>>, a, src, m, b, <<"s">>, t}
WSources == [d \in WDirs |-> IF d = src THEN {"lib", "test"} ELSE IF d \in {m, b, t} THEN {"lib"} ELSE {}]
WStd == <<"s">>

Line(sec, kind, name, up, to) == [in |-> sec, kind |-> kind, name |-> name, up |-> up, to |-> to]
PackageLine == Line("package", "header", "", 0, <<>>)
OnB(sec) == Line(sec, "path", "b", 1, <<"b">>)
ViaWorkspace == Line("dependencies", "workspace", "b", 0, <<>>)
AManifests == {<<PackageLine, OnB("dependencies")>>, <<PackageLine, ViaWorkspace, OnB("dev-dependencies")>>}
BManifests == {NoManifest, <<Line("dependencies", "path", "a", 1, <<"a">>)>>}
TopManifests == {NoManifest,
                 <<Line("workspace", "header", "", 0, <<>>), Line("workspace.dependencies", "path", "b", 0, <<"b">>)>>,
                 <<Line("workspace", "malformed", "", 0, <<>>)>>}
WTrees ==
  {[d \in WDirs |-> IF d = <<>> THEN top ELSE IF d = a THEN ma ELSE IF d = b THEN mb ELSE NoManifest] :
     top \in TopManifests, ma \in AManifests, mb \in BManifests}

Imp(kind, up, to) == [kind |-> kind, up |-> up, to |-> to, as |-> ""]
Text(imports) == [imports |-> imports, malformed |-> FALSE]
WTexts == {Text(<<>>), Text(<<Imp("name", 0, <<"b">>), Imp("relative", 0, <<"m">>)>>), Text(<<Imp("relative", 1, <<>>)>>),
           Text(<<Imp("name", 0, <<"a">>)>>), Text(<<Imp("name", 0, <<"std", "t">>), Imp("name", 0, <<"b">>)>>),
           [imports |-> <<Imp("name", 0, <<"m">>), Imp("name", 0, <<"std">>)>>, malformed |-> TRUE]}

Path(d, f) == [dir |-> d, file |-> f]
Cmd(paths, tests, multi) == [paths |-> paths, tests |-> tests, multi |-> multi]
WCommands == {Cmd(<<Path(a, "dir")>>, TRUE, FALSE), Cmd(<<Path(a, "dir")>>, FALSE, TRUE),
              Cmd(<<Path(src, "lib"), Path(m, "lib")>>, FALSE, TRUE), Cmd(<<Path(m, "test")>>, FALSE, TRUE)}

Form(kind, kids) == [kind |-> kind, kids |-> kids]
Leaf == Form("node", <<>>)
Call(arg) == Form("macro", <<arg>>)
Expansion(e) == Form("compile", <<e>>)
PItem(kind, name, macro, body) == [kind |-> kind, name |-> name, macro |-> macro, body |-> body]

\* Forms by their places.
RECURSIVE ByPlace(_, _)
ByPlace(form, place) ==
  {<<place, form.kind>>} \cup UNION {ByPlace(form.kids[i], Append(place, i)) : i \in DOMAIN form.kids}
ProgramOf(items) ==
  LET all == UNION {ByPlace(items[i].body, <<i>>) : i \in DOMAIN items}
  IN  [items |-> [i \in DOMAIN items |-> [kind |-> items[i].kind, name |-> items[i].name, macro |-> items[i].macro]],
       forms |-> [p \in {x[1] : x \in all} |-> (CHOOSE x \in all : x[1] = p)[2]]]
Fn(stmts) == PItem("fn", "f", FALSE, Form("block", stmts))
Struct(n) == PItem("struct", n, FALSE, Leaf)

WItems == {
  <<Struct("P"), Fn(<<Leaf>>)>>,
  <<Fn(<<Form("node", <<Expansion(Leaf)>>), Form("statement", <<Call(Leaf)>>)>>)>>,
  <<Fn(<<Form("node", <<Call(Call(Leaf))>>)>>), PItem("expansion", "", FALSE, Call(Leaf))>>,
  <<PItem("expansion", "", FALSE, Expansion(Leaf)), PItem("expansion", "", FALSE, Call(Leaf))>>,
  <<Fn(<<Form("statement", <<Expansion(Form("block", <<Form("node", <<Call(Leaf)>>)>>))>>)>>)>>,
  <<PItem("fn", "m", TRUE, Form("block", <<Form("opaque", <<Call(Leaf)>>)>>)), Fn(<<Form("node", <<Call(Leaf)>>)>>)>>,
  <<Fn(<<Form("opaque", <<Expansion(Leaf)>>), Form("node", <<Expansion(Leaf)>>)>>)>>,
  <<Fn(<<Form("statement", <<Form("badmacro", <<Call(Leaf)>>)>>)>>)>>,
  <<PItem("const", "c", FALSE, Expansion(Leaf)), Fn(<<Form("node", <<Leaf, Call(Form("bare", <<Call(Leaf)>>))>>)>>)>>}
WPrograms == {ProgramOf(items) : items \in WItems}

Yield(as, txt, lits, decl, calls) == [as |-> as, text |-> txt, lits |-> lits, decl |-> decl, calls |-> calls]
WYields == {
  Yield("AstExpr", "ok", {"Q"}, "", FALSE), Yield("AstStmt", "ok", {}, "", FALSE),
  Yield("AstItem", "ok", {}, "Q", FALSE), Yield("AstBlock", "ok", {}, "", TRUE),
  Yield("AstExprStmt", "garbled", {}, "", FALSE), Yield("int", "", {}, "", FALSE)}
=============================================================================
