------------------------------- MODULE Loader -------------------------------
(***************************************************************************)
(* The package loader (loader/loader.go): from the paths of a command line *)
(* to the set of modules (directories) of a program.  Two depth-first      *)
(* walks: loadPackage over the dependencies that manifests name, and       *)
(* loadModule over the imports of source files.  Both are recursive Go     *)
(* functions; pstack and stack are their activations.                      *)
(*                                                                         *)
(* A directory is the sequence of its names.  A manifest is the sequence   *)
(* of its meaningful lines, each with the section it stands in.  The text  *)
(* of a source file is what scanImports gives of it: the imports, but for  *)
(* those with an empty path, and whether it reported a malformed one.  It  *)
(* is chosen when the file is first read.                                  *)
(***************************************************************************)
EXTENDS Naturals, SequencesExt

CONSTANTS
  Dirs,        \* the directories that exist
  SourcesOf,   \* of a directory: its .dast files, among "lib" and "test"
  Std,         \* the standard library's root
  Trees,       \* assignments of a manifest, or NoManifest, to each directory
  Texts,       \* what a source file may import
  Commands,    \* command lines: [paths, tests, multi]
  NoManifest

VARIABLES
  cmd, tree, text,        \* the command line, the manifests, the texts read so far
  packages, pstack,       \* loadPackage: known packages, activations
  modules, stack,         \* loadModule: finished modules, activations
  lstage,                 \* where LoadProgram is
  diags,                  \* kinds of the diagnostics collected
  outcome                 \* "none" while loading; "ok", "diag", "cycle", "fatal"

worldVars == <<cmd, tree>>
loadVars == <<cmd, tree, text, packages, pstack, modules, stack, lstage, diags, outcome>>

LoaderAssumption ==
  /\ \A d \in Dirs : d \in Seq(STRING) /\ (d = <<>> \/ Front(d) \in Dirs)
  /\ \A d \in Dirs : SourcesOf[d] \subseteq {"lib", "test"}
  /\ Std \in Dirs /\ <<"none">> \notin Dirs
  /\ \A t \in Texts : t.imports \in Seq(Range(t.imports))
  /\ \A c \in Commands : c.paths \in Seq(Range(c.paths))
ASSUME LoaderAssumption

----------------------------------------------------------------------------
(* Paths *)

Within(d, root) == IsPrefix(root, d)
Join(base, up, names) ==
  SubSeq(base, 1, IF up > Len(base) THEN 0 ELSE Len(base) - up) \o names

NoDir == <<"none">>

\* The directory itself or the nearest one above it that is in S.
Nearest(d, S) ==
  LET good == Prefixes(d) \cap S
  IN  IF good = {} THEN NoDir ELSE CHOOSE e \in good : \A f \in good : Len(f) <= Len(e)

\* commonDir
CommonDir(ds) == LongestCommonPrefix(ds)

\* listDastFiles
Listed(d, tests) == {<<d, k>> : k \in {j \in SourcesOf[d] : tests \/ j # "test"}}

----------------------------------------------------------------------------
(* Manifests *)

\* The first line at which parseManifestInfo gives up; what follows is not seen.
BadLine(m) ==
  LET bad == {i \in DOMAIN m : \/ m[i].in = "workspace" /\ m[i].kind = "malformed"
                               \/ m[i].in = "workspace.dependencies" /\ m[i].kind \in {"malformed", "workspace"}}
  IN  IF bad = {} THEN Len(m) + 1 ELSE CHOOSE i \in bad : \A j \in bad : i <= j

Info(m) ==
  LET seen == {i \in DOMAIN m : i < BadLine(m)}
      deps(n) == {i \in seen : m[i].in = "workspace.dependencies" /\ m[i].name = n}
      names == {m[i].name : i \in {j \in seen : m[j].in = "workspace.dependencies"}}
  IN  [package   |-> \E i \in seen : m[i].in = "package",
       workspace |-> \E i \in DOMAIN m : i <= BadLine(m) /\ m[i].in = "workspace",
       deps      |-> [n \in names |-> m[CHOOSE i \in deps(n) : \A j \in deps(n) : j <= i]],
       failed    |-> BadLine(m) <= Len(m)]

\* parseManifestDeps, and the order in which loadPackage goes through the result.
DepLines(m, section) ==
  SelectSeq(m, LAMBDA l : l.in = section /\ l.kind # "malformed")
DepsOf(m, tests) ==
  DepLines(m, "dependencies") \o (IF tests THEN DepLines(m, "dev-dependencies") ELSE <<>>)
    \o DepLines(m, "build-dependencies")
DepsFailed(m) ==
  \E i \in DOMAIN m : /\ m[i].in \in {"dependencies", "dev-dependencies", "build-dependencies"}
                      /\ m[i].kind = "malformed"

HasManifest(d) == d \in Dirs /\ tree[d] # NoManifest
PackageRoot(d) == Nearest(d, {e \in Dirs : HasManifest(e)})
WorkspaceRoot(d) == Nearest(d, {e \in Dirs : HasManifest(e) /\ Info(tree[e]).workspace})

CodeRoot(root, package) ==
  IF package /\ Append(root, "src") \in Dirs THEN Append(root, "src") ELSE root

----------------------------------------------------------------------------
(* loadPackage *)

\* What a new activation does before it looks at dependencies.
Package(root) ==
  LET m == tree[root]
      isPackage == m = NoManifest \/ Info(m).package
  IN  [code |-> CodeRoot(root, isPackage), deps |-> <<>>, tests |-> cmd.tests,
       workspace |-> WorkspaceRoot(root)]
ManifestDiags(root) ==
  LET m == tree[root]
      ws == WorkspaceRoot(root)
  IN  IF \/ m # NoManifest /\ (Info(m).failed \/ DepsFailed(m))
         \/ ws # NoDir /\ Info(tree[ws]).failed
      THEN {"manifest"} ELSE {}
EnterPackage(root) ==
  /\ packages' = [d \in DOMAIN packages \cup {root} |->
                    IF d = root THEN Package(root) ELSE packages[d]]
  /\ pstack' = <<[root |-> root, todo |-> IF tree[root] = NoManifest THEN <<>>
                                           ELSE DepsOf(tree[root], cmd.tests)]>> \o pstack
  /\ diags' = diags \cup ManifestDiags(root)

\* Where a dependency leads, or why it leads nowhere.
DepTarget(root, spec) ==
  LET pkg == packages[root]
      ws == pkg.workspace
      viaWs == spec.kind = "workspace"
      wsDeps == Info(tree[ws]).deps
      path == IF viaWs THEN wsDeps[spec.name] ELSE spec
      target == Join(IF viaWs THEN ws ELSE root, path.up, path.to)
  IN  IF spec.name \in DOMAIN pkg.deps THEN [why |-> "duplicate"]
      ELSE IF viaWs /\ ws = NoDir THEN [why |-> "no workspace"]
      ELSE IF viaWs /\ spec.name \notin DOMAIN wsDeps THEN [why |-> "not in workspace"]
      ELSE IF path.kind = "absolute" THEN [why |-> "absolute"]
      ELSE IF target \notin Dirs THEN [why |-> "not found"]
      ELSE [why |-> "", root |-> target]

Loading == {pstack[i].root : i \in DOMAIN pstack}

\* A bug that CommandEnds finds: the loop does not get on.
NextDepStays(rest) == pstack' = pstack

NextDep(rest) == pstack' = [pstack EXCEPT ![1].todo = rest]

\* One round of the loop over the dependencies.  The recursive call comes back to the same
\* dependency, which is then in packages.
LoadDep ==
  /\ lstage = "packages" /\ pstack # <<>> /\ Head(pstack).todo # <<>>
  /\ LET top == Head(pstack)
         spec == Head(top.todo)
         t == DepTarget(top.root, spec)
     IN  \/ /\ t.why # ""
            /\ diags' = diags \cup {"dependency"}
            /\ NextDep(Tail(top.todo))
            /\ UNCHANGED packages
         \/ /\ t.why = "" /\ t.root \in DOMAIN packages
            /\ packages' = [packages EXCEPT ![top.root].deps =
                 [n \in DOMAIN @ \cup {spec.name} |-> IF n = spec.name THEN t.root ELSE @[n]]]
            /\ NextDep(Tail(top.todo))
            /\ UNCHANGED diags
         \/ /\ t.why = "" /\ t.root \notin DOMAIN packages
            /\ EnterPackage(t.root)
  /\ UNCHANGED <<worldVars, text, modules, stack, lstage, outcome>>

LeavePackage ==
  /\ lstage = "packages" /\ pstack # <<>> /\ Head(pstack).todo = <<>>
  /\ pstack' = Tail(pstack)
  /\ UNCHANGED <<worldVars, text, packages, modules, stack, lstage, diags, outcome>>

----------------------------------------------------------------------------
(* resolveEntry *)

Paths == ToSet(cmd.paths)
Missing(p) == p.dir \notin Dirs \/ (p.file # "dir" /\ p.file \notin SourcesOf[p.dir])
Single == Len(cmd.paths) = 1 /\ cmd.paths[1].file = "dir" /\ ~Missing(cmd.paths[1])
EntryDir == IF ~Single /\ cmd.multi THEN CommonDir({p.dir : p \in Paths}) ELSE cmd.paths[1].dir
EntryRoot ==
  IF (Single \/ ~cmd.multi) /\ PackageRoot(EntryDir) # NoDir THEN PackageRoot(EntryDir) ELSE EntryDir
EntryFiles ==
  UNION {IF p.file = "dir" THEN Listed(p.dir, cmd.tests) ELSE {<<p.dir, p.file>>} : p \in Paths}

Stop(result) ==
  /\ outcome' = result
  /\ lstage' = "done"
  /\ UNCHANGED <<worldVars, text, packages, pstack, modules, stack, diags>>

\* Up to the call of loadPackage for the package of the entry.
ResolveEntry ==
  /\ lstage = "entry"
  /\ IF ~Single /\ \E p \in Paths : Missing(p) \/ (p.file = "dir" /\ Listed(p.dir, cmd.tests) = {})
     THEN Stop("fatal")
     ELSE /\ EnterPackage(EntryRoot)
          /\ lstage' = "packages"
          /\ UNCHANGED <<worldVars, text, modules, stack, outcome>>

\* A new activation of loadModule for a directory that is neither loaded nor being loaded.
Activation(d, pkg, files) ==
  [dir |-> d, pkg |-> pkg, files |-> files, todo |-> files, imports |-> <<>>, aliases |-> {}]

\* The directory that the entry's files are taken from: of a package, that of its code.
CodeDir ==
  IF Single /\ PackageRoot(EntryDir) # NoDir /\ EntryDir = EntryRoot THEN packages[EntryRoot].code ELSE EntryDir

\* A bug that OneModulePerFile finds: the module keeps the directory of the command line.
EntryModuleAsGiven == EntryDir

\* The directory that the entry's module goes by.
EntryModule == CodeDir

\* What resolveEntry does behind loadPackage, and the call of loadModule for the entry.
EnterEntry ==
  LET code == packages[EntryRoot].code
      found == PackageRoot(EntryDir) # NoDir
      dir == CodeDir
      listed == IF Single THEN Listed(dir, cmd.tests) ELSE EntryFiles
  IN  /\ lstage = "packages" /\ pstack = <<>>
      /\ IF \/ Single /\ found /\ ~Within(dir, code)
            \/ ~Single /\ ~cmd.multi /\ (~Within(dir, code) \/ \E f \in listed : f[1] # dir)
            \/ diags = {} /\ listed = {}   \* "no .dast files", said by loadModule
         THEN Stop("fatal")
         ELSE IF diags # {} THEN Stop("diag")
         ELSE /\ stack' = <<Activation(EntryModule, EntryRoot, listed)>>
              /\ lstage' = "modules"
              /\ UNCHANGED <<worldVars, text, packages, pstack, modules, diags, outcome>>

----------------------------------------------------------------------------
(* loadModule *)

\* resolveImport.  A standard library module keeps the package of the module that imports it; "std"
\* alone is a directory of that name in the library.
Resolve(known, pkg, cur, imp) ==
  LET code == known[pkg].code
      deps == known[pkg].deps
      first == IF imp.to = <<>> THEN "" ELSE Head(imp.to)
      at == IF imp.kind = "relative" THEN [dir |-> Join(cur, imp.up, imp.to), in |-> code, pkg |-> pkg]
            ELSE IF first = "std" THEN [dir |-> Std \o IF Len(imp.to) = 1 THEN imp.to ELSE Tail(imp.to), in |-> Std, pkg |-> pkg]
            ELSE IF first \in DOMAIN deps
                 THEN LET c == known[deps[first]].code
                      IN  [dir |-> c \o Tail(imp.to), in |-> c, pkg |-> deps[first]]
            ELSE [dir |-> code \o imp.to, in |-> code, pkg |-> pkg]
  IN  IF imp.kind = "absolute" \/ ~Within(at.dir, at.in) \/ at.dir \notin Dirs
      THEN [dir |-> NoDir, pkg |-> pkg]
      ELSE [dir |-> at.dir, pkg |-> at.pkg]

\* A bug that CycleReal finds: a module stays marked when it is loaded.
VisitingKept == {stack[i].dir : i \in DOMAIN stack} \cup DOMAIN modules

Visiting == {stack[i].dir : i \in DOMAIN stack}
Top == Head(stack)
Alias(imp) == IF imp.as # "" THEN imp.as ELSE Last(<<"">> \o imp.to)

\* scanImports on the next file, in some fixed order.
NextFile == CHOOSE f \in Top.todo : TRUE
ScanFile ==
  /\ lstage = "modules" /\ stack # <<>> /\ Top.imports = <<>> /\ Top.todo # {}
  /\ \E t \in IF NextFile \in DOMAIN text THEN {text[NextFile]} ELSE Texts :
       /\ text' = [g \in DOMAIN text \cup {NextFile} |-> IF g = NextFile THEN t ELSE text[g]]
       /\ diags' = IF t.malformed THEN diags \cup {"import"} ELSE diags
       /\ stack' = <<[Top EXCEPT !.todo = @ \ {NextFile}, !.imports = t.imports]>> \o Tail(stack)
  /\ UNCHANGED <<worldVars, packages, pstack, modules, lstage, outcome>>

\* The file is gone or cannot be read.
ReadFails ==
  /\ lstage = "modules" /\ stack # <<>> /\ Top.imports = <<>> /\ Top.todo # {}
  /\ Stop("fatal")

\* The import is dealt with in this activation: resolved to nothing, or to a loaded module.
Past(imp) == <<[Top EXCEPT !.imports = Tail(@), !.aliases = @ \cup {Alias(imp)}]>> \o Tail(stack)
Imported(imp) == stack' = Past(imp)

Import ==
  /\ lstage = "modules" /\ stack # <<>> /\ Top.imports # <<>>
  /\ LET imp == Head(Top.imports)
         t == Resolve(packages, Top.pkg, Top.dir, imp)
     IN  \/ /\ t.dir = NoDir
            /\ diags' = diags \cup {"import"}
            /\ Imported(imp)
            /\ UNCHANGED <<modules, lstage, outcome>>
         \/ /\ t.dir # NoDir /\ t.dir \in Visiting
            /\ outcome' = "cycle" /\ lstage' = "done"
            /\ stack' = <<Activation(t.dir, t.pkg, {})>> \o stack   \* what the message shows
            /\ UNCHANGED <<modules, diags>>
         \/ /\ t.dir # NoDir /\ t.dir \in DOMAIN modules \ Visiting
            /\ Imported(imp)
            /\ UNCHANGED <<modules, diags, lstage, outcome>>
         \/ /\ t.dir \in Dirs \ (Visiting \cup DOMAIN modules)
            /\ IF Listed(t.dir, FALSE) = {}
               THEN outcome' = "fatal" /\ lstage' = "done" /\ UNCHANGED stack
               ELSE /\ stack' = <<Activation(t.dir, t.pkg, Listed(t.dir, FALSE))>> \o Past(imp)
                    /\ UNCHANGED <<lstage, outcome>>
            /\ UNCHANGED <<modules, diags>>
  /\ UNCHANGED <<worldVars, text, packages, pstack>>

\* A bug that BuildsClosure finds: the imports of the last file are left out.
FinishModuleEarly ==
  /\ lstage = "modules" /\ stack # <<>> /\ Top.todo = {}
  /\ modules' = [d \in DOMAIN modules \cup {Top.dir} |->
                   IF d = Top.dir THEN [files |-> Top.files, aliases |-> Top.aliases, pkg |-> Top.pkg]
                   ELSE modules[d]]
  /\ stack' = Tail(stack)
  /\ UNCHANGED <<worldVars, text, packages, pstack, lstage, diags, outcome>>

FinishModule ==
  /\ lstage = "modules" /\ stack # <<>> /\ Top.imports = <<>> /\ Top.todo = {}
  /\ modules' = [d \in DOMAIN modules \cup {Top.dir} |->
                   IF d = Top.dir THEN [files |-> Top.files, aliases |-> Top.aliases, pkg |-> Top.pkg]
                   ELSE modules[d]]
  /\ stack' = Tail(stack)
  /\ UNCHANGED <<worldVars, text, packages, pstack, lstage, diags, outcome>>

\* A bug that ImportsClosed finds: the diagnostics are not looked at.
FinishLoadAnyway ==
  /\ lstage = "modules" /\ stack = <<>>
  /\ Stop("ok")

\* The entry is loaded: diagnostics end the program here.  Then all files are read once more, now
\* for the parser, which may have diagnostics of its own.
FinishLoad ==
  /\ lstage = "modules" /\ stack = <<>>
  /\ \E result \in IF diags = {} THEN {"ok", "diag", "fatal"} ELSE {"diag"} : Stop(result)

LoadInit ==
  /\ cmd \in Commands /\ tree \in Trees
  /\ text = <<>> /\ packages = <<>> /\ pstack = <<>> /\ modules = <<>> /\ stack = <<>>
  /\ lstage = "entry" /\ diags = {} /\ outcome = "none"

LoadNext ==
  \/ ResolveEntry \/ LoadDep \/ LeavePackage \/ EnterEntry
  \/ ScanFile \/ ReadFails \/ Import \/ FinishModule \/ FinishLoad

(***************************************************************************)
(* Properties                                                              *)
(***************************************************************************)

\* What a source text leads to in a package: directories, NoDir for an import without target.
Targets(known, pkg, d, t) ==
  {Resolve(known, pkg, d, t.imports[i]).dir : i \in DOMAIN t.imports} \cup (IF t.malformed THEN {NoDir} ELSE {})
Uses(d) == UNION {Targets(packages, modules[d].pkg, d, text[f]) : f \in modules[d].files}

\* An accepted program is complete: the imports of all its files have been resolved, to modules
\* that are part of it, and its packages are there with all they depend on (LoadProgram's map of
\* modules, what it drops on errors).
ImportsClosed ==
  outcome = "ok" =>
    /\ \A d \in DOMAIN modules : modules[d].files \subseteq DOMAIN text /\ Uses(d) \subseteq DOMAIN modules
    /\ \A p \in DOMAIN packages : \A n \in DOMAIN packages[p].deps : packages[p].deps[n] \in DOMAIN packages

\* A reported circular import is one: each module on the reported way imports the next, and the
\* last one has been on it before (loadModule's stack and visiting).
CycleReal ==
  outcome = "cycle" /\ lstage = "done" =>
    /\ \E i \in 2 .. Len(stack) : stack[i].dir = stack[1].dir
    /\ \A i \in 1 .. Len(stack) - 1 :
         \E f \in stack[i + 1].files \cap DOMAIN text :
           stack[i].dir \in Targets(packages, stack[i + 1].pkg, stack[i + 1].dir, text[f])

\* Unless files of several directories are given, no file is in two modules, so that it does not
\* depend on Go's map order which module's import names hold in it (fileAliases in LoadProgram).
OneModulePerFile ==
  outcome = "ok" /\ Cardinality({f[1] : f \in EntryFiles}) <= 1 =>
    \A d, e \in DOMAIN modules : d # e => modules[d].files \cap modules[e].files = {}

\* The graph of imports among finished modules is built from the leaves, and what is accepted has
\* no import that leads nowhere (the order of loadModule's recursion, LoadProgram's diagnostics).
Imports == [d \in DOMAIN modules |-> Uses(d)]
Closure == INSTANCE ImportClosure
  WITH uses <- Imports, verdict <- outcome, Nowhere <- NoDir
BuildsClosure == Closure!ClosureSpec

LoadSpec == LoadInit /\ [][LoadNext]_loadVars
=============================================================================
