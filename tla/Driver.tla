------------------------------- MODULE Driver -------------------------------
(***************************************************************************)
(* The dast command line (cmd/dast/main.go): one process that takes a      *)
(* program through the loader, macro expansion, the type checker, the      *)
(* compiler and validation, and then prints, writes, builds or runs it.    *)
(* Loader and MacroExpand are composed here; their maps are local          *)
(* variables of LoadProgram and Expand and are gone when these return.     *)
(* The checker, the compiler, the optimizer and the tools that are started *)
(* are represented by whether they succeed.                                *)
(***************************************************************************)
EXTENDS Loader, MacroExpand

VARIABLES
  verb,      \* the command
  step,      \* what the process does next
  left,      \* the program still contains expansions
  frames,    \* functions with a deferred removal of their directory, innermost first
  keep,      \* DAST_KEEP_TMP is set
  temps,     \* temporary directories that exist
  failure,   \* the error on its way up: "none", "error", or the status of a tool or program
  made,      \* what the command has produced
  exit       \* the status the process ended with, "running" before, "killed"

driverVars == <<verb, step, left, frames, keep, temps, failure, made, exit>>
allVars == <<loadVars, expandVars, driverVars>>

FromSource == {"build", "run", "test", "ir"}
FromIR == {"ir-run", "ir-verify", "ir-opt", "ir-qbe"}
Verbs == FromSource \cup FromIR \cup {"help", "other"}

LoadIdle == UNCHANGED loadVars
ExpandIdle == UNCHANGED expandVars
Keeping(vs) == LoadIdle /\ ExpandIdle /\ UNCHANGED vs

Running == exit = "running"

\* os.Exit, or main returning: deferred calls of frames that have not returned do not run.
Exit(code) ==
  /\ exit' = code
  /\ step' = "over"
  /\ Keeping(<<verb, left, frames, keep, temps, failure, made>>)

GoOn(next) ==
  /\ step' = next
  /\ Keeping(<<verb, left, frames, keep, temps, failure, made, exit>>)

Produce(what, code) ==
  /\ made' = made \cup {what}
  /\ exit' = code
  /\ step' = "over"
  /\ Keeping(<<verb, left, frames, keep, temps, failure>>)

\* A step that may go wrong with a message and status 1.
OrFails(next) == GoOn(next) \/ Exit("1")

----------------------------------------------------------------------------
(* Arguments *)

\* No file, an unknown target or --emit-ir with --emit-qbe is an error.  build takes --target
\* for a file name, which the loader does not find, and has its own --help.
Arguments ==
  /\ Running /\ step = "arguments"
  /\ \/ verb # "help" /\ Exit("1")
     \/ verb \in {"help", "build"} /\ Produce("usage", "0")
     \/ verb \in FromSource /\ GoOn("load")
     \/ verb \in FromIR /\ GoOn("read")

----------------------------------------------------------------------------
(* buildProgram *)

Load ==
  /\ Running /\ step = "load" /\ outcome = "none"
  /\ LoadNext
  /\ ExpandIdle /\ UNCHANGED driverVars

Loaded ==
  /\ Running /\ step = "load" /\ outcome # "none"
  /\ text' = <<>> /\ packages' = <<>> /\ pstack' = <<>> /\ modules' = <<>> /\ stack' = <<>> /\ diags' = {}
  /\ lstage' = "returned"
  /\ UNCHANGED <<worldVars, outcome>>
  /\ IF outcome = "ok"
     THEN step' = "expand" /\ exit' = exit /\ program' \in Sources /\ stage' = "collect"
     ELSE step' = "over" /\ exit' = "1" /\ UNCHANGED <<program, stage>>
  /\ UNCHANGED <<sites, turn, known, placed, faults>>
  /\ UNCHANGED <<verb, left, frames, keep, temps, failure, made>>

Expand ==
  /\ Running /\ step = "expand" /\ stage \notin {"done", "failed"}
  /\ ExpandNext
  /\ LoadIdle /\ UNCHANGED driverVars

ExpandDone ==
  /\ Running /\ step = "expand" /\ stage \in {"done", "failed"}
  /\ program' = NoProgram /\ sites' = <<>> /\ turn' = 1 /\ known' = {} /\ placed' = <<>> /\ faults' = {}
  /\ stage' = "over"
  /\ left' = (stage = "done" /\ LeftOver)
  /\ IF stage = "failed" THEN exit' = "1" /\ step' = "over"
     ELSE exit' = exit /\ step' = IF verb = "test" THEN "tests" ELSE "check"
  /\ LoadIdle
  /\ UNCHANGED <<verb, frames, keep, temps, failure, made>>

\* collectTests and buildTestMain: a test with parameters, or a function with the name of the
\* generated one, is an error; no test at all is not.
CollectTests ==
  /\ Running /\ step = "tests"
  /\ OrFails("check")

Check ==
  /\ Running /\ step = "check"
  /\ \/ Exit("1")
     \/ ~left /\ GoOn("compile")
Compile == Running /\ step = "compile" /\ OrFails("validate")

\* What is made of a valid program: text, an executable, or a run in the interpreter if the
\* target's pointers differ from the host's (shouldInterpret).
Results ==
  CASE verb = "ir" -> {"write"}
    [] verb = "build" -> {"write", "native"}
    [] OTHER -> {"interpret", "native"}

Validate ==
  /\ Running /\ step = "validate"
  /\ \/ Exit("1")
     \/ \E r \in Results : GoOn(r)

----------------------------------------------------------------------------
(* IR files *)

ReadIR == Running /\ step = "read" /\ OrFails("parse")
ParseIR == Running /\ step = "parse" /\ OrFails("first validate")
ValidateIR ==
  /\ Running /\ step = "first validate"
  /\ \/ Exit("1")
     \/ verb = "ir-verify" /\ Produce("verdict", "0")
     \/ verb = "ir-run" /\ GoOn("interpret")
     \/ verb = "ir-qbe" /\ GoOn("write")
     \/ verb = "ir-opt" /\ GoOn("second validate")
ValidateOptimized == Running /\ step = "second validate" /\ OrFails("write")

----------------------------------------------------------------------------
(* Results *)

\* Printing, or writing the file of -o.
Write ==
  /\ Running /\ step = "write"
  /\ \/ verb = "build" /\ Exit("1")
     \/ Produce("text", "0")

\* rt.Run: the program returns, ends with exit(code), or fails.  What main returns is dropped.
Interpret ==
  /\ Running /\ step = "interpret"
  /\ \/ \E code \in {"0", "7"} : Produce("run", code)
     \/ Exit("1")

(* buildAndRun and writeExecutable.  An error goes up through the frames, each of which removes *)
(* its directory unless DAST_KEEP_TMP is set.                                                   *)

Fails(kind) ==
  /\ failure' = kind
  /\ step' = "return"
  /\ Keeping(<<verb, left, frames, keep, temps, made, exit>>)

OpenDir(frame, next) ==
  \/ Fails("error")          \* no module root, or MkdirTemp fails
  \/ /\ temps' = temps \cup {frame}
     /\ frames' = <<frame>> \o frames
     /\ keep' \in IF frames = <<>> THEN BOOLEAN ELSE {keep}
     /\ step' = next
     /\ Keeping(<<verb, left, failure, made, exit>>)

Native ==
  /\ Running /\ step = "native"
  /\ IF verb = "build" THEN OpenDir("build", "qbe") ELSE OpenDir("run", "executable")
Executable == Running /\ step = "executable" /\ OpenDir("build", "qbe")

\* A file that cannot be written or a tool that is not there is an error; a tool that fails
\* hands its status up.
Tool(next) == GoOn(next) \/ Fails("error") \/ Fails("tool")
QBE == Running /\ step = "qbe" /\ Tool("cc")
CC ==
  /\ Running /\ step = "cc"
  /\ \/ Fails("error")       \* no entry function, or as for a tool
     \/ Fails("tool")
     \/ /\ made' = made \cup {"executable"}
        /\ step' = "return"
        /\ Keeping(<<verb, left, frames, keep, temps, failure, exit>>)

\* One frame returns.
Return ==
  /\ Running /\ step = "return" /\ frames # <<>>
  /\ temps' = IF keep THEN temps ELSE temps \ {Head(frames)}
  /\ frames' = Tail(frames)
  /\ step' = IF Head(frames) = "build" /\ failure = "none" /\ Tail(frames) # <<>> THEN "start" ELSE "return"
  /\ Keeping(<<verb, left, keep, failure, made, exit>>)

\* A bug that NoTempLeft finds: the process ends where the program ends.
StartProgramExits ==
  /\ Running /\ step = "start"
  /\ \/ Fails("error")
     \/ Produce("run", "7")

\* The program that was built is started and waited for.
StartProgram ==
  /\ Running /\ step = "start"
  /\ \/ Fails("error")
     \/ \E status \in {"none", "7"} :
          /\ made' = made \cup {"run"}
          /\ failure' = status
          /\ step' = "return"
          /\ Keeping(<<verb, left, frames, keep, temps, exit>>)

\* A bug that ZeroMeansDone finds: a tool's failure is taken for its message.
ReturnedQuietly ==
  /\ Running /\ step = "return" /\ frames = <<>>
  /\ Exit(IF failure \in {"none", "tool"} THEN "0" ELSE "1")

\* build reports every error with status 1; run and test pass a status on (exitOnExecErr).
Returned ==
  /\ Running /\ step = "return" /\ frames = <<>>
  /\ Exit(CASE failure = "none" -> "0"
            [] failure \in {"7", "tool"} /\ verb # "build" -> failure
            [] OTHER -> "1")

\* The process is killed, by the user or by scripts/safe-run.sh.
Killed ==
  /\ Running
  /\ exit' = "killed"
  /\ Keeping(<<verb, step, left, frames, keep, temps, failure, made>>)

----------------------------------------------------------------------------
DriverInit ==
  /\ LoadInit
  /\ program = NoProgram /\ sites = <<>> /\ stage = "idle" /\ turn = 1 /\ known = {} /\ placed = <<>> /\ faults = {}
  /\ ~cmd.multi => cmd.tests /\ Single    \* dast test without arguments
  /\ verb \in IF cmd.tests THEN {"test"} ELSE Verbs \ {"test"}
  /\ step = "arguments" /\ left = FALSE /\ frames = <<>> /\ keep = FALSE /\ temps = {}
  /\ failure = "none" /\ made = {} /\ exit = "running"

Pipeline ==
  \/ Arguments \/ Load \/ Loaded \/ Expand \/ ExpandDone \/ CollectTests \/ Check \/ Compile \/ Validate
  \/ ReadIR \/ ParseIR \/ ValidateIR \/ ValidateOptimized \/ Write
  \/ Native \/ Executable \/ QBE \/ CC \/ Return \/ Returned
Programs == Interpret \/ StartProgram

DriverNext == Pipeline \/ Programs \/ Killed

\* Steps whose length is not dast's own: what a macro does is interpreted without a limit, the
\* checker follows types that may grow for ever, tools and programs are waited for.
OpenEnded ==
  \/ step = "expand" /\ stage = "evaluate" /\ turn <= Len(sites)
  \/ step \in {"check", "interpret", "qbe", "cc", "start"}
Bounded == ~OpenEnded /\ Pipeline

\* The process gets on with its own work, which is one thread.
DriverSpec == DriverInit /\ [][DriverNext]_allVars /\ WF_allVars(Bounded)

(***************************************************************************)
(* Properties                                                              *)
(***************************************************************************)

\* A process that is not killed leaves no temporary directory behind, unless it is told to,
\* whichever of the nested frames the error comes from (writeExecutable's and buildAndRun's
\* deferred removals against os.Exit).
NoTempLeft == exit \notin {"running", "killed"} /\ ~keep => temps = {}

\* Status 0 means that the command did what it is for: what it asks for has been produced, from
\* a program that was loaded and has no expansion left, and no error was lost on its way up.
Wanted ==
  CASE verb = "build" -> {{"executable"}, {"text"}, {"usage"}}
    [] verb \in {"run", "test"} -> {{"executable", "run"}, {"run"}}
    [] verb = "ir-run" -> {{"run"}}
    [] verb = "ir-verify" -> {{"verdict"}}
    [] verb \in {"ir", "ir-opt", "ir-qbe"} -> {{"text"}}
    [] verb = "help" -> {{"usage"}}
    [] OTHER -> {}
ZeroMeansDone ==
  exit = "0" =>
    /\ made \in Wanted
    /\ failure = "none"
    /\ verb \in FromSource /\ made # {"usage"} => outcome = "ok" /\ ~left

\* Every command ends, or waits for ever for a macro, the checker, a tool or a program, of which
\* each round of its own work leaves fewer (the loader's recursions over packages and imports
\* that may depend on each other, the expansion's rounds over the sites, the frames that return).
CommandEnds == <>[](exit # "running" \/ OpenEnded)
=============================================================================
