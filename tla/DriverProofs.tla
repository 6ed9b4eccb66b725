---------------------------- MODULE DriverProofs ----------------------------
(***************************************************************************)
(* The command line as a whole: which command, directories and results go  *)
(* with which step, so that no temporary directory stays and status 0      *)
(* means what it should; and that what is proved of the loader and of      *)
(* macro expansion holds of them as parts of the command line.             *)
(***************************************************************************)
EXTENDS Driver, LoaderProofs, ExpandProofs

\* No directory has been made and nothing produced before a program is built natively.
Before ==
  {"arguments", "load", "expand", "tests", "check", "compile", "validate", "read", "parse",
   "first validate", "second validate", "write", "interpret", "native"}
Building == {"executable", "qbe", "cc", "start", "return"}

\* The commands that get to a step.
VerbAt ==
  /\ verb \in Verbs
  /\ step \in Before \cup Building \cup {"over"}
  /\ step \in {"load", "expand", "tests", "check", "compile", "validate"} => verb \in FromSource
  /\ step \in {"read", "parse", "first validate"} => verb \in FromIR
  /\ step = "second validate" => verb = "ir-opt"
  /\ step = "write" => verb \in {"ir", "build", "ir-opt", "ir-qbe"}
  /\ step = "interpret" => verb \in {"run", "test", "ir-run"}
  /\ step \in {"native"} \cup Building => verb \in {"build", "run", "test"}
  /\ step \in {"executable", "start"} => verb # "build"

\* The functions that have a directory.
Making == IF verb = "build" THEN <<"build">> ELSE <<"build", "run">>
FramesAt ==
  /\ step \in Before \cup {"over"} => frames = <<>>
  /\ step \in {"executable", "start"} => frames = <<"run">>
  /\ step \in {"qbe", "cc"} => frames = Making
  /\ step = "return" => frames \in {<<>>, <<"run">>, Making}

\* The error on its way and what is made by then.
MadeAt ==
  /\ step \in Before \cup {"executable", "qbe", "cc"} => failure = "none" /\ made = {}
  /\ step = "start" => failure = "none" /\ made = {"executable"}
  /\ step = "return" /\ failure = "none" =>
       /\ verb = "build" \/ frames = Making => made = {"executable"}
       /\ verb # "build" /\ frames # Making => made = {"executable", "run"}
  /\ step = "return" => failure \in {"none", "error", "tool", "7"}

\* The directories that exist are those of the functions that have not returned.
TempsAt ==
  /\ keep \in BOOLEAN
  /\ step \in Before => ~keep
  /\ ~keep => temps \subseteq {frames[i] : i \in DOMAIN frames}

\* A program from source has been loaded, and has no expansion left once it is checked.
SourceAt ==
  /\ verb \in FromSource /\ step \notin {"arguments", "load", "over"} => outcome = "ok"
  /\ verb \in FromSource /\ step \in {"compile", "validate", "write", "interpret", "native"} \cup Building => ~left

ExitAt == exit \notin {"running", "killed"} => step = "over"

StepInv == VerbAt /\ FramesAt /\ MadeAt /\ TempsAt /\ SourceAt /\ ExitAt /\ ZeroMeansDone

LEMMA Frames ==
  /\ {<<>>[i] : i \in DOMAIN <<>>} = {}
  /\ {<<"run">>[i] : i \in DOMAIN <<"run">>} = {"run"}
  /\ {<<"build">>[i] : i \in DOMAIN <<"build">>} = {"build"}
  /\ {<<"build", "run">>[i] : i \in DOMAIN <<"build", "run">>} = {"build", "run"}
  /\ <<>> # <<"run">> /\ <<>> # <<"build">> /\ <<>> # <<"build", "run">>
  /\ <<"run">> # <<"build">> /\ <<"run">> # <<"build", "run">> /\ <<"build">> # <<"build", "run">>
OBVIOUS

LEMMA Joined == <<"build">> \o <<"run">> = <<"build", "run">>
<1> DEFINE b == <<"build">>
           r == <<"run">>
           t == <<"build", "run">>
<1>1. /\ b \in Seq({"build", "run"}) /\ r \in Seq({"build", "run"}) /\ t \in Seq({"build", "run"})
      /\ Len(b) = 1 /\ Len(r) = 1 /\ Len(t) = 2 /\ b[1] = "build" /\ r[1] = "run" /\ t[1] = "build" /\ t[2] = "run"
  <2>1. b \in Seq({"build", "run"}) /\ Len(b) = 1 /\ b[1] = "build"
    OBVIOUS
  <2>2. r \in Seq({"build", "run"}) /\ Len(r) = 1 /\ r[1] = "run"
    OBVIOUS
  <2>3. Len(t) = 2 /\ t[1] = "build" /\ t[2] = "run"
    OBVIOUS
  <2>4. t \in Seq({"build", "run"})
    OBVIOUS
  <2> HIDE DEF b, r, t
  <2> QED
    BY <2>1, <2>2, <2>3, <2>4
<1> HIDE DEF b, r, t
<1> DEFINE q == b \o r
<1>2. /\ q \in Seq({"build", "run"}) /\ Len(q) = Len(b) + Len(r)
      /\ \A i \in 1 .. Len(b) + Len(r) : q[i] = IF i <= Len(b) THEN b[i] ELSE r[i - Len(b)]
  BY <1>1, ConcatProperties, Zenon
<1> HIDE DEF q
<1>3. q = t
  BY <1>1, <1>2, SeqEqual
<1> QED
  BY <1>3 DEF b, r, t, q

\* The process ends.
Ends(code) ==
  /\ exit' = code /\ step' = "over"
  /\ UNCHANGED <<verb, left, frames, keep, temps, failure, made, outcome>>
LEMMA Exits == ASSUME NEW code, Exit(code) PROVE Ends(code)
BY DEF Exit, Keeping, LoadIdle, loadVars, Ends

\* The process goes on.
Goes(next) ==
  /\ step' = next
  /\ UNCHANGED <<verb, left, frames, keep, temps, failure, made, outcome, exit>>
LEMMA GoesOn == ASSUME NEW next, GoOn(next) PROVE Goes(next)
BY DEF GoOn, Keeping, LoadIdle, loadVars, Goes

Makes(what, code) ==
  /\ made' = made \cup {what} /\ exit' = code /\ step' = "over"
  /\ UNCHANGED <<verb, left, frames, keep, temps, failure, outcome>>
LEMMA Produces == ASSUME NEW what, NEW code, Produce(what, code) PROVE Makes(what, code)
BY DEF Produce, Keeping, LoadIdle, loadVars, Makes

\* Ending with an error, from wherever no function has a directory.
LEMMA EndsInError ==
  ASSUME StepInv, frames = <<>>, NEW code \in {"1", "7", "tool"}, Ends(code)
  PROVE  StepInv'
BY DEF StepInv, Ends, VerbAt, FramesAt, MadeAt, TempsAt, SourceAt, ExitAt, ZeroMeansDone, Before, Building

\* Going on among the steps before building.
LEMMA GoesOnBefore ==
  ASSUME StepInv, exit = "running", step \in Before, NEW next \in Before, Goes(next),
         VerbAt', SourceAt'
  PROVE  StepInv'
BY DEF StepInv, Goes, FramesAt, MadeAt, TempsAt, ExitAt, ZeroMeansDone, Before, Building

\* Producing the result without building.
LEMMA ProducesDirectly ==
  ASSUME StepInv, step \in Before, NEW what \in {"usage", "verdict", "text", "run"}, NEW code \in {"0", "7"}, Makes(what, code),
         /\ what = "usage" => verb \in {"help", "build"}
         /\ what = "verdict" => verb = "ir-verify"
         /\ what = "text" => step = "write"
         /\ what = "run" => step = "interpret"
  PROVE  StepInv'
<1>1. made' = {what} /\ failure' = "none" /\ verb' = verb /\ left' = left /\ outcome' = outcome
  BY DEF StepInv, MadeAt, Makes
<1>2. \/ verb \in {"help", "build"} /\ what = "usage"
      \/ verb = "ir-verify" /\ what = "verdict"
      \/ verb \in {"ir", "build", "ir-opt", "ir-qbe"} /\ what = "text" /\ step = "write"
      \/ verb \in {"run", "test", "ir-run"} /\ what = "run" /\ step = "interpret"
  BY DEF StepInv, VerbAt
<1>3. verb \in FromSource /\ what # "usage" => outcome = "ok" /\ ~left
  BY <1>2 DEF StepInv, SourceAt, FromSource
<1>4. {what} \in Wanted
  BY <1>2 DEF Wanted
<1>5. ZeroMeansDone'
  BY <1>1, <1>3, <1>4 DEF ZeroMeansDone, Wanted
<1> QED
  BY <1>5 DEF StepInv, Makes, VerbAt, FramesAt, MadeAt, TempsAt, SourceAt, ExitAt, Before, Building

\* The steps before building.
EarlySteps ==
  Arguments \/ CollectTests \/ Check \/ Compile \/ Validate \/ ReadIR \/ ParseIR \/ ValidateIR \/ ValidateOptimized
    \/ Write \/ Interpret

LEMMA EarlyStep == ASSUME StepInv, EarlySteps PROVE StepInv'
<1>1. exit = "running" /\ step \in Before /\ frames = <<>>
  <2>1. exit = "running" /\ step \in Before
    BY DEF EarlySteps, Arguments, CollectTests, Check, Compile, Validate, ReadIR, ParseIR, ValidateIR,
           ValidateOptimized, Write, Interpret, Running, Before
  <2> QED
    BY <2>1 DEF StepInv, FramesAt
<1>2. CASE Exit("1")
  BY <1>1, <1>2, Exits, EndsInError
<1>3. CASE Arguments
  <2>1. CASE verb \in {"help", "build"} /\ Produce("usage", "0")
    BY <1>1, <1>3, <2>1, Produces, ProducesDirectly DEF Arguments
  <2>2. CASE verb \in FromSource /\ GoOn("load")
    <3>1. Goes("load")
      BY <2>2, GoesOn
    <3>2. VerbAt' /\ SourceAt'
      BY <2>2, <3>1 DEF StepInv, Goes, VerbAt, SourceAt, Before, Building
    <3> QED
      BY <1>1, <3>1, <3>2, GoesOnBefore DEF Before
  <2>3. CASE verb \in FromIR /\ GoOn("read")
    <3>1. Goes("read")
      BY <2>3, GoesOn
    <3>2. VerbAt' /\ SourceAt'
      BY <2>3, <3>1 DEF StepInv, Goes, VerbAt, SourceAt, Before, Building, FromSource, FromIR
    <3> QED
      BY <1>1, <3>1, <3>2, GoesOnBefore DEF Before
  <2> QED
    BY <1>2, <1>3, <2>1, <2>2, <2>3 DEF Arguments
<1>4. ASSUME NEW next \in Before, GoOn(next),
             \/ step = "tests" /\ next = "check"
             \/ step = "check" /\ next = "compile" /\ ~left
             \/ step = "compile" /\ next = "validate"
             \/ step = "validate" /\ next \in Results
             \/ step = "read" /\ next = "parse"
             \/ step = "parse" /\ next = "first validate"
             \/ step = "first validate" /\ verb = "ir-run" /\ next = "interpret"
             \/ step = "first validate" /\ verb = "ir-qbe" /\ next = "write"
             \/ step = "first validate" /\ verb = "ir-opt" /\ next = "second validate"
             \/ step = "second validate" /\ next = "write"
      PROVE  StepInv'
  <2>1. Goes(next)
    BY <1>4, GoesOn
  <2>2. verb \in Verbs /\ step' = next /\ verb' = verb /\ left' = left /\ outcome' = outcome
    BY <2>1 DEF StepInv, VerbAt, Goes
  <2>3. VerbAt'
    BY <1>4, <2>2 DEF StepInv, VerbAt, Before, Building, Results, Verbs, FromSource, FromIR
  <2>4. SourceAt'
    BY <1>4, <2>2 DEF StepInv, SourceAt, VerbAt, Building, Results, FromSource, FromIR
  <2> QED
    BY <1>1, <2>1, <2>3, <2>4, GoesOnBefore
<1>5. CASE CollectTests \/ Check \/ Compile
  BY <1>2, <1>4, <1>5 DEF CollectTests, Check, Compile, OrFails, Before
<1>6. CASE Validate
  <2>1. Results \subseteq Before
    BY DEF Results, Before
  <2> QED
    BY <1>2, <1>4, <1>6, <2>1 DEF Validate
<1>7. CASE ReadIR \/ ParseIR \/ ValidateOptimized
  BY <1>2, <1>4, <1>7 DEF ReadIR, ParseIR, ValidateOptimized, OrFails, Before
<1>8. CASE ValidateIR
  <2>1. CASE verb = "ir-verify" /\ Produce("verdict", "0")
    BY <1>1, <2>1, Produces, ProducesDirectly
  <2> QED
    BY <1>2, <1>4, <1>8, <2>1 DEF ValidateIR, Before
<1>9. CASE Write
  <2>1. CASE Produce("text", "0")
    BY <1>1, <1>9, <2>1, Produces, ProducesDirectly DEF Write
  <2> QED
    BY <1>2, <1>9, <2>1 DEF Write
<1>10. CASE Interpret
  <2>1. ASSUME NEW code \in {"0", "7"}, Produce("run", code)
        PROVE  StepInv'
    BY <1>1, <1>10, <2>1, Produces, ProducesDirectly DEF Interpret
  <2> QED
    BY <1>2, <1>10, <2>1 DEF Interpret
<1> QED
  BY <1>3, <1>5, <1>6, <1>7, <1>8, <1>9, <1>10 DEF EarlySteps

----------------------------------------------------------------------------
(* Building *)

Failing(kind) ==
  /\ failure' = kind /\ step' = "return"
  /\ UNCHANGED <<verb, left, frames, keep, temps, made, outcome, exit>>
LEMMA FailsSo == ASSUME NEW kind, Fails(kind) PROVE Failing(kind)
BY DEF Fails, Keeping, LoadIdle, loadVars, Failing

\* An error sends the functions with a directory back.
LEMMA FailStep ==
  ASSUME StepInv, exit = "running", step \in {"native"} \cup Building, NEW kind \in {"error", "tool"}, Failing(kind)
  PROVE  StepInv'
<1>1. frames \in {<<>>, <<"run">>, Making}
  BY DEF StepInv, FramesAt, Building, Before
<1>2. Making' = Making /\ failure' = kind /\ step' = "return" /\ frames' = frames
  BY DEF Failing, Making
<1>3. FramesAt'
  BY <1>1, <1>2 DEF FramesAt, Before, Building
<1>4. VerbAt'
  BY DEF StepInv, Failing, VerbAt, Before, Building
<1>5. MadeAt'
  BY <1>2 DEF MadeAt, Before
<1>6. TempsAt' /\ ExitAt' /\ ZeroMeansDone'
  BY DEF StepInv, Failing, TempsAt, ExitAt, ZeroMeansDone, Before
<1>7. SourceAt'
  BY DEF StepInv, Failing, SourceAt, Building
<1> QED
  BY <1>3, <1>4, <1>5, <1>6, <1>7 DEF StepInv

\* A function makes its directory.
Opening(frame, next) ==
  /\ temps' = temps \cup {frame} /\ frames' = <<frame>> \o frames
  /\ keep' \in BOOLEAN /\ (frames # <<>> => keep' = keep) /\ step' = next
  /\ UNCHANGED <<verb, left, failure, made, exit, outcome>>
LEMMA Opens ==
  ASSUME NEW frame, NEW next, OpenDir(frame, next), keep \in BOOLEAN
  PROVE  Failing("error") \/ Opening(frame, next)
<1>1. CASE Fails("error")
  BY <1>1, FailsSo
<1>2. CASE ~Fails("error")
  BY <1>2 DEF OpenDir, Keeping, LoadIdle, loadVars, Opening
<1> QED
  BY <1>1, <1>2

LEMMA OpenStep ==
  ASSUME StepInv, Native \/ Executable
  PROVE  StepInv'
<1>1. keep \in BOOLEAN
  BY DEF StepInv, TempsAt
<1>2. \/ exit = "running" /\ step = "native" /\ verb = "build" /\ OpenDir("build", "qbe")
      \/ exit = "running" /\ step = "native" /\ verb # "build" /\ OpenDir("run", "executable")
      \/ exit = "running" /\ step = "executable" /\ OpenDir("build", "qbe")
  BY DEF Native, Executable, Running
<1>3. CASE Failing("error")
  BY <1>2, <1>3, FailStep DEF Building
<1>4. VerbAt /\ FramesAt /\ MadeAt /\ TempsAt /\ SourceAt
  BY DEF StepInv
<1>5. CASE step = "native" /\ verb = "build" /\ Opening("build", "qbe")
  <2>1. frames = <<>> /\ ~keep /\ temps = {} /\ failure = "none" /\ made = {} /\ verb = "build"
    BY <1>4, <1>5, Frames DEF FramesAt, MadeAt, TempsAt, Before
  <2>2. /\ step' = "qbe" /\ frames' = <<"build">> /\ temps' = {"build"} /\ failure' = "none" /\ made' = {}
        /\ keep' \in BOOLEAN /\ verb' = verb /\ left' = left /\ outcome' = outcome /\ exit' = exit
    BY <1>5, <2>1 DEF Opening
  <2>3. VerbAt' /\ FramesAt' /\ MadeAt'
    BY <1>4, <2>1, <2>2 DEF VerbAt, FramesAt, MadeAt, Making, Before, Building
  <2>4. TempsAt'
    BY <2>2, Frames DEF TempsAt, Before
  <2>5. SourceAt' /\ ExitAt' /\ ZeroMeansDone'
    BY <1>2, <1>4, <1>5, <2>2 DEF SourceAt, ExitAt, ZeroMeansDone, Building
  <2> QED
    BY <2>3, <2>4, <2>5 DEF StepInv
<1>6. CASE step = "native" /\ verb # "build" /\ Opening("run", "executable")
  <2>1. frames = <<>> /\ ~keep /\ temps = {} /\ failure = "none" /\ made = {} /\ verb # "build"
    BY <1>4, <1>6, Frames DEF FramesAt, MadeAt, TempsAt, Before
  <2>2. /\ step' = "executable" /\ frames' = <<"run">> /\ temps' = {"run"} /\ failure' = "none" /\ made' = {}
        /\ keep' \in BOOLEAN /\ verb' = verb /\ left' = left /\ outcome' = outcome /\ exit' = exit
    BY <1>6, <2>1 DEF Opening
  <2>3. VerbAt' /\ FramesAt' /\ MadeAt'
    BY <1>4, <1>6, <2>1, <2>2 DEF VerbAt, FramesAt, MadeAt, Making, Before, Building
  <2>4. TempsAt'
    BY <2>2, Frames DEF TempsAt, Before
  <2>5. SourceAt' /\ ExitAt' /\ ZeroMeansDone'
    BY <1>2, <1>4, <1>6, <2>2 DEF SourceAt, ExitAt, ZeroMeansDone, Building
  <2> QED
    BY <2>3, <2>4, <2>5 DEF StepInv
<1>7. CASE step = "executable" /\ Opening("build", "qbe")
  <2>1. /\ frames = <<"run">> /\ (~keep => temps \subseteq {"run"}) /\ failure = "none" /\ made = {}
        /\ verb \in {"run", "test"}
    BY <1>4, <1>7, Frames DEF VerbAt, FramesAt, MadeAt, TempsAt, Before, Building
  <2>2. <<"build">> \o <<"run">> = <<"build", "run">> /\ <<"run">> # <<>>
    BY Joined, Frames
  <2>3. /\ step' = "qbe" /\ frames' = <<"build", "run">> /\ temps' = temps \cup {"build"} /\ failure' = "none"
        /\ made' = {} /\ keep' = keep /\ verb' = verb /\ left' = left /\ outcome' = outcome /\ exit' = exit
    BY <1>7, <2>1, <2>2 DEF Opening
  <2>4. VerbAt' /\ FramesAt' /\ MadeAt'
    BY <1>4, <2>1, <2>3 DEF VerbAt, FramesAt, MadeAt, Making, Before, Building
  <2>5. TempsAt'
    BY <1>1, <2>1, <2>3, Frames DEF TempsAt, Before
  <2>6. SourceAt' /\ ExitAt' /\ ZeroMeansDone'
    BY <1>2, <1>4, <1>7, <2>3 DEF SourceAt, ExitAt, ZeroMeansDone, Building
  <2> QED
    BY <2>4, <2>5, <2>6 DEF StepInv
<1> QED
  BY <1>1, <1>2, <1>3, <1>5, <1>6, <1>7, Opens

\* The tools, and the program that was built.
LEMMA ToolStep == ASSUME StepInv, QBE \/ CC \/ StartProgram PROVE StepInv'
<1>1. exit = "running" /\ step \in {"qbe", "cc", "start"}
  BY DEF QBE, CC, StartProgram, Running
<1>2. CASE Fails("error") \/ Fails("tool")
  BY <1>1, <1>2, FailsSo, FailStep DEF Building
<1>3. VerbAt /\ FramesAt /\ MadeAt /\ TempsAt /\ SourceAt
  BY DEF StepInv
<1>4. CASE step = "qbe" /\ GoOn("cc")
  <2>1. Goes("cc")
    BY <1>4, GoesOn
  <2> QED
    BY <1>1, <1>3, <1>4, <2>1 DEF StepInv, Goes, VerbAt, FramesAt, MadeAt, TempsAt, SourceAt, ExitAt, ZeroMeansDone, Making,
       Before, Building
<1>5. CASE CC /\ ~Fails("error") /\ ~Fails("tool")
  <2>1. /\ step = "cc" /\ step' = "return" /\ made' = made \cup {"executable"}
        /\ UNCHANGED <<verb, left, frames, keep, temps, failure, exit, outcome>>
    BY <1>5 DEF CC, Keeping, LoadIdle, loadVars
  <2>2. frames = Making /\ failure = "none" /\ made' = {"executable"} /\ Making' = Making
    BY <1>3, <2>1 DEF FramesAt, MadeAt, Making
  <2>3. VerbAt' /\ SourceAt' /\ TempsAt' /\ ExitAt' /\ ZeroMeansDone'
    BY <1>1, <1>3, <2>1 DEF VerbAt, SourceAt, TempsAt, ExitAt, ZeroMeansDone, Before, Building
  <2>4. FramesAt'
    BY <2>1, <2>2 DEF FramesAt, Before
  <2>5. MadeAt'
    BY <2>1, <2>2 DEF MadeAt, Before
  <2> QED
    BY <2>3, <2>4, <2>5 DEF StepInv
<1>6. CASE StartProgram /\ ~Fails("error")
  <2>1. /\ step = "start" /\ step' = "return" /\ made' = made \cup {"run"} /\ failure' \in {"none", "7"}
        /\ UNCHANGED <<verb, left, frames, keep, temps, exit, outcome>>
    BY <1>6 DEF StartProgram, Keeping, LoadIdle, loadVars
  <2>2. frames = <<"run">> /\ verb # "build" /\ made' = {"executable", "run"} /\ Making' = <<"build", "run">>
    BY <1>3, <2>1 DEF VerbAt, FramesAt, MadeAt, Making
  <2>3. VerbAt' /\ SourceAt' /\ TempsAt' /\ ExitAt' /\ ZeroMeansDone'
    BY <1>1, <1>3, <2>1 DEF VerbAt, SourceAt, TempsAt, ExitAt, ZeroMeansDone, Before, Building
  <2>4. FramesAt'
    BY <2>1, <2>2 DEF FramesAt, Before
  <2>5. MadeAt'
    BY <2>1, <2>2, Frames DEF MadeAt, Before
  <2> QED
    BY <2>3, <2>4, <2>5 DEF StepInv
<1> QED
  BY <1>1, <1>2, <1>4, <1>5, <1>6 DEF QBE, Tool

----------------------------------------------------------------------------
(* Returning *)

LEMMA Popped2 ==
  /\ Tail(<<"run">>) = <<>> /\ Head(<<"run">>) = "run"
  /\ Tail(<<"build">>) = <<>> /\ Head(<<"build">>) = "build"
  /\ Tail(<<"build", "run">>) = <<"run">> /\ Head(<<"build", "run">>) = "build"
OBVIOUS

\* One function returns.
LEMMA ReturnStep == ASSUME StepInv, Return PROVE StepInv'
<1>1. /\ exit = "running" /\ step = "return" /\ frames # <<>>
      /\ temps' = IF keep THEN temps ELSE temps \ {Head(frames)}
      /\ frames' = Tail(frames)
      /\ step' = IF Head(frames) = "build" /\ failure = "none" /\ Tail(frames) # <<>> THEN "start" ELSE "return"
      /\ UNCHANGED <<verb, left, keep, failure, made, exit, outcome>>
  BY DEF Return, Running, Keeping, LoadIdle, loadVars
<1>2. VerbAt /\ FramesAt /\ MadeAt /\ TempsAt /\ SourceAt
  BY DEF StepInv
<1>3. \/ frames = <<"run">>
      \/ verb = "build" /\ frames = <<"build">>
      \/ verb # "build" /\ frames = <<"build", "run">>
  BY <1>1, <1>2 DEF FramesAt, Making
<1>4. /\ verb \in {"build", "run", "test"} /\ verb \in Verbs /\ failure \in {"none", "error", "tool", "7"}
      /\ keep \in BOOLEAN
      /\ verb \in FromSource => outcome = "ok" /\ ~left
  BY <1>1, <1>2 DEF VerbAt, MadeAt, SourceAt, TempsAt, Building
<1>5. Making' = Making
  BY <1>1 DEF Making
<1>6. ExitAt' /\ ZeroMeansDone'
  BY <1>1 DEF ExitAt, ZeroMeansDone
<1>7. CASE frames = <<"run">>
  <2>1. frames' = <<>> /\ step' = "return" /\ (~keep => temps' = {}) /\ Making # <<"run">> /\ Making # <<>>
    BY <1>1, <1>2, <1>7, Popped2, Frames DEF TempsAt, Making
  <2>2. VerbAt' /\ FramesAt' /\ TempsAt' /\ SourceAt'
    BY <1>1, <1>4, <2>1 DEF VerbAt, FramesAt, TempsAt, SourceAt, Before, Building
  <2>3. MadeAt'
    BY <1>1, <1>2, <1>4, <1>5, <1>7, <2>1 DEF MadeAt, Before
  <2> QED
    BY <1>6, <2>2, <2>3 DEF StepInv
<1>8. CASE verb = "build" /\ frames = <<"build">>
  <2>1. frames' = <<>> /\ step' = "return" /\ (~keep => temps' = {}) /\ Making = frames /\ Making # <<>>
    BY <1>1, <1>2, <1>8, Popped2, Frames DEF TempsAt, Making
  <2>2. VerbAt' /\ FramesAt' /\ TempsAt' /\ SourceAt'
    BY <1>1, <1>4, <2>1 DEF VerbAt, FramesAt, TempsAt, SourceAt, Before, Building
  <2>3. MadeAt'
    BY <1>1, <1>2, <1>4, <1>5, <1>8, <2>1 DEF MadeAt, Before
  <2> QED
    BY <1>6, <2>2, <2>3 DEF StepInv
<1>9. CASE verb # "build" /\ frames = <<"build", "run">>
  <2>1. /\ frames' = <<"run">> /\ frames' # <<>> /\ (~keep => temps' \subseteq {"run"})
        /\ Making = frames /\ Making # frames'
        /\ step' = IF failure = "none" THEN "start" ELSE "return"
    BY <1>1, <1>2, <1>9, Popped2, Frames DEF TempsAt, Making
  <2>2. VerbAt' /\ FramesAt' /\ SourceAt'
    BY <1>1, <1>4, <1>9, <2>1 DEF VerbAt, FramesAt, SourceAt, Before, Building
  <2>3. TempsAt'
    BY <1>1, <1>4, <2>1, Frames DEF TempsAt, Before
  <2>4. MadeAt'
    BY <1>1, <1>2, <1>4, <1>9, <2>1 DEF MadeAt, Before
  <2> QED
    BY <1>6, <2>2, <2>3, <2>4 DEF StepInv
<1> QED
  BY <1>3, <1>7, <1>8, <1>9

\* All have returned: the process ends, with status 0 if there is no error.
LEMMA ReturnedStep == ASSUME StepInv, Returned PROVE StepInv'
<1>1. /\ exit = "running" /\ step = "return" /\ frames = <<>>
      /\ \E code : Exit(code) /\ code = CASE failure = "none" -> "0"
                                          [] failure \in {"7", "tool"} /\ verb # "build" -> failure
                                          [] OTHER -> "1"
  BY DEF Returned, Running
<1>2. failure \in {"none", "error", "tool", "7"}
  BY <1>1 DEF StepInv, MadeAt
<1>3. PICK code : /\ Exit(code)
                  /\ failure = "none" => code = "0"
                  /\ failure # "none" => code \in {"1", "7", "tool"}
  BY <1>1, <1>2
<1>4. CASE failure # "none"
  BY <1>1, <1>3, <1>4, Exits, EndsInError
<1>5. CASE failure = "none"
  <2>1. Ends("0")
    BY <1>3, <1>5, Exits
  <2>2. Making # <<>>
    BY Frames DEF Making
  <2>3. /\ verb \in {"build", "run", "test"}
        /\ made = IF verb = "build" THEN {"executable"} ELSE {"executable", "run"}
        /\ outcome = "ok" /\ ~left
    BY <1>1, <1>5, <2>2 DEF StepInv, VerbAt, MadeAt, SourceAt, Building, FromSource
  <2>4. made \in Wanted
    BY <2>3 DEF Wanted
  <2>5. ZeroMeansDone'
    BY <1>5, <2>1, <2>3, <2>4 DEF ZeroMeansDone, Ends, Wanted
  <2> QED
    BY <1>1, <2>1, <2>5 DEF StepInv, Ends, VerbAt, FramesAt, MadeAt, TempsAt, SourceAt, ExitAt, Before, Building
<1> QED
  BY <1>4, <1>5

----------------------------------------------------------------------------
(* The parts *)

\* The loader, until it has returned.
LoaderPart ==
  IF lstage = "returned" THEN DOMAIN modules = {} /\ DOMAIN packages = {} /\ outcome # "none"
  ELSE LoadInv /\ FilesInv

\* Macro expansion, while it runs.
ExpandPart ==
  IF stage \in {"idle", "over"}
  THEN sites = <<>> /\ turn = 1 /\ placed = <<>>
  ELSE ExpandInv

\* When the parts run.
PartsAt ==
  /\ step \in {"arguments", "load"} => stage = "idle" /\ lstage # "returned"
  /\ LoaderPart /\ ExpandPart

DriverInv == StepInv /\ PartsAt

LEMMA LoaderIdle == ASSUME LoaderPart, LoadIdle PROVE LoaderPart'
<1>1. modules' = modules /\ packages' = packages /\ lstage' = lstage /\ outcome' = outcome
  BY DEF LoadIdle, loadVars
<1>2. CASE lstage = "returned"
  BY <1>1, <1>2 DEF LoaderPart
<1>3. CASE lstage # "returned"
  BY <1>1, <1>3, LoadStep, FilesStep DEF LoaderPart, LoadIdle
<1> QED
  BY <1>2, <1>3

LEMMA ExpansionIdle == ASSUME ExpandPart, ExpandIdle PROVE ExpandPart'
<1>1. stage' = stage /\ sites' = sites /\ turn' = turn /\ placed' = placed
  BY DEF ExpandIdle, expandVars
<1>2. CASE stage \in {"idle", "over"}
  BY <1>1, <1>2 DEF ExpandPart
<1>3. CASE stage \notin {"idle", "over"}
  BY <1>1, <1>3, ExpandStep DEF ExpandPart, ExpandIdle
<1> QED
  BY <1>2, <1>3

\* Steps in which both parts are idle.
LEMMA PartsIdle ==
  ASSUME PartsAt, LoadIdle, ExpandIdle, step' \in {"arguments", "load"} => step \in {"arguments", "load"}
  PROVE  PartsAt'
<1>1. LoaderPart' /\ ExpandPart'
  BY LoaderIdle, ExpansionIdle DEF PartsAt
<1>2. stage' = stage /\ lstage' = lstage
  BY DEF LoadIdle, ExpandIdle, loadVars, expandVars
<1> QED
  BY <1>1, <1>2 DEF PartsAt

\* The parts do not know of the process around them.
LEMMA OuterSame ==
  ASSUME StepInv, UNCHANGED driverVars, outcome' = outcome \/ step = "load"
  PROVE  StepInv'
<1>1. /\ verb' = verb /\ step' = step /\ left' = left /\ frames' = frames /\ keep' = keep /\ temps' = temps
      /\ failure' = failure /\ made' = made /\ exit' = exit
  BY DEF driverVars
<1>2. VerbAt' /\ FramesAt' /\ MadeAt' /\ TempsAt' /\ ExitAt'
  <2>1. VerbAt' /\ FramesAt'
    BY <1>1 DEF StepInv, VerbAt, FramesAt, Making
  <2>2. MadeAt'
    BY <1>1 DEF StepInv, MadeAt, Making
  <2>3. TempsAt' /\ ExitAt'
    BY <1>1 DEF StepInv, TempsAt, ExitAt
  <2> QED
    BY <2>1, <2>2, <2>3
<1>3. SourceAt'
  BY <1>1 DEF StepInv, SourceAt
<1>4. ZeroMeansDone'
  <2>1. CASE step = "load"
    <3>1. made = {} /\ exit # "0"
      BY <2>1 DEF StepInv, MadeAt, ExitAt, Before
    <3> QED
      BY <1>1, <3>1 DEF ZeroMeansDone
  <2>2. CASE outcome' = outcome
    BY <1>1, <2>2 DEF StepInv, ZeroMeansDone, Wanted
  <2> QED
    BY <2>1, <2>2
<1> QED
  BY <1>2, <1>3, <1>4 DEF StepInv

LEMMA LoadPartStep == ASSUME DriverInv, Load PROVE DriverInv'
<1>1. /\ step = "load" /\ LoadNext /\ ExpandIdle /\ UNCHANGED driverVars
  BY DEF Load
<1>2. StepInv'
  BY <1>1, OuterSame DEF DriverInv
<1>3. LoadInv' /\ FilesInv' /\ stage' = stage /\ step' = step
  BY <1>1, LoadStep, FilesStep DEF DriverInv, PartsAt, LoaderPart, ExpandIdle, expandVars, driverVars
<1>4. lstage' # "returned"
  BY <1>3 DEF LoadInv
<1>5. ExpandPart'
  BY <1>1, ExpansionIdle DEF DriverInv, PartsAt
<1> QED
  BY <1>1, <1>2, <1>3, <1>4, <1>5 DEF DriverInv, PartsAt, LoaderPart

LEMMA LoadedStep == ASSUME DriverInv, Loaded PROVE DriverInv'
<1>1. /\ exit = "running" /\ step = "load" /\ outcome # "none" /\ outcome' = outcome
      /\ modules' = <<>> /\ packages' = <<>> /\ lstage' = "returned"
      /\ \/ /\ outcome = "ok" /\ step' = "expand" /\ exit' = exit /\ program' \in Sources /\ stage' = "collect"
         \/ step' = "over" /\ exit' = "1" /\ UNCHANGED <<program, stage>>
      /\ UNCHANGED <<sites, turn, known, placed, faults, verb, left, frames, keep, temps, failure, made>>
  BY DEF Loaded, Running
<1>2. VerbAt /\ FramesAt /\ MadeAt /\ TempsAt /\ SourceAt /\ PartsAt
  BY DEF DriverInv, StepInv
<1>3. StepInv'
  <2>1. VerbAt' /\ FramesAt'
    BY <1>1, <1>2 DEF VerbAt, FramesAt, Before, Building
  <2>2. MadeAt'
    BY <1>1, <1>2 DEF MadeAt, Before
  <2>3. TempsAt' /\ SourceAt' /\ ExitAt' /\ ZeroMeansDone'
    BY <1>1, <1>2 DEF TempsAt, SourceAt, ExitAt, ZeroMeansDone, Before, Building
  <2> QED
    BY <2>1, <2>2, <2>3 DEF StepInv
<1>4. LoaderPart'
  BY <1>1 DEF LoaderPart
<1>5. sites = <<>> /\ turn = 1 /\ placed = <<>> /\ stage = "idle"
  BY <1>1, <1>2 DEF PartsAt, ExpandPart
<1>6. ExpandPart'
  <2>1. CASE stage' = "collect" /\ program' \in Sources
    <3>1. sites' = <<>> /\ turn' = 1 /\ placed' = <<>> /\ sites' \in Seq(Placeable') /\ DOMAIN placed' = {}
      BY <1>1, <1>5, EmptySeq
    <3>2. ExpandInv'
      BY <2>1, <3>1 DEF ExpandInv, ExpandTypes, EvaluatedFirst, PlacedInTurn, StructsNoted, PlacedWhole
    <3> QED
      BY <2>1, <3>2 DEF ExpandPart
  <2>2. CASE stage' = stage
    BY <1>1, <1>5, <2>2 DEF ExpandPart
  <2> QED
    BY <1>1, <2>1, <2>2
<1> QED
  BY <1>1, <1>3, <1>4, <1>6 DEF DriverInv, PartsAt

LEMMA ExpandPartStep == ASSUME DriverInv, Expand PROVE DriverInv'
<1>1. step = "expand" /\ ExpandNext /\ LoadIdle /\ UNCHANGED driverVars /\ outcome' = outcome /\ step' = step
  BY DEF Expand, LoadIdle, loadVars, driverVars
<1>2. StepInv'
  BY <1>1, OuterSame DEF DriverInv
<1>3. stage \notin {"idle", "over"}
  BY <1>1 DEF ExpandNext, Collect, CompileWrappers, Evaluate, Evaluated, PlaceItem, ItemsPlaced, PlaceCode, Expanded
<1>4. ExpandInv'
  BY <1>1, <1>3, ExpandStep DEF DriverInv, PartsAt, ExpandPart
<1>5. ExpandPart'
  BY <1>4 DEF ExpandPart, ExpandInv, ExpandTypes
<1>6. LoaderPart'
  BY <1>1, LoaderIdle DEF DriverInv, PartsAt
<1> QED
  BY <1>1, <1>2, <1>5, <1>6 DEF DriverInv, PartsAt

LEMMA ExpandDoneStep == ASSUME DriverInv, ExpandDone PROVE DriverInv'
<1>1. /\ exit = "running" /\ step = "expand" /\ LoadIdle /\ outcome' = outcome
      /\ sites' = <<>> /\ turn' = 1 /\ placed' = <<>> /\ stage' = "over"
      /\ \/ step' = "over" /\ exit' = "1"
         \/ exit' = exit /\ step' = IF verb = "test" THEN "tests" ELSE "check"
      /\ UNCHANGED <<verb, frames, keep, temps, failure, made>>
  BY DEF ExpandDone, Running, LoadIdle, loadVars
<1>2. VerbAt /\ FramesAt /\ MadeAt /\ TempsAt /\ SourceAt /\ PartsAt
  BY DEF DriverInv, StepInv
<1>3. StepInv'
  <2>1. VerbAt' /\ FramesAt'
    BY <1>1, <1>2 DEF VerbAt, FramesAt, Before, Building
  <2>2. MadeAt'
    BY <1>1, <1>2 DEF MadeAt, Before
  <2>3. TempsAt' /\ SourceAt' /\ ExitAt' /\ ZeroMeansDone'
    BY <1>1, <1>2 DEF TempsAt, SourceAt, ExitAt, ZeroMeansDone, Before, Building
  <2> QED
    BY <2>1, <2>2, <2>3 DEF StepInv
<1>4. LoaderPart'
  BY <1>1, <1>2, LoaderIdle DEF PartsAt
<1>5. ExpandPart'
  BY <1>1 DEF ExpandPart
<1> QED
  BY <1>1, <1>3, <1>4, <1>5 DEF DriverInv, PartsAt

----------------------------------------------------------------------------
(* The command line *)

\* The steps of the process itself.
OwnSteps ==
  EarlySteps \/ Native \/ Executable \/ QBE \/ CC \/ StartProgram \/ Return \/ Returned

LEMMA OwnStepsIdle ==
  ASSUME OwnSteps
  PROVE  LoadIdle /\ ExpandIdle /\ (step' \in {"arguments", "load"} => step = "arguments")
<1> USE DEF GoOn, Exit, Produce, OrFails, Fails, OpenDir, Tool, Keeping
<1>1. CASE EarlySteps
  BY <1>1 DEF EarlySteps, Arguments, CollectTests, Check, Compile, Validate, Results, ReadIR, ParseIR, ValidateIR,
     ValidateOptimized, Write, Interpret
<1>2. CASE Native \/ Executable \/ QBE \/ CC \/ StartProgram
  BY <1>2 DEF Native, Executable, QBE, CC, StartProgram
<1>3. CASE Return \/ Returned
  BY <1>3 DEF Return, Returned
<1> QED
  BY <1>1, <1>2, <1>3 DEF OwnSteps

LEMMA KilledStep == ASSUME StepInv, Killed PROVE StepInv'
<1>1. /\ verb' = verb /\ step' = step /\ left' = left /\ frames' = frames /\ keep' = keep /\ temps' = temps
      /\ failure' = failure /\ made' = made /\ exit' = "killed" /\ outcome' = outcome
  BY DEF Killed, Keeping, LoadIdle, loadVars
<1>2. VerbAt' /\ FramesAt'
  BY <1>1 DEF StepInv, VerbAt, FramesAt, Making
<1>3. MadeAt'
  BY <1>1 DEF StepInv, MadeAt, Making
<1>4. TempsAt' /\ SourceAt' /\ ExitAt' /\ ZeroMeansDone'
  BY <1>1 DEF StepInv, TempsAt, SourceAt, ExitAt, ZeroMeansDone
<1> QED
  BY <1>2, <1>3, <1>4 DEF StepInv

LEMMA DriverStep == DriverInv /\ [DriverNext]_allVars => DriverInv'
<1> SUFFICES ASSUME DriverInv, [DriverNext]_allVars PROVE DriverInv'
  OBVIOUS
<1>1. CASE OwnSteps
  <2>1. StepInv'
    BY <1>1, EarlyStep, OpenStep, ToolStep, ReturnStep, ReturnedStep DEF OwnSteps, DriverInv
  <2>2. PartsAt'
    BY <1>1, OwnStepsIdle, PartsIdle DEF DriverInv
  <2> QED
    BY <2>1, <2>2 DEF DriverInv
<1>2. CASE Killed
  <2>1. LoadIdle /\ ExpandIdle /\ step' = step
    BY <1>2 DEF Killed, Keeping
  <2> QED
    BY <1>2, <2>1, KilledStep, PartsIdle DEF DriverInv
<1>3. CASE UNCHANGED allVars
  <2>1. LoadIdle /\ ExpandIdle /\ UNCHANGED driverVars
    BY <1>3 DEF allVars, LoadIdle, ExpandIdle
  <2>2. outcome' = outcome /\ step' = step
    BY <2>1 DEF LoadIdle, loadVars, driverVars
  <2> QED
    BY <2>1, <2>2, OuterSame, PartsIdle DEF DriverInv
<1>4. CASE Load \/ Loaded \/ Expand \/ ExpandDone
  BY <1>4, LoadPartStep, LoadedStep, ExpandPartStep, ExpandDoneStep
<1> QED
  BY <1>1, <1>2, <1>3, <1>4 DEF DriverNext, Pipeline, Programs, OwnSteps, EarlySteps

LEMMA DriverBegins == DriverInit => DriverInv
<1> SUFFICES ASSUME DriverInit PROVE DriverInv
  OBVIOUS
<1>1. /\ LoadInv /\ FilesInv /\ lstage = "entry" /\ stage = "idle" /\ step = "arguments" /\ verb \in Verbs
      /\ sites = <<>> /\ turn = 1 /\ placed = <<>>
      /\ left = FALSE /\ frames = <<>> /\ keep = FALSE /\ temps = {}
      /\ failure = "none" /\ made = {} /\ exit = "running"
  BY LoadBegins, FilesBegin DEF DriverInit, LoadInit, Verbs, FromSource
<1>2. PartsAt
  BY <1>1 DEF PartsAt, LoaderPart, ExpandPart
<1>3. VerbAt /\ FramesAt /\ MadeAt
  BY <1>1 DEF VerbAt, FramesAt, MadeAt, Before, Building
<1>4. TempsAt /\ SourceAt /\ ExitAt /\ ZeroMeansDone
  BY <1>1 DEF TempsAt, SourceAt, ExitAt, ZeroMeansDone, Building
<1> QED
  BY <1>2, <1>3, <1>4 DEF DriverInv, StepInv

\* The invariant holds of every run of the command line.
THEOREM DriverInvariance == DriverSpec => []DriverInv
<1>1. DriverInit => DriverInv
  BY DriverBegins
<1>2. DriverInv /\ [DriverNext]_allVars => DriverInv'
  BY DriverStep
<1> QED
  BY <1>1, <1>2, PTL DEF DriverSpec

\* A process that has not been killed leaves no temporary directory, unless it is told to.
THEOREM TempsAreRemoved == DriverSpec => []NoTempLeft
<1>1. DriverInv => NoTempLeft
  <2> SUFFICES ASSUME DriverInv, exit \notin {"running", "killed"}, ~keep PROVE temps = {}
    BY DEF NoTempLeft
  <2>1. step = "over" /\ frames = <<>>
    BY DEF DriverInv, StepInv, ExitAt, FramesAt
  <2> QED
    BY <2>1, Frames DEF DriverInv, StepInv, TempsAt
<1> QED
  BY <1>1, DriverInvariance, PTL

\* Status 0 means that the command has done what it is for.
THEOREM ZeroIsSuccess == DriverSpec => []ZeroMeansDone
<1>1. DriverInv => ZeroMeansDone
  BY DEF DriverInv, StepInv
<1> QED
  BY <1>1, DriverInvariance, PTL

\* What is proved of the loader holds of it in the command line, when it has returned too.
THEOREM DriverLoads == DriverSpec => [](ImportsClosed /\ CycleReal /\ OneModulePerFile)
<1>1. DriverInv => ImportsClosed /\ CycleReal /\ OneModulePerFile
  <2> SUFFICES ASSUME LoaderPart PROVE ImportsClosed /\ CycleReal /\ OneModulePerFile
    BY DEF DriverInv, PartsAt
  <2>1. CASE lstage = "returned"
    BY <2>1 DEF LoaderPart, ImportsClosed, CycleReal, OneModulePerFile
  <2>2. CASE lstage # "returned"
    BY <2>2, FilesApart DEF LoaderPart, LoadInv
  <2> QED
    BY <2>1, <2>2
<1> QED
  BY <1>1, DriverInvariance, PTL

\* What is proved of macro expansion holds of it in the command line.
THEOREM DriverExpands == DriverSpec => [](StructsKnown /\ AllReplaced /\ PlacedWhole)
<1>1. DriverInv => StructsKnown /\ AllReplaced /\ PlacedWhole
  <2> SUFFICES ASSUME ExpandPart PROVE StructsKnown /\ AllReplaced /\ PlacedWhole
    BY DEF DriverInv, PartsAt
  <2>1. CASE stage \in {"idle", "over"}
    BY <2>1 DEF ExpandPart, StructsKnown, AllReplaced, PlacedWhole
  <2>2. CASE ExpandInv
    BY <2>2, KnownAll, ReplacedAll DEF ExpandInv, EvaluatedFirst
  <2> QED
    BY <2>1, <2>2 DEF ExpandPart
<1> QED
  BY <1>1, DriverInvariance, PTL

\* The loader of the command line implements ImportClosure, up to and with the loss of its maps.
THEOREM DriverImplementsClosure == DriverSpec => BuildsClosure
<1> USE DEF Closure!closureVars
<1>1. DriverInit => Closure!ClosureInit
  <2> SUFFICES ASSUME DriverInit PROVE Closure!ClosureInit
    OBVIOUS
  <2>1. DOMAIN modules = {} /\ outcome = "none"
    BY DEF DriverInit, LoadInit
  <2> QED
    BY <2>1 DEF Closure!ClosureInit, Imports
<1>2. ASSUME DriverInv, [DriverNext]_allVars
      PROVE  [Closure!ClosureNext]_(Closure!closureVars)
  <2>1. CASE Load
    <3>1. LoadInv /\ LoadNext
      BY <1>2, <2>1 DEF DriverInv, PartsAt, LoaderPart, Load
    <3> QED
      BY <3>1, LoaderRefines
  <2>2. CASE Loaded
    <3>1. DOMAIN Imports' = {} /\ outcome # "none" /\ outcome' = outcome
      BY <2>2 DEF Loaded, Imports
    <3> QED
      BY <3>1 DEF Closure!ClosureNext, Closure!Forget
  <2>3. CASE LoadIdle
    <3>1. Imports' = Imports /\ outcome' = outcome
      BY <2>3 DEF LoadIdle, loadVars, Imports, Uses
    <3> QED
      BY <3>1
  <2>4. CASE ~Load /\ ~Loaded
    <3>1. LoadIdle
      BY <1>2, <2>4, OwnStepsIdle DEF DriverNext, Pipeline, Programs, OwnSteps, EarlySteps, Expand, ExpandDone, Killed,
         Keeping, LoadIdle, allVars
    <3> QED
      BY <2>3, <3>1
  <2> QED
    BY <2>1, <2>2, <2>4
<1> QED
  BY <1>1, <1>2, DriverInvariance, PTL DEF DriverSpec, BuildsClosure, Closure!ClosureSpec

=============================================================================
