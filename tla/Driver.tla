-------------------------------- MODULE Driver --------------------------------
(***************************************************************************)
(* The command line program (main.cpp): options are checked, the source is *)
(* read, parsed, compiled and run, and what is asked for is printed on the *)
(* way.  What a stage does is modelled elsewhere; here each may complete,  *)
(* or throw an Error, an InternalError or an exception of the standard     *)
(* library, and what is kept is which stages did what, and the exit code.  *)
(***************************************************************************)
EXTENDS Integers

CONSTANTS
  CrashOnInternalError,   \* CRASH_ON_INTERNAL_ERROR: internal errors are not caught
  ProgramCodes            \* what interpreted programs return

ASSUME CrashAssumption == CrashOnInternalError \in BOOLEAN
ASSUME ProgramCodesAssumption == ProgramCodes \subseteq Nat

VARIABLES
  options,     \* the switches that were given
  stage,       \* the stage that is running, "over" at the end
  completed,   \* the stages that did their work
  shown,       \* what was printed
  threw,       \* what ended the process, "nothing" if nothing was thrown
  exit         \* the exit code, once it is over
vars == <<options, stage, completed, shown, threw, exit>>

NORMAL_EXIT == 0
CLI_ERROR == 1
USER_PROGRAM_ERROR == 2
INTERNAL_ERROR == 3
Running == -1
Aborted == -2   \* an exception nobody caught

Switches == {"eval", "file", "xml", "tokens", "ast", "ir", "no-parse", "no-run", "compile"}
Stages == {"cli", "read xml", "tokenize", "parse", "compile", "interpret", "emit"}
Thrown == {"error", "internal", "invalid", "exception"}

\* assertCliIntegrity: nothing to read, or switches that exclude each other.
Conflict(o) ==
  \/ o \cap {"eval", "file"} = {}
  \/ "xml" \in o /\ o \cap {"no-parse", "tokens"} # {}
  \/ "no-parse" \in o /\ o \cap {"ast", "ir"} # {}

\* Mutant: --no-run only keeps from interpreting.
RunUnlessInterpreted(o) == IF "compile" \in o THEN "emit" ELSE IF "no-run" \in o THEN "over" ELSE "interpret"
\* Where notReallyMain goes on.
FirstStage(o) == IF "xml" \in o THEN "read xml" ELSE "tokenize"
AfterTokens(o) == IF "no-parse" \in o THEN "over" ELSE "parse"
AfterCompile(o) == IF "no-run" \in o THEN "over" ELSE IF "compile" \in o THEN "emit" ELSE "interpret"

\* Only Errors, and InternalErrors unless they are to crash, are caught.
ExitCode(how) ==
  IF how = "error" THEN USER_PROGRAM_ERROR
  ELSE IF how = "exception" \/ CrashOnInternalError THEN Aborted ELSE INTERNAL_ERROR

Init ==
  /\ options \in SUBSET Switches
  /\ stage = "cli" /\ completed = {} /\ shown = {}
  /\ threw = "nothing" /\ exit = Running

CheckOptions ==
  /\ stage = "cli"
  /\ stage' = IF Conflict(options) THEN "over" ELSE FirstStage(options)
  /\ exit' = IF Conflict(options) THEN CLI_ERROR ELSE Running
  /\ UNCHANGED <<options, completed, shown, threw>>

\* What a stage makes that can be asked for.
Made(s) ==
  IF s = "tokenize" THEN "tokens"
  ELSE IF s \in {"parse", "read xml"} THEN "ast"
  ELSE IF s = "compile" THEN "ir" ELSE "nothing"

\* Stage s does its work, what it made is printed if that was asked for, and the
\* process goes on with the next stage or ends with the code.
Complete(s, next, code) ==
  /\ stage = s
  /\ completed' = completed \cup {s}
  /\ shown' = shown \cup ({Made(s)} \cap options)
  /\ stage' = next
  /\ exit' = IF next = "over" THEN code ELSE Running
  /\ UNCHANGED <<options, threw>>

ReadXml == Complete("read xml", "compile", NORMAL_EXIT)
Tokenize == Complete("tokenize", AfterTokens(options), NORMAL_EXIT)
Parse == Complete("parse", "compile", NORMAL_EXIT)
Compile == Complete("compile", AfterCompile(options), NORMAL_EXIT)
Emit == Complete("emit", "over", NORMAL_EXIT)
Interpret == \E code \in ProgramCodes : Complete("interpret", "over", code)

\* A stage throws.  A module that is invalid is printed first, asked for or not.
Throw(how) ==
  /\ stage \notin {"cli", "over"}
  /\ how = "invalid" => stage = "compile"
  /\ shown' = shown \cup (IF how = "invalid" THEN {"ir"} ELSE {})
  /\ stage' = "over" /\ threw' = how /\ exit' = ExitCode(how)
  /\ UNCHANGED <<options, completed>>

Next ==
  \/ CheckOptions \/ ReadXml \/ Tokenize \/ Parse \/ Compile \/ Interpret \/ Emit
  \/ \E how \in Thrown : Throw(how)
Spec == Init /\ [][Next]_vars

-----------------------------------------------------------------------------
(***************************************************************************)
(* Properties                                                              *)
(***************************************************************************)
\* What the switches ask for.
Reading == IF "xml" \in options THEN {"read xml"} ELSE {"tokenize", "parse"}
Last == IF "no-run" \in options THEN {} ELSE IF "compile" \in options THEN {"emit"} ELSE {"interpret"}
Plan ==
  IF Conflict(options) THEN {}
  ELSE IF "no-parse" \in options THEN {"tokenize"} ELSE Reading \cup {"compile"} \cup Last
\* What the completed stages made and were asked for.
Asked == {Made(s) : s \in completed} \cap options

\* No stage the switches exclude is run, nor any after one that threw; all of
\* them are if the process ends and nothing was thrown.
StagesAsAsked ==
  /\ completed \subseteq Plan
  /\ stage = "over" /\ threw = "nothing" => completed = Plan
  /\ threw # "nothing" => stage = "over" /\ completed # Plan
\* What is shown is what was asked for of what was made, and an invalid module.
ShownAsAsked == shown = Asked \cup IF threw = "invalid" THEN {"ir"} ELSE {}
\* The exit code tells how it ended, unless the program that was interpreted
\* returned that code itself; an exception of the standard library, or an
\* internal error in a build that crashes on them, leaves none.
CodeTells ==
  stage = "over" /\ "interpret" \notin completed =>
    /\ exit = NORMAL_EXIT <=> threw = "nothing" /\ ~Conflict(options)
    /\ exit = CLI_ERROR <=> Conflict(options)
    /\ exit = USER_PROGRAM_ERROR <=> threw = "error"
    /\ exit = INTERNAL_ERROR <=> threw \in {"internal", "invalid"} /\ ~CrashOnInternalError
\* The driver does what its switches ask for, shows that and no more, and its
\* exit code tells them apart.
DoesAsAsked == StagesAsAsked /\ ShownAsAsked /\ CodeTells
=============================================================================
