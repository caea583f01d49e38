----------------------------- MODULE DriverProofs -----------------------------
(***************************************************************************)
(* The driver does as its switches ask, for all of them, in both kinds of  *)
(* build and whatever the programs it interprets return.  What the         *)
(* property says of the end does not carry over from step to step by       *)
(* itself: the invariant adds which stages are completed at each stage.    *)
(***************************************************************************)
EXTENDS Driver, TLAPS

TypeOK ==
  /\ options \subseteq Switches
  /\ stage \in Stages \cup {"over"}
  /\ threw \in Thrown \cup {"nothing"}
  /\ exit \in Int

\* The stages that come before s.
Before(s) ==
  IF s \in {"cli", "read xml", "tokenize"} THEN {}
  ELSE IF s = "parse" THEN {"tokenize"}
  ELSE IF s = "compile" THEN Reading ELSE Reading \cup {"compile"}
\* The switches allow stage s.
Allowed(s) ==
  /\ s = "read xml" => "xml" \in options
  /\ s \in {"tokenize", "parse"} => "xml" \notin options
  /\ s \in {"parse", "compile", "interpret", "emit"} => "no-parse" \notin options
  /\ s \in {"interpret", "emit"} => "no-run" \notin options
  /\ s = "emit" <=> s \in {"interpret", "emit"} /\ "compile" \in options
UnderWay ==
  /\ threw = "nothing" /\ completed = Before(stage)
  /\ stage # "cli" => ~Conflict(options) /\ Allowed(stage)

IInv == TypeOK /\ DoesAsAsked /\ (stage # "over" => UnderWay)

LEMMA Starts == Init => IInv
<1> SUFFICES ASSUME Init PROVE IInv
  OBVIOUS
<1>1. TypeOK /\ UnderWay
  BY DEF Init, TypeOK, UnderWay, Before, Stages, Running
<1>2. StagesAsAsked /\ CodeTells
  BY DEF Init, StagesAsAsked, CodeTells
<1>3. Asked = {}
  BY DEF Init, Asked
<1>4. ShownAsAsked
  BY <1>3 DEF Init, ShownAsAsked
<1> QED
  BY <1>1, <1>2, <1>4 DEF IInv, DoesAsAsked

\* Nothing but the switches decides what is asked for.
LEMMA SamePlan ==
  ASSUME options' = options
  PROVE  Plan' = Plan /\ Conflict(options)' = Conflict(options) /\ Reading' = Reading
BY DEF Plan, Conflict, Reading, Last

\* A stage that is under way was planned, and is not done yet.
LEMMA Planned ==
  ASSUME TypeOK, UnderWay, stage \notin {"cli", "over"}
  PROVE  Before(stage) \cup {stage} \subseteq Plan /\ stage \notin Before(stage)
<1> USE DEF UnderWay, Before, Allowed, Plan, Reading, Last
<1>1. CASE stage = "read xml"
  BY <1>1 DEF Conflict
<1>2. CASE stage = "tokenize"
  BY <1>2
<1>3. CASE stage = "parse"
  BY <1>3
<1>4. CASE stage = "compile"
  BY <1>4
<1>5. CASE stage \in {"interpret", "emit"}
  BY <1>5
<1> QED
  BY <1>1, <1>2, <1>3, <1>4, <1>5 DEF TypeOK, Stages

\* A stage that completes keeps the invariant, if the next one is the next, or if
\* it was the last that is asked for.
LEMMA Completing ==
  ASSUME IInv, NEW s \in Stages \ {"cli"}, NEW next \in (Stages \cup {"over"}) \ {"cli"}, NEW code \in Int,
         Complete(s, next, code),
         next # "over" => Before(next) = Before(s) \cup {s} /\ Allowed(next),
         next = "over" => Plan = Before(s) \cup {s},
         s # "interpret" => code = NORMAL_EXIT
  PROVE  IInv'
<1>1. UnderWay /\ stage = s /\ options' = options /\ threw' = threw /\ threw = "nothing"
  BY DEF IInv, Complete, UnderWay, Stages
<1>2. completed' = Before(s) \cup {s} /\ ~Conflict(options)
  BY <1>1 DEF Complete, UnderWay
<1>3. Plan' = Plan /\ ~Conflict(options)' /\ Reading' = Reading
  BY <1>1, <1>2, SamePlan
<1>4. TypeOK'
  BY <1>1 DEF IInv, TypeOK, Complete, Running
<1>5. StagesAsAsked'
  <2>1. Before(s) \cup {s} \subseteq Plan
    BY <1>1, Planned DEF IInv, Stages
  <2> QED
    BY <1>1, <1>2, <1>3, <2>1 DEF Complete, StagesAsAsked
<1>6. ShownAsAsked'
  <2>1. shown = Asked
    BY <1>1 DEF IInv, DoesAsAsked, ShownAsAsked
  <2>2. {Made(x) : x \in completed'} = {Made(x) : x \in completed} \cup {Made(s)}
    BY DEF Complete
  <2> QED
    BY <1>1, <2>1, <2>2 DEF Complete, ShownAsAsked, Asked
<1>7. CodeTells'
  BY <1>1, <1>2, <1>3 DEF Complete, CodeTells, NORMAL_EXIT, CLI_ERROR, USER_PROGRAM_ERROR, INTERNAL_ERROR
<1>8. (stage # "over" => UnderWay)'
  <2> SUFFICES ASSUME next # "over" PROVE UnderWay'
    BY DEF Complete
  <2>1. stage' = next
    BY DEF Complete
  <2>2. Before(stage)' = Before(next)
    BY <1>3, <2>1 DEF Before
  <2>3. Allowed(stage)'
    BY <1>1, <2>1 DEF Allowed
  <2> QED
    BY <1>1, <1>2, <1>3, <2>2, <2>3 DEF UnderWay
<1> QED
  BY <1>4, <1>5, <1>6, <1>7, <1>8 DEF IInv, DoesAsAsked

\* One step keeps the invariant.
LEMMA Keeps == IInv /\ [Next]_vars => IInv'
<1> SUFFICES ASSUME IInv, [Next]_vars PROVE IInv'
  OBVIOUS
<1>0. NORMAL_EXIT \in Int
  BY DEF NORMAL_EXIT
<1> USE DEF Stages
<1>1. CASE CheckOptions
  <2>1. /\ options' = options /\ threw' = "nothing" /\ completed' = {} /\ shown' = {}
        /\ threw = "nothing" /\ completed = {} /\ shown = {}
    BY <1>1 DEF CheckOptions, IInv, UnderWay, Before, DoesAsAsked, ShownAsAsked, Asked
  <2>2. Plan' = Plan /\ Conflict(options)' = Conflict(options)
    BY <2>1, SamePlan
  <2>3. TypeOK'
    <3>1. options \subseteq Switches /\ threw' \in Thrown \cup {"nothing"}
      BY <2>1 DEF IInv, TypeOK
    <3>2. stage' \in Stages \cup {"over"}
      BY <1>1 DEF CheckOptions, FirstStage
    <3>3. exit' \in Int
      BY <1>1 DEF CheckOptions, CLI_ERROR, Running
    <3> QED
      BY <2>1, <3>1, <3>2, <3>3 DEF TypeOK
  <2>4. CASE Conflict(options)
    <3>1. stage' = "over" /\ exit' = CLI_ERROR /\ Plan = {}
      BY <1>1, <2>4 DEF CheckOptions, Plan
    <3> QED
      <4>1. Asked' = {}
        BY <2>1 DEF Asked
      <4>2. StagesAsAsked' /\ ShownAsAsked'
        BY <2>1, <2>2, <3>1, <4>1 DEF StagesAsAsked, ShownAsAsked
      <4>3. CodeTells'
        BY <2>1, <2>2, <2>4, <3>1 DEF CodeTells, NORMAL_EXIT, CLI_ERROR, USER_PROGRAM_ERROR, INTERNAL_ERROR
      <4> QED
        BY <2>3, <3>1, <4>2, <4>3 DEF IInv, DoesAsAsked
  <2>5. CASE ~Conflict(options)
    <3>1. stage' = FirstStage(options) /\ stage' # "over"
      BY <1>1, <2>5 DEF CheckOptions, FirstStage
    <3>2. DoesAsAsked'
      BY <2>1, <3>1 DEF DoesAsAsked, StagesAsAsked, ShownAsAsked, Asked, CodeTells
    <3>3. UnderWay'
      BY <2>1, <2>2, <2>5, <3>1 DEF UnderWay, Before, Allowed, FirstStage
    <3> QED
      BY <2>3, <3>2, <3>3 DEF IInv
  <2> QED
    BY <2>4, <2>5
<1>2. CASE ReadXml
  <2>1. UnderWay /\ stage = "read xml"
    BY <1>2 DEF ReadXml, Complete, IInv
  <2>2. Before("compile") = Before("read xml") \cup {"read xml"} /\ Allowed("compile")
    BY <2>1 DEF UnderWay, Before, Allowed, Reading, Conflict
  <2> QED
    <3>1. Complete("read xml", "compile", NORMAL_EXIT)
      BY <1>2 DEF ReadXml
    <3> QED
      BY <1>0, <2>2, <3>1, Completing
<1>3. CASE Tokenize
  <2>1. UnderWay /\ stage = "tokenize"
    BY <1>3 DEF Tokenize, Complete, IInv
  <2>2. Before("parse") = Before("tokenize") \cup {"tokenize"}
    BY DEF Before
  <2>3. "no-parse" \notin options => Allowed("parse")
    BY <2>1 DEF UnderWay, Allowed
  <2>4. "no-parse" \in options => Plan = Before("tokenize") \cup {"tokenize"}
    BY <2>1 DEF UnderWay, Before, Plan
  <2> QED
    <3>1. CASE "no-parse" \in options
      <4>1. Complete("tokenize", "over", NORMAL_EXIT)
        BY <1>3, <3>1 DEF Tokenize, AfterTokens
      <4> QED
        BY <1>0, <2>4, <3>1, <4>1, Completing
    <3>2. CASE "no-parse" \notin options
      <4>1. Complete("tokenize", "parse", NORMAL_EXIT)
        BY <1>3, <3>2 DEF Tokenize, AfterTokens
      <4> QED
        BY <1>0, <2>2, <2>3, <3>2, <4>1, Completing
    <3> QED
      BY <3>1, <3>2
<1>4. CASE Parse
  <2>1. UnderWay /\ stage = "parse"
    BY <1>4 DEF Parse, Complete, IInv
  <2>2. Before("compile") = Before("parse") \cup {"parse"} /\ Allowed("compile")
    BY <2>1 DEF UnderWay, Before, Allowed, Reading
  <2> QED
    <3>1. Complete("parse", "compile", NORMAL_EXIT)
      BY <1>4 DEF Parse
    <3> QED
      BY <1>0, <2>2, <3>1, Completing
<1>5. CASE Compile
  <2>1. UnderWay /\ stage = "compile"
    BY <1>5 DEF Compile, Complete, IInv
  <2>2. \A s \in {"interpret", "emit"} : Before(s) = Before("compile") \cup {"compile"}
    BY DEF Before
  <2>3. AfterCompile(options) # "over" => Allowed(AfterCompile(options))
    BY <2>1 DEF UnderWay, Allowed, AfterCompile
  <2>4. AfterCompile(options) = "over" => Plan = Before("compile") \cup {"compile"}
    BY <2>1 DEF UnderWay, Allowed, Before, Plan, Last, AfterCompile
  <2>5. AfterCompile(options) \in {"over", "interpret", "emit"}
    BY DEF AfterCompile
  <2> QED
    <3> DEFINE next == AfterCompile(options)
    <3>1. Complete("compile", next, NORMAL_EXIT)
      BY <1>5 DEF Compile
    <3>2. next # "over" => Before(next) = Before("compile") \cup {"compile"} /\ Allowed(next)
      BY <2>2, <2>3, <2>5
    <3> HIDE DEF next
    <3>3. next \in {"over", "interpret", "emit"} /\ (next = "over" => Plan = Before("compile") \cup {"compile"})
      BY <2>4, <2>5 DEF next
    <3> QED
      BY <1>0, <3>1, <3>2, <3>3, Completing
<1>6. CASE Interpret
  <2>1. PICK code \in ProgramCodes : Complete("interpret", "over", code)
    BY <1>6 DEF Interpret
  <2>2. UnderWay /\ stage = "interpret" /\ code \in Int
    BY <2>1, ProgramCodesAssumption DEF Complete, IInv
  <2>3. Plan = Before("interpret") \cup {"interpret"}
    BY <2>2 DEF UnderWay, Allowed, Before, Plan, Last
  <2> QED
    BY <2>1, <2>2, <2>3, Completing
<1>7. CASE Emit
  <2>1. UnderWay /\ stage = "emit"
    BY <1>7 DEF Emit, Complete, IInv
  <2>2. Plan = Before("emit") \cup {"emit"}
    BY <2>1 DEF UnderWay, Allowed, Before, Plan, Last
  <2> QED
    <3>1. Complete("emit", "over", NORMAL_EXIT)
      BY <1>7 DEF Emit
    <3> QED
      BY <1>0, <2>2, <3>1, Completing
<1>8. ASSUME NEW how \in Thrown, Throw(how) PROVE IInv'
  <2>1. TypeOK'
    <3>1. ExitCode(how) \in {2, 3, -2}
      BY DEF ExitCode, USER_PROGRAM_ERROR, INTERNAL_ERROR, Aborted
    <3>2. ExitCode(how) \in Int
      BY <3>1
    <3> QED
      BY <1>8, <3>2 DEF Throw, IInv, TypeOK
  <2>2. UnderWay /\ stage \notin {"cli", "over"} /\ threw = "nothing" /\ ~Conflict(options)
    BY <1>8 DEF Throw, IInv, UnderWay
  <2>3. stage \in Plan /\ stage \notin completed /\ completed \subseteq Plan
    BY <2>2, Planned DEF IInv, UnderWay
  <2>4. Plan' = Plan /\ completed' = completed /\ options' = options /\ ~Conflict(options)'
    BY <1>8, <2>2, SamePlan DEF Throw
  <2>5. StagesAsAsked'
    BY <1>8, <2>3, <2>4 DEF Throw, StagesAsAsked, Thrown
  <2>6. ShownAsAsked'
    BY <1>8, <2>2, <2>4 DEF Throw, IInv, DoesAsAsked, ShownAsAsked, Asked
  <2>7. CodeTells'
    <3> USE DEF CodeTells, Throw, ExitCode, NORMAL_EXIT, CLI_ERROR, USER_PROGRAM_ERROR, INTERNAL_ERROR, Aborted
    <3>1. CASE how = "error"
      BY <1>8, <2>4, <3>1
    <3>2. CASE how = "exception"
      BY <1>8, <2>4, <3>2
    <3>3. CASE how \in {"internal", "invalid"} /\ CrashOnInternalError
      BY <1>8, <2>4, <3>3
    <3>4. CASE how \in {"internal", "invalid"} /\ ~CrashOnInternalError
      BY <1>8, <2>4, <3>4
    <3> QED
      BY <3>1, <3>2, <3>3, <3>4 DEF Thrown
  <2> QED
    BY <1>8, <2>1, <2>5, <2>6, <2>7 DEF Throw, IInv, DoesAsAsked
<1>9. CASE UNCHANGED vars
  <2>1. Plan' = Plan /\ Conflict(options)' = Conflict(options) /\ Reading' = Reading
    BY <1>9, SamePlan DEF vars
  <2>2. TypeOK' /\ DoesAsAsked'
    BY <1>9, <2>1 DEF vars, IInv, TypeOK, DoesAsAsked, StagesAsAsked, ShownAsAsked, CodeTells, Asked
  <2>3. (stage # "over" => UnderWay)'
    BY <1>9, <2>1 DEF vars, IInv, UnderWay, Before, Allowed
  <2> QED
    BY <2>2, <2>3 DEF IInv
<1> QED
  BY <1>1, <1>2, <1>3, <1>4, <1>5, <1>6, <1>7, <1>8, <1>9 DEF Next

\* The driver does what its switches ask for, shows what was asked for of it and
\* no more, and its exit code tells how it ended (notReallyMain in main.cpp).
THEOREM AlwaysAsAsked == Spec => []DoesAsAsked
<1>1. IInv => DoesAsAsked
  BY DEF IInv
<1> QED
  BY <1>1, Starts, Keeps, PTL DEF Spec
=============================================================================
