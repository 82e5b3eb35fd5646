----------------------------- MODULE InitProofs -----------------------------
(***************************************************************************)
(* Theorems about `mandat init`, for any prompts and classes of them, any  *)
(* flags, environments and edits, any file it may find, and any reading of *)
(* texts in which an absent one reads as unset.                            *)
(***************************************************************************)
EXTENDS InitProperties, TLAPS

(***************************************************************************)
(* Facts about the constants and the records.                              *)
(***************************************************************************)
Answers == Value \cup {Unset}

Runs ==
  [at : Stage, ask : 1..Len(Prompts), fresh : BOOLEAN, default : Input, input : Input,
   typed : Input, env : Input, closed : BOOLEAN, interactive : BOOLEAN, yes : BOOLEAN,
   unit : BOOLEAN, before : Document, diff : Seq(Document \cup {Corrupt}),
   confirmed : BOOLEAN, edited : BOOLEAN,
   exit : {"none", "ok", "error", "refused", "declined", "killed"}]

Files ==
  /\ config \in Document \cup {Corrupt}
  /\ playbook \in [Role -> {"none", "template", "edited"}] /\ unit \in BOOLEAN
  /\ runs \in Nat /\ edits \in Nat

LEMMA Typed == TypeOK <=> run \in Runs /\ Files
BY DEF TypeOK, Runs, Files

LEMMA Constants ==
  /\ Prompts \in Seq(STRING) /\ Len(Prompts) \in Nat /\ Len(Prompts) > 0
  /\ \A i \in 1..Len(Prompts) : Prompts[i] \in Prompted
  /\ Prompted # {} /\ Prompted \subseteq Field
  /\ Choice \in [Field -> SUBSET Value]
  /\ Flags \subseteq Input /\ Env \subseteq Input /\ Found \subseteq Document \cup {Corrupt}
  /\ Discoverable \subseteq Prompted /\ Prompted \cap Unprompted = {}
  /\ "a" \in Value /\ Value \subseteq Text /\ Unset \notin Text
  /\ \A text \in Text \cup {Unset} : Scalar[text] \in Answers \cup {Syntax}
  /\ Scalar[Unset] = Unset /\ Unset # Syntax
<1>1. Prompts \in Seq(STRING) /\ Len(Prompts) \in Nat /\ Len(Prompts) > 0
  BY PromptsAssumption
<1>2. 1 \in 1..Len(Prompts)
  BY <1>1
<1> QED
  BY <1>1, <1>2, TextsAssumption, ClassesAssumption, ChoiceAssumption, InputsAssumption
     DEF Prompted, Field, Required, Answers, Unset, Syntax

\* "none" and "unset" are no values, and a corrupt file is no document.
LEMMA Distinct ==
  /\ Nothing \in Input /\ Empty \in Document
  /\ \A input \in Input : input # None
  /\ Corrupt \notin Document
<1>1. PICK f \in Prompted : f \in Field
  BY Constants
<1> QED
  BY <1>1, TextsAssumption DEF Nothing, Input, Empty, Document, None, Corrupt, Unset

LEMMA IdleTyped ==
  /\ Idle \in Runs
  /\ Idle.at = "idle" /\ Idle.exit = "none" /\ Idle.ask = 1
BY Constants, Distinct DEF Idle, Runs, Stage

\* How a run ends, and how it goes on.
LEMMA ExitIs ==
  ASSUME TypeOK, NEW code \in {"ok", "error", "refused", "declined", "killed"}, Exit(code)
  PROVE  /\ run' \in Runs /\ run'.at = "idle" /\ run'.exit = code
         /\ run'.unit = run.unit /\ run'.edited = run.edited
<1>1. run \in Runs
  BY Typed
<1> QED
  BY <1>1, IdleTyped DEF Exit, Ended, Runs

Kept(step) ==
  /\ run' \in Runs /\ run'.at = step
  /\ run'.ask = run.ask /\ run'.fresh = run.fresh /\ run'.default = run.default
  /\ run'.input = run.input /\ run'.typed = run.typed /\ run'.env = run.env
  /\ run'.interactive = run.interactive /\ run'.before = run.before
  /\ run'.exit = run.exit

LEMMA GotoKeeps ==
  ASSUME TypeOK, NEW step \in Stage, Goto(step)
  PROVE  /\ Kept(step) /\ run'.unit = run.unit /\ run'.diff = run.diff
         /\ run'.yes = run.yes /\ run'.confirmed = run.confirmed /\ run'.edited = run.edited
<1>1. run \in Runs
  BY Typed
<1> QED
  BY <1>1 DEF Goto, Kept, Runs

\* A run that is over, and did not end green, has nothing to answer for.
LEMMA InvIdle ==
  ASSUME run' \in Runs, run'.at = "idle", run'.exit # "ok", Files'
  PROVE  InitInv'
<1>1. TypeOK'
  BY DEF TypeOK, Runs, Files
<1> QED
  BY <1>1 DEF InitInv, Behind, Defaulted, Asks, Shown, GreenIsServable, Answered

\* Answers, defaults and environment stand, so what was taken still is.
LEMMA TakenStays ==
  ASSUME NEW step, Kept(step), NEW f, Taken(f)
  PROVE  Taken(f)'
BY DEF Kept, Taken

LEMMA DefaultedStays ==
  ASSUME NEW step, Kept(step), Defaulted, run.at \in Answered \cup {"interview"}
  PROVE  Defaulted'
BY DEF Kept, Defaulted

(***************************************************************************)
(* InitInv holds at the start, and every step of a run keeps it.           *)
(***************************************************************************)
LEMMA InvInit == Init => InitInv
<1> SUFFICES ASSUME Init PROVE InitInv
  OBVIOUS
<1>1. run = Idle /\ Files
  BY Constants DEF Init, Files, Role
<1>2. TypeOK
  BY <1>1, IdleTyped, Typed
<1> QED
  BY <1>1, <1>2, IdleTyped
     DEF InitInv, Behind, Defaulted, Asks, Shown, GreenIsServable, Answered

\* What a document that parses reads as, field by field.
LEMMA ReadsAs ==
  ASSUME NEW document \in Document \cup {Corrupt}, Parses(document)
  PROVE  document \in Document /\ \A f \in Prompted : Scalar[document[f]] \in Answers
<1>1. document \in Document
  BY DEF Parses
<1>2. ASSUME NEW f \in Prompted PROVE Scalar[document[f]] \in Answers
  <2>1. f \in Field /\ document[f] \in Text \cup {Unset}
    BY <1>1, Constants DEF Document
  <2>2. Scalar[document[f]] # Syntax
    BY <2>1 DEF Parses
  <2> QED
    BY <2>1, <2>2, Constants
<1> QED
  BY <1>1, <1>2

LEMMA PriorIs ==
  ASSUME NEW document \in Document \cup {Corrupt}, NEW env \in Input
  PROVE  LET stored == reconstructPriorInput(document)
             prior == mergeEnvOverPrior(stored, env)
         IN  /\ stored # None => /\ document \in Document
                                 /\ \A f \in Prompted : stored[f] = Scalar[document[f]]
             /\ prior # None =>
                  /\ prior \in Input
                  /\ \A f \in Prompted :
                       prior[f] = IF Supplied(env, f) THEN env[f]
                                  ELSE IF stored = None THEN Unset ELSE Scalar[document[f]]
             /\ prior = None => \A f \in Prompted : ~Supplied(env, f)
<1> DEFINE stored == reconstructPriorInput(document)
           prior == mergeEnvOverPrior(stored, env)
           merged == [f \in Prompted |-> IF Supplied(env, f) THEN env[f]
                                         ELSE IF stored = None THEN Unset ELSE stored[f]]
<1>1. stored # None => /\ document \in Document
                       /\ stored = [f \in Prompted |-> Scalar[document[f]]]
                       /\ \A f \in Prompted : Scalar[document[f]] \in Answers
  BY ReadsAs DEF reconstructPriorInput, HasContent
<1>2. \A f \in Prompted : env[f] \in Answers
  BY DEF Input, Answers
<1>3. merged \in Input
  <2>1. \A f \in Prompted : merged[f] \in Answers
    BY <1>1, <1>2 DEF Answers
  <2> QED
    BY <2>1 DEF Input, Answers
<1>4. prior = IF stored = None /\ \A f \in Prompted : ~Supplied(env, f) THEN None ELSE merged
  BY DEF mergeEnvOverPrior
<1>5. merged # None
  BY <1>3, Distinct
<1> QED
  BY <1>1, <1>3, <1>4, <1>5

LEMMA InvInteractive ==
  ASSUME InitInv, NEW env \in Env, NEW yes \in BOOLEAN, Interactive(env, yes), run.at = "idle",
         UNCHANGED <<config, playbook, unit, edits>>, runs' \in Nat
  PROVE  InitInv'
<1> DEFINE stored == reconstructPriorInput(config)
           prior == mergeEnvOverPrior(stored, env)
<1>1. config \in Document \cup {Corrupt} /\ env \in Input /\ Files
  BY Constants, Typed DEF InitInv, Files
<1>2. PICK default \in (IF prior = None THEN resolvePrefill ELSE {prior}) :
        run' = [Idle EXCEPT !.at = "interview", !.interactive = TRUE, !.yes = yes, !.env = env,
                            !.fresh = prior = None, !.default = default,
                            !.before = IF stored = None THEN Empty ELSE config]
  BY DEF Interactive
<1>3. default \in Input
  <2>1. CASE prior = None
    <3>1. default \in resolvePrefill
      BY <1>2, <2>1
    <3>2. \A known \in SUBSET Discoverable :
            [f \in Prompted |-> IF f \in known THEN "a" ELSE Unset] \in Input
      BY Constants DEF Input
    <3> QED
      BY <3>1, <3>2 DEF resolvePrefill
  <2>2. CASE prior # None
    BY <1>1, <1>2, <2>2, PriorIs
  <2> QED
    BY <2>1, <2>2
<1> DEFINE before == IF stored = None THEN Empty ELSE config
<1>4. before \in Document
  BY <1>1, PriorIs, Distinct
<1>5. /\ run' \in Runs /\ run'.at = "interview" /\ run'.interactive = TRUE /\ run'.env = env
      /\ run'.fresh = (prior = None) /\ run'.default = default /\ run'.before = before
      /\ run'.exit = "none" /\ run'.ask = 1
  <2>1. PICK fresh \in BOOLEAN : fresh = (prior = None)
    OBVIOUS
  <2>2. run' = [Idle EXCEPT !.at = "interview", !.interactive = TRUE, !.yes = yes, !.env = env,
                            !.fresh = fresh, !.default = default, !.before = before]
    BY <1>2, <2>1
  <2> HIDE DEF before, prior, stored
  <2> QED
    BY <1>1, <1>3, <1>4, <2>1, <2>2, IdleTyped, ZenonT(40) DEF Runs, Stage, Idle
<1>6. Defaulted'
  <2> SUFFICES ASSUME NEW f \in Prompted, prior # None
               PROVE  default[f] = IF Supplied(env, f) THEN env[f] ELSE Scalar[before[f]]
    <3>1. prior = None => \A f \in Prompted : ~Supplied(env, f)
      BY <1>1, PriorIs
    <3> HIDE DEF prior, before
    <3> QED
      BY <1>5, <3>1 DEF Defaulted
  <2>1. default = prior
    BY <1>2
  <2>2. prior[f] = IF Supplied(env, f) THEN env[f] ELSE IF stored = None THEN Unset ELSE Scalar[config[f]]
    BY <1>1, PriorIs
  <2>3. Scalar[Empty[f]] = Unset
    BY Constants DEF Empty
  <2> HIDE DEF prior, stored
  <2> QED
    BY <2>1, <2>2, <2>3
<1> HIDE DEF prior, stored, before
<1>7. TypeOK' /\ Behind' /\ Shown' /\ GreenIsServable'
  BY <1>1, <1>5 DEF TypeOK, Runs, Files, Behind, Shown, GreenIsServable
<1>8. Asks'
  BY <1>5 DEF Asks, Answered
<1> QED
  BY <1>6, <1>7, <1>8 DEF InitInv

LEMMA InvNonInteractive ==
  ASSUME InitInv, NEW env \in Env, NEW flags \in Flags, NonInteractive(flags, env), run.at = "idle",
         UNCHANGED <<config, playbook, unit, edits>>, runs' \in Nat
  PROVE  InitInv'
<1>1. flags \in Input /\ env \in Input /\ Files
  BY Constants, Typed DEF InitInv
<1> DEFINE input == mergeEnvIntoUnset(flags, env)
<1>2. input \in Input /\ \A f \in Prompted : input[f] = IF flags[f] # Unset THEN flags[f] ELSE env[f]
  BY <1>1 DEF mergeEnvIntoUnset, Input
<1>3. /\ run' \in Runs /\ run'.at = "validate" /\ run'.interactive = FALSE /\ run'.env = env
      /\ run'.typed = flags /\ run'.input = input /\ run'.exit = "none"
  <2>1. run' = [Idle EXCEPT !.at = "validate", !.yes = TRUE, !.env = env, !.typed = flags,
                            !.input = input]
    BY DEF NonInteractive
  <2> HIDE DEF input
  <2> QED
    BY <1>1, <1>2, <2>1, IdleTyped DEF Runs, Stage, Idle
<1> HIDE DEF input
<1>4. TypeOK' /\ Behind' /\ Shown' /\ GreenIsServable' /\ Defaulted'
  BY <1>1, <1>3 DEF TypeOK, Runs, Files, Behind, Shown, GreenIsServable, Defaulted
<1>5. Asks'
  BY <1>2, <1>3 DEF Asks, Answered, Taken
<1> QED
  BY <1>4, <1>5 DEF InitInv

\* A prompt answered: the field has the answer or its default, and what was
\* taken before still is.
LEMMA InvTake ==
  ASSUME InitInv, run.at = "interview", UNCHANGED <<config, playbook, unit, runs, edits>>,
         NEW value \in Answers, NEW typed \in Answers, NEW closed \in BOOLEAN,
         (typed = value /\ typed # Unset) \/ (typed = Unset /\ value = run.default[Asked]),
         Take(value, typed, closed)
  PROVE  InitInv'
<1>1. run \in Runs /\ Files /\ run.ask \in 1..Len(Prompts) /\ run.exit = "none"
      /\ run.interactive
  BY Typed DEF InitInv, Runs, Behind, Asks
<1>2. Asked \in Prompted /\ Len(Prompts) \in Nat
  BY <1>1, Constants DEF Asked
<1> DEFINE input == [run.input EXCEPT ![Asked] = value]
           answers == [run.typed EXCEPT ![Asked] = typed]
           ask == IF run.ask = Len(Prompts) THEN 1 ELSE run.ask + 1
           at == IF run.ask = Len(Prompts) THEN "unit?" ELSE "interview"
<1>3. /\ input \in Input /\ input[Asked] = value
      /\ \A f \in Prompted : f # Asked => input[f] = run.input[f]
  BY <1>1, <1>2 DEF Input, Runs, Answers
<1>4. /\ answers \in Input /\ answers[Asked] = typed
      /\ \A f \in Prompted : f # Asked => answers[f] = run.typed[f]
  BY <1>1, <1>2 DEF Input, Runs, Answers
<1>5. ask \in 1..Len(Prompts) /\ at \in Stage /\ at \in {"unit?", "interview"}
  BY <1>1, <1>2 DEF Stage
<1>6. run' = [run EXCEPT !.input = input, !.typed = answers, !.closed = closed, !.ask = ask,
                         !.at = at]
  BY <1>1 DEF Take, Runs
<1>7. /\ run' \in Runs /\ run'.at = at /\ run'.ask = ask /\ run'.input = input
      /\ run'.typed = answers /\ run'.default = run.default /\ run'.env = run.env
      /\ run'.fresh = run.fresh /\ run'.interactive = run.interactive
      /\ run'.before = run.before /\ run'.exit = run.exit
  <2> HIDE DEF input, answers, ask, at
  <2> QED
    BY <1>1, <1>3, <1>4, <1>5, <1>6 DEF Runs
<1>8. \A f \in Prompted : (f = Asked \/ Taken(f)) => Taken(f)'
  <2> TAKE f \in Prompted
  <2>1. CASE f = Asked
    <3>1. input[f] = IF answers[f] # Unset THEN answers[f] ELSE run.default[f]
      BY <1>3, <1>4, <2>1
    <3> HIDE DEF input, answers
    <3>2. Taken(f)'
      BY <1>1, <1>7, <3>1 DEF Taken
    <3> QED
      BY <3>2
  <2>2. CASE f # Asked
    <3>1. input[f] = run.input[f] /\ answers[f] = run.typed[f]
      BY <1>3, <1>4, <2>2
    <3> HIDE DEF input, answers
    <3> QED
      BY <1>7, <2>2, <3>1 DEF Taken
  <2> QED
    BY <2>1, <2>2
<1>9. \A i \in 1..run.ask : Taken(Prompts[i])'
  <2> TAKE i \in 1..run.ask
  <2>1. Prompts[i] \in Prompted
    BY <1>1, <1>2, Constants
  <2>2. Prompts[i] = Asked \/ Taken(Prompts[i])
    BY <1>1, <1>2 DEF InitInv, Asks, Asked
  <2> QED
    BY <1>8, <2>1, <2>2
<1>10. Asks'
  <2>1. CASE run.ask = Len(Prompts)
    <3>1. run'.at = "unit?"
      BY <1>7, <2>1
    <3>2. ASSUME NEW f \in Prompted PROVE Taken(f)'
      BY <1>9, <2>1, <3>2 DEF Prompted
    <3> QED
      BY <3>1, <3>2 DEF Asks
  <2>2. CASE run.ask # Len(Prompts)
    <3>1. run'.at = "interview" /\ run'.ask = run.ask + 1
      BY <1>7, <2>2
    <3>2. \A i \in 1..(run'.ask - 1) : Taken(Prompts[i])'
      BY <1>1, <1>2, <1>9, <3>1
    <3> QED
      BY <1>1, <1>7, <3>1, <3>2 DEF Asks, Answered
  <2> QED
    BY <2>1, <2>2
<1> HIDE DEF input, answers, ask, at
<1>11. TypeOK' /\ Behind' /\ GreenIsServable' /\ Shown'
  BY <1>1, <1>5, <1>7 DEF TypeOK, Runs, Files, Behind, GreenIsServable, Shown
<1>12. Defaulted'
  BY <1>1, <1>7 DEF InitInv, Defaulted
<1> QED
  BY <1>10, <1>11, <1>12 DEF InitInv

LEMMA InvInterview ==
  ASSUME InitInv, runInteractiveInterview
  PROVE  InitInv'
<1>1. run.at = "interview" /\ run \in Runs /\ Files /\ UNCHANGED <<config, playbook, unit, runs, edits>>
  BY Typed DEF runInteractiveInterview, InitInv
<1>2. Asked \in Prompted /\ Choice[Asked] \subseteq Value
  BY <1>1, Constants DEF Asked, Runs
<1>3. ASSUME NEW value \in Choice[Asked], Type(value) PROVE InitInv'
  <2>1. value \in Answers /\ value # Unset
    BY <1>2, Constants DEF Answers
  <2>2. PICK closed \in BOOLEAN : closed = FALSE
    OBVIOUS
  <2>3. PICK typed \in Answers : typed = value /\ typed # Unset
    BY <2>1
  <2>4. Take(value, typed, closed)
    BY <1>3, <2>2, <2>3 DEF Type
  <2> QED
    BY <1>1, <2>1, <2>3, <2>4, InvTake, Zenon
<1>4. ASSUME NEW closed \in BOOLEAN, Keep(closed) PROVE InitInv'
  <2>1. Unset \in Answers
    BY DEF Answers
  <2>2. PICK value \in Answers : value = run.default[Asked]
    BY <1>1, <1>2 DEF Runs, Input, Answers
  <2>3. Take(value, Unset, closed)
    BY <1>4, <2>2 DEF Keep
  <2> QED
    BY <1>1, <1>4, <2>1, <2>2, <2>3, InvTake, Zenon
<1>5. CASE InputEnds
  <2>1. Exit("error")
    BY <1>5 DEF InputEnds
  <2> QED
    BY <1>1, <2>1, ExitIs, InvIdle DEF InitInv, Files
<1> QED
  BY <1>3, <1>4, <1>5 DEF runInteractiveInterview

\* A step towards the write changes nothing that was asked.
LEMMA InvTowards ==
  ASSUME InitInv, run.at \in Answered, NEW step \in Answered, Kept(step), Shown',
         UNCHANGED <<config, playbook, unit, runs, edits>>
  PROVE  InitInv'
<1>1. run \in Runs /\ Files
  BY Typed DEF InitInv
<1>2. TypeOK'
  BY <1>1 DEF Kept, TypeOK, Runs, Files
<1>3. Behind' /\ GreenIsServable'
  BY DEF InitInv, Kept, Behind, GreenIsServable, Answered
<1>4. Defaulted'
  BY DefaultedStays DEF InitInv
<1>5. Asks'
  <2>1. \A f \in Prompted : Taken(f)'
    BY TakenStays DEF InitInv, Asks
  <2> QED
    BY <2>1 DEF Kept, Asks, Answered
<1> QED
  BY <1>2, <1>3, <1>4, <1>5 DEF InitInv

LEMMA InvGates ==
  ASSUME InitInv, confirmUnit \/ validate \/ validateADOBeforeWrite \/ writeConfig \/ confirmYesNo
  PROVE  InitInv'
<1>1. /\ run \in Runs /\ Files /\ TypeOK /\ UNCHANGED <<config, playbook, unit, runs, edits>>
      /\ run.at \in Answered
  BY Typed DEF InitInv, confirmUnit, validate, validateADOBeforeWrite, writeConfig, confirmYesNo,
               Answered
<1>2. ASSUME NEW code \in {"error", "refused", "declined"}, Exit(code) PROVE InitInv'
  BY <1>1, <1>2, ExitIs, InvIdle DEF Files
<1>3. ASSUME NEW step \in {"probe", "diff"}, Goto(step) PROVE InitInv'
  <2>1. Kept(step) /\ step \in Answered
    BY <1>1, <1>3, GotoKeeps DEF Answered, Stage
  <2>2. Shown'
    BY <2>1 DEF Kept, Shown
  <2> QED
    BY <1>1, <2>1, <2>2, InvTowards
<1>4. CASE confirmUnit
  <2>1. PICK yes \in BOOLEAN : run' = [run EXCEPT !.unit = yes, !.at = "validate"]
    BY <1>4 DEF confirmUnit
  <2>2. Kept("validate")
    BY <1>1, <2>1 DEF Kept, Runs, Stage
  <2>3. Shown' /\ "validate" \in Answered
    BY <2>2 DEF Kept, Shown, Answered
  <2> QED
    BY <1>1, <2>2, <2>3, InvTowards
<1>5. CASE validate
  BY <1>2, <1>3, <1>5 DEF validate
<1>6. CASE validateADOBeforeWrite
  BY <1>2, <1>3, <1>6 DEF validateADOBeforeWrite
<1>7. CASE writeConfig
  <2>1. CASE Exit("error")
    BY <1>2, <2>1
  <2>2. CASE run' = [run EXCEPT !.diff = <<config, render(run.input)>>,
                                !.at = IF run.yes THEN "truncate" ELSE "confirm"]
    <3> DEFINE step == IF run.yes THEN "truncate" ELSE "confirm"
               diff == <<config, render(run.input)>>
    <3>1. render(run.input) \in Document
      BY <1>1, Constants DEF render, Runs, Input, Document
    <3>2. diff \in Seq(Document \cup {Corrupt}) /\ diff[1] = config
          /\ diff = <<diff[1], render(run.input)>>
      BY <1>1, <3>1 DEF Files
    <3>3. step \in Answered /\ step \in Stage
      BY DEF Answered, Stage
    <3>4. run' = [run EXCEPT !.diff = diff, !.at = step]
      BY <2>2
    <3> HIDE DEF diff
    <3>5. Kept(step) /\ run'.diff = diff /\ run'.yes = run.yes /\ run'.confirmed = run.confirmed
          /\ run'.edited = run.edited
      BY <1>1, <3>2, <3>3, <3>4 DEF Kept, Runs
    <3>6. Shown'
      <4>1. run'.input = run.input /\ run'.at = step
        BY <3>5 DEF Kept
      <4>2. config' = config
        BY <1>1
      <4>3. run'.diff = <<run'.diff[1], render(run'.input)>> /\ run'.diff[1] = config'
        BY <3>2, <3>5, <4>1, <4>2
      <4> QED
        BY <3>5, <4>1, <4>3 DEF Shown, render
    <3> QED
      BY <1>1, <3>3, <3>5, <3>6, InvTowards
  <2> QED
    BY <1>7, <2>1, <2>2 DEF writeConfig
<1>8. CASE confirmYesNo
  <2>1. CASE Exit("declined")
    BY <1>2, <2>1
  <2>2. CASE run' = [run EXCEPT !.at = "truncate", !.confirmed = TRUE]
    <3>1. /\ Kept("truncate") /\ run'.diff = run.diff /\ run'.confirmed /\ run'.edited = run.edited
          /\ "truncate" \in Answered
      BY <1>1, <2>2 DEF Kept, Runs, Stage, Answered
    <3>2. run.at = "confirm" /\ Shown
      BY <1>8 DEF confirmYesNo, InitInv
    <3>3. Shown'
      BY <1>1, <3>1, <3>2 DEF Kept, Shown, render
    <3> QED
      BY <1>1, <3>1, <3>3, InvTowards
  <2> QED
    BY <1>8, <2>1, <2>2 DEF confirmYesNo
<1> QED
  BY <1>4, <1>5, <1>6, <1>7, <1>8

(***************************************************************************)
(* The writes.                                                             *)
(***************************************************************************)
LEMMA Rendered ==
  ASSUME NEW input \in Input
  PROVE  /\ render(input) \in Document
         /\ \A n \in Nat : Prefix(render(input), n) \in Document
         /\ Prefix(render(input), 0) = Empty
         /\ Prefix(render(input), Len(Prompts)) = render(input)
<1>1. \A f \in Field : render(input)[f] \in Value \cup {Unset}
  BY DEF render, Input
<1>2. render(input) \in Document
  BY <1>1, Constants DEF render, Document
<1>3. \A n \in Nat : Prefix(render(input), n) \in Document
  BY <1>1, Constants DEF Prefix, Document
<1>4. Prefix(render(input), 0) = Empty
  <2>1. 1..0 = {}
    OBVIOUS
  <2> QED
    BY <2>1 DEF Prefix, Empty
<1>5. \A f \in Field : (\E i \in 1..Len(Prompts) : Prompts[i] = f) <=> f \in Prompted
  BY DEF Prompted
<1>6. Prefix(render(input), Len(Prompts)) = render(input)
  BY <1>5 DEF Prefix, render
<1> QED
  BY <1>2, <1>3, <1>4, <1>6

LEMMA InvTruncate ==
  ASSUME InitInv, Truncate
  PROVE  InitInv'
<1>1. run \in Runs /\ Files /\ TypeOK /\ run.at = "truncate" /\ run.at \in Answered
  BY Typed DEF InitInv, Truncate, Answered
<1>2. CASE Goto("fill") /\ config' = Empty
  <2>1. Kept("fill") /\ run'.diff = run.diff /\ run'.yes = run.yes /\ run'.confirmed = run.confirmed
    BY <1>1, <1>2, GotoKeeps DEF Stage
  <2>2. TypeOK'
    BY <1>1, <1>2, <2>1, Distinct DEF Kept, TypeOK, Runs, Files, Truncate
  <2>3. Behind' /\ GreenIsServable'
    BY <1>1, <2>1 DEF InitInv, Kept, Behind, GreenIsServable
  <2>4. Defaulted'
    BY <1>1, <2>1, DefaultedStays DEF InitInv
  <2>5. Asks'
    <3>1. \A f \in Prompted : Taken(f)'
      BY <1>1, <2>1, TakenStays DEF InitInv, Asks
    <3> QED
      BY <2>1, <3>1 DEF Kept, Asks, Answered
  <2>6. Shown'
    BY <1>1, <2>1 DEF InitInv, Kept, Shown, render
  <2> QED
    BY <2>2, <2>3, <2>4, <2>5, <2>6 DEF InitInv
<1>3. CASE Exit("error") /\ UNCHANGED config
  BY <1>1, <1>3, ExitIs, InvIdle DEF Files, Truncate
<1> QED
  BY <1>2, <1>3 DEF Truncate

\* Past the write, only what is behind a run matters.
LEMMA InvWritten ==
  ASSUME run' \in Runs, Files', run'.at \in {"dev", "reviewer", "unit", "finish"}, Behind'
  PROVE  InitInv'
<1>1. TypeOK'
  BY DEF TypeOK, Runs, Files
<1>2. Defaulted' /\ Asks' /\ Shown' /\ GreenIsServable'
  BY DEF Defaulted, Asks, Shown, GreenIsServable, Answered, Behind
<1> QED
  BY <1>1, <1>2 DEF InitInv

LEMMA InvFill ==
  ASSUME InitInv, Fill
  PROVE  InitInv'
<1>1. run \in Runs /\ Files /\ TypeOK /\ UNCHANGED <<playbook, unit, runs, edits>> /\ run.input \in Input
  BY Typed DEF InitInv, Fill, Runs
<1>2. CASE run' = [Ended EXCEPT !.at = "dev"] /\ config' = render(run.input)
  <2>1. run' \in Runs /\ run'.at = "dev" /\ run'.exit = "none"
    BY <1>1, <1>2, IdleTyped DEF Ended, Runs, Stage
  <2>2. Files'
    BY <1>1, <1>2, Rendered DEF Files
  <2>3. Behind'
    BY <2>1 DEF Behind
  <2> QED
    BY <2>1, <2>2, <2>3, InvWritten
<1>3. CASE Exit("error") /\ \E n \in 0..(Len(Prompts) - 1) : config' = Prefix(render(run.input), n)
  <2>1. config' \in Document
    BY <1>1, <1>3, Rendered, Constants
  <2>2. Files'
    BY <1>1, <2>1 DEF Files
  <2> QED
    BY <1>1, <1>3, <2>2, ExitIs, InvIdle
<1> QED
  BY <1>2, <1>3 DEF Fill

LEMMA InvPlaybooks ==
  ASSUME InitInv, writePlaybooks
  PROVE  InitInv'
<1>1. run \in Runs /\ Files /\ TypeOK /\ UNCHANGED <<config, unit, runs, edits>> /\ run.at \in Role
  BY Typed DEF InitInv, writePlaybooks
<1>2. CASE /\ playbook' = [playbook EXCEPT ![run.at] = "template"]
           /\ Goto(IF run.at = "dev" THEN "reviewer" ELSE IF run.unit THEN "unit" ELSE "finish")
  <2>1. PICK step \in {"reviewer", "unit", "finish"} :
          /\ Goto(step)
          /\ step = IF run.at = "dev" THEN "reviewer" ELSE IF run.unit THEN "unit" ELSE "finish"
    BY <1>2
  <2>2. Kept(step) /\ run'.unit = run.unit
    BY <1>1, <2>1, GotoKeeps DEF Stage
  <2>3. Files'
    BY <1>1, <1>2 DEF Files, Role
  <2>4. run.exit = "none" /\ run.at \in {"dev", "reviewer"}
    BY <1>1 DEF InitInv, Behind, Role
  <2>5. playbook'["dev"] # "none" /\ (run.at = "reviewer" => playbook'["reviewer"] # "none")
    BY <1>1, <1>2, <2>4 DEF InitInv, Behind, Files, Role
  <2>6. step = "finish" => run.at = "reviewer" /\ ~run.unit
    BY <2>1, <2>4
  <2>7. Behind'
    BY <2>1, <2>2, <2>4, <2>5, <2>6 DEF Kept, Behind
  <2> QED
    BY <2>1, <2>2, <2>3, <2>7, InvWritten DEF Kept
<1>3. CASE Exit("error") /\ UNCHANGED playbook
  BY <1>1, <1>3, ExitIs, InvIdle DEF Files
<1> QED
  BY <1>2, <1>3 DEF writePlaybooks

LEMMA InvUnit ==
  ASSUME InitInv, writeSystemdUnit
  PROVE  InitInv'
<1>1. run \in Runs /\ Files /\ TypeOK /\ UNCHANGED <<config, playbook, runs, edits>> /\ run.at = "unit"
  BY Typed DEF InitInv, writeSystemdUnit
<1>2. CASE Goto("finish") /\ unit' = TRUE
  <2>1. Kept("finish") /\ run'.unit = run.unit
    BY <1>1, <1>2, GotoKeeps DEF Stage
  <2>2. Files'
    BY <1>1, <1>2 DEF Files
  <2>3. Behind'
    BY <1>1, <1>2, <2>1 DEF InitInv, Kept, Behind
  <2> QED
    BY <2>1, <2>2, <2>3, InvWritten DEF Kept
<1>3. CASE Exit("error") /\ unit' \in {unit, TRUE}
  <2>1. Files'
    BY <1>1, <1>3 DEF Files
  <2> QED
    BY <1>1, <1>3, <2>1, ExitIs, InvIdle
<1> QED
  BY <1>2, <1>3 DEF writeSystemdUnit

\* A run ends green only over a file that loads.
LEMMA InvFinish ==
  ASSUME InitInv, finishInit
  PROVE  InitInv'
<1>1. /\ run \in Runs /\ Files /\ TypeOK /\ run.at = "finish"
      /\ UNCHANGED <<config, playbook, unit, runs, edits>>
  BY Typed DEF InitInv, finishInit
<1>2. CASE Loads(config) /\ Exit("ok")
  <2>1. /\ run' \in Runs /\ run'.at = "idle" /\ run'.exit = "ok" /\ run'.unit = run.unit
    BY <1>1, <1>2, ExitIs
  <2>2. Loads(config)'
    BY <1>1, <1>2 DEF Loads, Parses
  <2>3. (\A r \in Role : playbook'[r] # "none") /\ (run.unit => unit')
    BY <1>1 DEF InitInv, Behind, Role
  <2>4. GreenIsServable'
    BY <2>1, <2>2, <2>3 DEF GreenIsServable
  <2>5. TypeOK'
    BY <1>1, <2>1 DEF TypeOK, Runs, Files
  <2>6. Behind' /\ Defaulted' /\ Asks' /\ Shown'
    BY <2>1 DEF Behind, Defaulted, Asks, Shown, Answered
  <2> QED
    BY <2>4, <2>5, <2>6 DEF InitInv
<1>3. CASE Exit("error")
  BY <1>1, <1>3, ExitIs, InvIdle DEF Files
<1> QED
  BY <1>2, <1>3 DEF finishInit

(***************************************************************************)
(* The world: an edit disturbs the files a run stands on, and says so.     *)
(***************************************************************************)
LEMMA InvEdit ==
  ASSUME InitInv, Edit
  PROVE  InitInv'
<1>1. run \in Runs /\ Files /\ UNCHANGED <<unit, runs>> /\ edits' \in Nat
  BY Typed DEF InitInv, Edit, Files
<1>2. Kept(run.at) /\ run'.edited = TRUE /\ run'.diff = run.diff /\ run'.unit = run.unit
      /\ run'.yes = run.yes /\ run'.confirmed = run.confirmed
  <2>1. run' = [run EXCEPT !.edited = TRUE]
    BY DEF Edit
  <2>2. run.at \in Stage
    BY <1>1 DEF Runs
  <2>3. run' \in Runs
    BY <1>1, <2>1 DEF Runs
  <2> QED
    BY <1>1, <2>1, <2>2, <2>3 DEF Kept, Runs
<1>3. config' \in Document \cup {Corrupt}
  <2>1. CASE config # Corrupt /\ \E f \in Field, text \in Text : config' = [config EXCEPT ![f] = text]
    <3>1. PICK f \in Field, text \in Text : config' = [config EXCEPT ![f] = text]
      BY <2>1
    <3>2. config \in Document
      BY <1>1, <2>1 DEF Files
    <3> QED
      BY <3>1, <3>2 DEF Document
  <2> QED
    BY <1>1, <2>1 DEF Edit, Files
<1>4. /\ playbook' \in [Role -> {"none", "template", "edited"}]
      /\ \A r \in Role : playbook[r] # "none" => playbook'[r] # "none"
  BY <1>1 DEF Edit, Files
<1>5. TypeOK'
  <2>1. run' \in Runs
    BY <1>2 DEF Kept
  <2>2. Files'
    BY <1>1, <1>3, <1>4 DEF Files
  <2> QED
    BY <2>1, <2>2 DEF TypeOK, Runs, Files
<1>6. Behind'
  <2>1. "dev" \in Role /\ "reviewer" \in Role
    BY DEF Role
  <2> QED
    BY <1>1, <1>2, <1>4, <2>1 DEF InitInv, Kept, Behind
<1>7. GreenIsServable'
  BY <1>2 DEF GreenIsServable
<1>8. Defaulted'
  BY <1>2 DEF InitInv, Defaulted, Kept
<1>9. Asks'
  <2>1. \A f \in Prompted : Taken(f) => Taken(f)'
    BY <1>2, TakenStays
  <2>2. run'.at = "interview" => \A i \in 1..(run'.ask - 1) : Taken(Prompts[i])'
    <3> SUFFICES ASSUME run.at = "interview", NEW i \in 1..(run.ask - 1)
                 PROVE  Taken(Prompts[i])'
      BY <1>2 DEF Kept
    <3>1. Prompts[i] \in Prompted
      BY <1>1, Constants DEF Runs
    <3> QED
      BY <2>1, <3>1 DEF InitInv, Asks
  <2> QED
    BY <1>2, <2>1, <2>2 DEF InitInv, Asks, Kept
<1>10. Shown'
  BY <1>2 DEF InitInv, Kept, Shown, render
<1> QED
  BY <1>5, <1>6, <1>7, <1>8, <1>9, <1>10 DEF InitInv

LEMMA InvNext ==
  ASSUME InitInv, [Next]_vars
  PROVE  InitInv'
<1>1. run \in Runs /\ Files /\ TypeOK
  BY Typed DEF InitInv
<1>2. CASE initCmd
  <2>1. run.at = "idle" /\ UNCHANGED <<config, playbook, unit, edits>> /\ runs' \in Nat
    BY <1>1, <1>2 DEF initCmd, Files
  <2> QED
    BY <1>2, <2>1, InvInteractive, InvNonInteractive, Zenon DEF initCmd
<1>3. CASE Kill
  BY <1>1, <1>3, ExitIs, InvIdle DEF Kill, Files
<1>4. CASE UNCHANGED vars
  BY <1>4 DEF vars, InitInv, TypeOK, Behind, Defaulted, Asks, Taken, Shown, render, GreenIsServable,
              Loads, Parses
<1> QED
  BY <1>2, <1>3, <1>4, InvInterview, InvGates, InvTruncate, InvFill, InvPlaybooks, InvUnit, InvFinish,
     InvEdit DEF Next, Step

(***************************************************************************)
(* What a run knows at each of its steps is so, whatever was found on      *)
(* disk, answered, refused, killed or edited.                              *)
(***************************************************************************)
THEOREM InitIsSound == Spec => []InitInv
<1> QED
  BY InvInit, InvNext, PTL DEF Spec

(***************************************************************************)
(* A run that ended green, with no edit behind its back, left a config     *)
(* that loads, both playbooks, and the unit if it was asked for.           *)
(***************************************************************************)
THEOREM GreenMeansServable == Spec => []GreenIsServable
<1>1. InitInv => GreenIsServable
  BY DEF InitInv
<1> QED
  BY <1>1, InitIsSound, PTL

(***************************************************************************)
(* A field is written with the value typed, else the environment's, else   *)
(* what YAML reads in the file, printed bare: an untouched one keeps its   *)
(* text exactly if that text reads as itself, and its value if that value, *)
(* printed bare, does (init.go 615-678, 1264-1309).                        *)
(***************************************************************************)
THEOREM ReRunsPreserve == Spec => UnchangedFieldsSurvive
<1>1. ASSUME InitInv, Fill, run'.at = "dev", NEW f \in Prompted
      PROVE  config'[f] = Precedence(f)
  <2>1. run.at = "fill" /\ run.at \in Answered /\ TypeOK
    BY <1>1 DEF Fill, InitInv, Answered
  <2>2. config' = render(run.input)
    <3>1. ~Exit("error")
      BY <1>1, <2>1, ExitIs
    <3> QED
      BY <1>1, <3>1 DEF Fill
  <2>3. config'[f] = run.input[f]
    BY <2>2, Constants DEF render
  <2>4. Taken(f) /\ (run.interactive => run.default[f] = IF Supplied(run.env, f) THEN run.env[f]
                                                         ELSE IF run.fresh THEN run.default[f]
                                                         ELSE Scalar[run.before[f]])
    BY <1>1, <2>1 DEF InitInv, Asks, Defaulted
  <2> QED
    BY <2>3, <2>4 DEF Taken, Precedence
<1>2. ASSUME NEW f, config'[f] = Precedence(f), Untouched(f)
      PROVE  Survives(f)
  <2>1. config'[f] = Scalar[run.before[f]]
    BY <1>2 DEF Precedence, Untouched
  <2> QED
    BY <2>1 DEF Survives, Bare
<1>3. InitInv /\ [Next]_vars =>
        [Fill /\ run'.at = "dev" =>
           \A f \in Prompted : config'[f] = Precedence(f) /\ (Untouched(f) => Survives(f))]_vars
  BY <1>1, <1>2
<1> QED
  BY <1>3, InitIsSound, PTL DEF Spec, UnchangedFieldsSurvive

(***************************************************************************)
(* The file changes only after the run was confirmed, or needs no          *)
(* confirmation, and to what the diff showed or a prefix of it.            *)
(***************************************************************************)
THEOREM TheDiffIsTheWrite == Spec => WritesWhatItShowed
<1> DEFINE Honest == /\ run.yes \/ run.confirmed
                     /\ \E n \in 0..Len(Prompts) : config' = Prefix(run.diff[2], n)
                     /\ ~run.edited /\ run.at = "truncate" => config = run.diff[1]
<1>1. ASSUME InitInv, Step, config' # config
      PROVE  Honest
  <2>1. CASE Truncate
    <3>1. run.at = "truncate" /\ config' = Empty /\ run.input \in Input
      BY <1>1, <2>1, Typed DEF Truncate, InitInv, Runs
    <3>2. run.diff[2] = render(run.input)
      <4>1. run.diff = <<run.diff[1], render(run.input)>>
        BY <1>1, <3>1 DEF InitInv, Shown
      <4> QED
        BY <4>1
    <3>3. 0 \in 0..Len(Prompts) /\ config' = Prefix(run.diff[2], 0)
      BY <3>1, <3>2, Rendered, Constants
    <3>4. (run.yes \/ run.confirmed) /\ (~run.edited => config = run.diff[1])
      BY <1>1, <3>1 DEF InitInv, Shown
    <3> QED
      BY <3>3, <3>4
  <2>2. CASE Fill
    <3>1. run.at = "fill" /\ run.input \in Input
      BY <1>1, <2>2, Typed DEF Fill, InitInv, Runs
    <3>2. run.diff[2] = render(run.input)
      <4>1. run.diff = <<run.diff[1], render(run.input)>>
        BY <1>1, <3>1 DEF InitInv, Shown
      <4> QED
        BY <4>1
    <3>3. \E n \in 0..Len(Prompts) : config' = Prefix(render(run.input), n)
      BY <2>2, <3>1, Rendered, Constants DEF Fill
    <3>4. run.yes \/ run.confirmed
      BY <1>1, <3>1 DEF InitInv, Shown
    <3> QED
      BY <3>1, <3>2, <3>3, <3>4
  <2> QED
    BY <1>1, <2>1, <2>2 DEF Step, initCmd, runInteractiveInterview, confirmUnit, validate,
       validateADOBeforeWrite, writeConfig, confirmYesNo, writePlaybooks, writeSystemdUnit, finishInit
<1>2. InitInv /\ [Next]_vars => [Step /\ config' # config => Honest]_vars
  BY <1>1
<1> QED
  BY <1>2, InitIsSound, PTL DEF Spec, WritesWhatItShowed
=============================================================================
