---------------------------- MODULE InitCommand ----------------------------
(***************************************************************************)
(* `mandat init`: the runs an operator makes, one after the other, over    *)
(* one config.yaml that is also edited by hand.  A run reads the file back *)
(* for its defaults, lets the environment override them, interviews (or    *)
(* takes flags), validates, probes Azure DevOps, shows a diff, asks, then  *)
(* truncates and fills the file, writes the playbooks and the unit, and    *)
(* loads what it wrote.  It may be killed, or the disk may fill, between   *)
(* any two of these steps (src/cmd/mandat/init.go).                        *)
(*                                                                         *)
(* An operator gives values: "bad" is one of the field's type that a check *)
(* or another refuses.  The file holds texts: a value is printed as it is, *)
(* never quoted, and comes back as what YAML reads in the text, which may  *)
(* be another value, none, or a syntax error of the whole file.            *)
(***************************************************************************)
EXTENDS Naturals, Sequences

CONSTANTS
  Value,           \* the values a field can have
  Text,            \* what can stand behind its key in the file, values printed bare included
  Scalar,          \* what YAML reads in a text: a value, nothing, or a syntax error
  Prompts,         \* the prompted fields, in the order of the interview and of the file
  Optional,        \* prompted fields the file may omit: config.Load defaults them
  Numeric,         \* prompted fields that are numbers: an unset one reads as 0
  Anchor,          \* prompted fields a document needs one of to seed a re-run
  PromptChecks, ValidateChecks, LoadChecks,
                   \* fields whose "bad" value the prompt, init's validate, config.Load refuse
  Unprompted,      \* fields of the schema that init has no input for
  Choice,          \* field -> the values it is given, by the operator or by hand
  Discoverable,    \* prompted fields the az session may reveal on a fresh install
  Flags, Env,      \* the flags and the environments runs are started with
  Found,           \* what config.yaml may be before the first run
  MaxRuns, MaxEdits

Unset == "unset"
Syntax == "syntax"
Prompted == {Prompts[i] : i \in 1..Len(Prompts)}
Field == Prompted \cup Unprompted
Input == [Prompted -> Value \cup {Unset}]
Document == [Field -> Text \cup {Unset}]
Nothing == [f \in Prompted |-> Unset]
Empty == [f \in Field |-> Unset]
Corrupt == [f \in Field |-> "corrupt"]          \* a file that is not YAML
Required == Prompted \ Optional
Role == {"dev", "reviewer"}

ASSUME TextsAssumption ==
  /\ {"a", "bad"} \subseteq Value /\ Value \subseteq Text
  /\ Text \cap {Unset, Syntax, "none", "corrupt"} = {}
  /\ Scalar \in [Text \cup {Unset} -> Value \cup {Unset, Syntax}] /\ Scalar[Unset] = Unset
ASSUME PromptsAssumption == Prompts \in Seq(STRING) /\ Len(Prompts) > 0
ASSUME ClassesAssumption ==
  /\ Optional \cup Numeric \cup Anchor \subseteq Prompted /\ Discoverable \subseteq Required
  /\ PromptChecks \cup ValidateChecks \cup LoadChecks \subseteq Prompted
  /\ Prompted \cap Unprompted = {}
ASSUME ChoiceAssumption == Choice \in [Field -> SUBSET Value]
ASSUME InputsAssumption == Flags \cup Env \subseteq Input /\ Found \subseteq Document \cup {Corrupt}

VARIABLES
  config,     \* config.yaml: a document (absent and empty read the same), or Corrupt
  playbook,   \* role -> "none", "template" or "edited"
  unit,       \* the systemd user unit is on disk
  run,        \* the run of init
  runs, edits \* how many runs were started and edits made, up to their bounds

vars == <<config, playbook, unit, run, runs, edits>>

Idle ==
  [at |-> "idle", ask |-> 1, fresh |-> FALSE, default |-> Nothing, input |-> Nothing,
   typed |-> Nothing, env |-> Nothing, closed |-> FALSE, interactive |-> FALSE, yes |-> FALSE,
   unit |-> FALSE, before |-> Empty, diff |-> <<>>, confirmed |-> FALSE, edited |-> FALSE,
   exit |-> "none"]

\* What the rest of the program looks at once the file is written, and after the run.
Ended == [Idle EXCEPT !.unit = run.unit, !.edited = run.edited]

Exit(code) == run' = [Ended EXCEPT !.exit = code]
Goto(step) == run' = [run EXCEPT !.at = step]

(***************************************************************************)
(* Defaults: the file read raw, then the environment over it.              *)
(***************************************************************************)
None == [f \in Prompted |-> "none"]              \* the nil prior of a fresh install

Parses(document) == document # Corrupt /\ \A f \in Field : Scalar[document[f]] # Syntax
HasContent(document) == Parses(document) /\ \E f \in Anchor : Scalar[document[f]] # Unset

\* Mutant of reconstructPriorInput: the file is read through config.Load, which fills in the
\* defaults of what the file omits.
reconstructLoaded(document) ==
  IF ~HasContent(document) THEN None
  ELSE [f \in Prompted |->
          IF f \in Optional /\ document[f] = Unset THEN "a" ELSE Scalar[document[f]]]

reconstructPriorInput(document) ==
  IF ~HasContent(document) THEN None ELSE [f \in Prompted |-> Scalar[document[f]]]

\* A number that is not positive does not override the file.
Supplied(env, f) == env[f] # Unset /\ ~(f \in Numeric /\ env[f] = "bad")

mergeEnvOverPrior(prior, env) ==
  IF prior = None /\ \A f \in Prompted : ~Supplied(env, f)
    THEN None
    ELSE [f \in Prompted |-> IF Supplied(env, f) THEN env[f]
                             ELSE IF prior = None THEN Unset ELSE prior[f]]

\* What the az session, the Entra registry and the discovery chain reveal: any part of it.
resolvePrefill ==
  {[f \in Prompted |-> IF f \in known THEN "a" ELSE Unset] : known \in SUBSET Discoverable}

Interactive(env, yes) ==
  LET stored == reconstructPriorInput(config)
      prior == mergeEnvOverPrior(stored, env)
  IN  \E default \in (IF prior = None THEN resolvePrefill ELSE {prior}) :
        run' = [Idle EXCEPT !.at = "interview", !.interactive = TRUE, !.yes = yes, !.env = env,
                            !.fresh = prior = None, !.default = default,
                            !.before = IF stored = None THEN Empty ELSE config]

mergeEnvIntoUnset(flags, env) ==
  [f \in Prompted |-> IF flags[f] # Unset THEN flags[f] ELSE env[f]]

NonInteractive(flags, env) ==
  run' = [Idle EXCEPT !.at = "validate", !.yes = TRUE, !.env = env, !.typed = flags,
                      !.input = mergeEnvIntoUnset(flags, env)]

initCmd ==
  /\ run.at = "idle" /\ runs < MaxRuns
  /\ runs' = runs + 1
  /\ \E env \in Env :
       \/ \E yes \in BOOLEAN : Interactive(env, yes)
       \/ \E flags \in Flags : NonInteractive(flags, env)
  /\ UNCHANGED <<config, playbook, unit, edits>>

(***************************************************************************)
(* The interview: one prompt after the other.  A blank line (or the end of *)
(* input) keeps the default without checking it; a required field without  *)
(* one is asked again, and is an error once the input has ended; so is a   *)
(* value its prompt refuses.  A number's default is never empty on a       *)
(* re-run: an unset one is offered as 0.                                   *)
(***************************************************************************)
Asked == Prompts[run.ask]
HasDefault(f) == f \in Optional \/ run.default[f] # Unset \/ (f \in Numeric /\ ~run.fresh)

Take(value, typed, closed) ==
  run' = [run EXCEPT !.input[Asked] = value, !.typed[Asked] = typed, !.closed = closed,
                     !.ask = IF @ = Len(Prompts) THEN 1 ELSE @ + 1,
                     !.at = IF run.ask = Len(Prompts) THEN "unit?" ELSE "interview"]

Type(value) ==
  /\ ~run.closed
  /\ ~(Asked \in PromptChecks /\ value = "bad")
  /\ Take(value, value, FALSE)

Keep(closed) ==
  /\ run.closed => closed
  /\ HasDefault(Asked)
  /\ Take(run.default[Asked], Unset, closed)

InputEnds == ~HasDefault(Asked) /\ Exit("error")

runInteractiveInterview ==
  /\ run.at = "interview"
  /\ \/ \E value \in Choice[Asked] : Type(value)
     \/ \E closed \in BOOLEAN : Keep(closed)
     \/ InputEnds
  /\ UNCHANGED <<config, playbook, unit, runs, edits>>

confirmUnit ==
  /\ run.at = "unit?"
  /\ \E yes \in BOOLEAN :
       /\ yes => ~run.closed
       /\ run' = [run EXCEPT !.unit = yes, !.at = "validate"]
  /\ UNCHANGED <<config, playbook, unit, runs, edits>>

(***************************************************************************)
(* The gates before the write.                                             *)
(***************************************************************************)
Valid(input) ==
  /\ \A f \in Required : input[f] # Unset
  /\ \A f \in ValidateChecks : input[f] # "bad"

validate ==
  /\ run.at = "validate"
  /\ IF ~Valid(run.input) THEN Exit("error")
     ELSE Goto(IF run.interactive THEN "probe" ELSE "diff")
  /\ UNCHANGED <<config, playbook, unit, runs, edits>>

\* No token, or one that reaches the org, lets the run go on; one that does not refuses it.
validateADOBeforeWrite ==
  /\ run.at = "probe"
  /\ Goto("diff") \/ Exit("refused")
  /\ UNCHANGED <<config, playbook, unit, runs, edits>>

\* Every value bare (%s): the text of a value is the value.
render(input) == [f \in Field |-> IF f \in Prompted THEN input[f] ELSE Unset]

\* Mutant of writeConfig: the diff is against what the file was read back as.
writeConfigOverPrior ==
  /\ run.at = "diff"
  /\ \/ run' = [run EXCEPT !.diff = <<render(run.default), render(run.input)>>,
                           !.at = IF run.yes THEN "truncate" ELSE "confirm"]
     \/ Exit("error")
  /\ UNCHANGED <<config, playbook, unit, runs, edits>>

writeConfig ==
  /\ run.at = "diff"
  /\ \/ run' = [run EXCEPT !.diff = <<config, render(run.input)>>,
                           !.at = IF run.yes THEN "truncate" ELSE "confirm"]
     \/ Exit("error")                                   \* the file cannot be read
  /\ UNCHANGED <<config, playbook, unit, runs, edits>>

confirmYesNo ==
  /\ run.at = "confirm"
  /\ \/ ~run.closed /\ run' = [run EXCEPT !.at = "truncate", !.confirmed = TRUE]
     \/ Exit("declined")
  /\ UNCHANGED <<config, playbook, unit, runs, edits>>

(***************************************************************************)
(* The writes.  os.WriteFile truncates the file before it fills it; a disk *)
(* that fills up leaves a prefix of the document.                          *)
(***************************************************************************)
Truncate ==
  /\ run.at = "truncate"
  /\ \/ Goto("fill") /\ config' = Empty
     \/ Exit("error") /\ UNCHANGED config
  /\ UNCHANGED <<playbook, unit, runs, edits>>

Prefix(document, n) ==
  [f \in Field |-> IF \E i \in 1..n : Prompts[i] = f THEN document[f] ELSE Unset]

Fill ==
  /\ run.at = "fill"
  /\ \/ run' = [Ended EXCEPT !.at = "dev"] /\ config' = render(run.input)
     \/ Exit("error") /\ \E n \in 0..(Len(Prompts) - 1) : config' = Prefix(render(run.input), n)
  /\ UNCHANGED <<playbook, unit, runs, edits>>

writePlaybooks ==
  /\ run.at \in Role
  /\ \/ /\ playbook' = [playbook EXCEPT ![run.at] = "template"]
        /\ Goto(IF run.at = "dev" THEN "reviewer" ELSE IF run.unit THEN "unit" ELSE "finish")
     \/ Exit("error") /\ UNCHANGED playbook
  /\ UNCHANGED <<config, unit, runs, edits>>

writeSystemdUnit ==
  /\ run.at = "unit"
  /\ \/ Goto("finish") /\ unit' = TRUE
     \/ Exit("error") /\ unit' \in {unit, TRUE}         \* it may be written, then not chowned
  /\ UNCHANGED <<config, playbook, runs, edits>>

(***************************************************************************)
(* The closing preflight: config.Load, then doctor's checks, of which a    *)
(* required one may fail.                                                  *)
(***************************************************************************)
Loads(document) ==
  /\ Parses(document)
  /\ \A f \in Required : Scalar[document[f]] # Unset
  /\ \A f \in LoadChecks : Scalar[document[f]] # "bad"

\* Mutant of finishInit: the preflight runs without loading what was written.
finishUnloaded ==
  /\ run.at = "finish"
  /\ Exit("ok") \/ Exit("error")
  /\ UNCHANGED <<config, playbook, unit, runs, edits>>

finishInit ==
  /\ run.at = "finish"
  /\ \/ Loads(config) /\ Exit("ok")
     \/ Exit("error")
  /\ UNCHANGED <<config, playbook, unit, runs, edits>>

(***************************************************************************)
(* The world: the run is killed; the files are edited by hand.             *)
(***************************************************************************)
Kill ==
  /\ run.at # "idle"
  /\ Exit("killed")
  /\ UNCHANGED <<config, playbook, unit, runs, edits>>

Edit ==
  /\ edits < MaxEdits
  /\ edits' = edits + 1
  /\ run' = [run EXCEPT !.edited = TRUE]
  /\ \/ /\ UNCHANGED playbook
        /\ \/ config # Corrupt /\ \E f \in Field, text \in Text :
                Scalar[text] \in Choice[f] /\ config' = [config EXCEPT ![f] = text]
           \/ config' = Corrupt
     \/ /\ UNCHANGED config
        /\ \E r \in Role : playbook[r] # "none" /\ playbook' = [playbook EXCEPT ![r] = "edited"]
  /\ UNCHANGED <<unit, runs>>

Init ==
  /\ config \in Found
  /\ playbook = [r \in Role |-> "none"] /\ unit = FALSE
  /\ run = Idle /\ runs = 0 /\ edits = 0

\* The steps of the run itself, and the write among them.
Step ==
  \/ initCmd \/ runInteractiveInterview \/ confirmUnit \/ validate \/ validateADOBeforeWrite
  \/ writeConfig \/ confirmYesNo \/ Truncate \/ Fill \/ writePlaybooks \/ writeSystemdUnit
  \/ finishInit

Next == Step \/ Kill \/ Edit

Spec == Init /\ [][Next]_vars
=============================================================================
