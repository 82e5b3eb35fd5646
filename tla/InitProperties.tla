--------------------------- MODULE InitProperties ---------------------------
(***************************************************************************)
(* What an operator of `mandat init` relies on.                            *)
(***************************************************************************)
EXTENDS InitCommand

(***************************************************************************)
(* The value an answered field is written with: the one the operator typed *)
(* (or passed), else the environment's, else, in an interview, the one     *)
(* discovery offered or YAML reads in the file (AC-13.10, AC-13.11); a     *)
(* file that does not parse, or names neither an org nor a repo, offers    *)
(* none.  It is printed bare.  So a field the operator did not touch has   *)
(* the text it had if, and only if, that text reads as itself (an omitted  *)
(* field stays omitted), and the value it had if that value, printed bare, *)
(* reads as itself.  Quotes do not survive, and a value with a " #" in it  *)
(* is cut by the next re-run: AC-13.11 and init.go 1261-1262 promise the   *)
(* text byte for byte.                                                     *)
(***************************************************************************)
Bare(text) == Scalar[text] = text

Untouched(f) ==
  run.interactive /\ ~run.fresh /\ run.typed[f] = Unset /\ ~Supplied(run.env, f)

Precedence(f) ==
  IF run.typed[f] # Unset THEN run.typed[f]
  ELSE IF run.interactive
    THEN IF Supplied(run.env, f) THEN run.env[f]
         ELSE IF run.fresh THEN run.default[f]
         ELSE Scalar[run.before[f]]
    ELSE run.env[f]

Survives(f) ==
  LET text == run.before[f] IN
  /\ config'[f] = text <=> Bare(text)
  /\ Bare(Scalar[text]) => Scalar[config'[f]] = Scalar[text]

UnchangedFieldsSurvive ==
  [][Fill /\ run'.at = "dev" =>
       \A f \in Prompted : config'[f] = Precedence(f) /\ (Untouched(f) => Survives(f))]_vars

(***************************************************************************)
(* The file only changes, by a run, after the run was confirmed (or        *)
(* started so that it needs no confirmation), and to the document the diff *)
(* showed, or a prefix of it; a run that refused, was declined or was      *)
(* interrupted before that leaves the file alone.  What the diff showed as *)
(* removed is what the write removes, unless the file was edited in        *)
(* between (AC-13.1, AC-13.9, AC-13.12).                                   *)
(***************************************************************************)
WritesWhatItShowed ==
  [][Step /\ config' # config =>
       /\ run.yes \/ run.confirmed
       /\ \E n \in 0..Len(Prompts) : config' = Prefix(run.diff[2], n)
       /\ ~run.edited /\ run.at = "truncate" => config = run.diff[1]]_vars

(***************************************************************************)
(* A run that ends green leaves an installation serve can start from: a    *)
(* config.yaml that loads, both playbooks, and the unit if it was asked    *)
(* for, whatever earlier runs left half written (AC-13.7).                 *)
(***************************************************************************)
GreenIsServable ==
  run.exit = "ok" /\ ~run.edited =>
    /\ Loads(config)
    /\ \A r \in Role : playbook[r] # "none"
    /\ run.unit => unit

----------------------------------------------------------------------------
(* Why they hold: what a run knows at each of its steps.  The proofs are   *)
(* in InitProofs.                                                          *)

Stage == {"idle", "interview", "unit?", "validate", "probe", "diff", "confirm", "truncate",
          "fill", "dev", "reviewer", "unit", "finish"}

\* The steps after the interview, up to the write.
Answered == {"unit?", "validate", "probe", "diff", "confirm", "truncate", "fill"}

\* Every variable ranges over its domain.
TypeOK ==
  /\ config \in Document \cup {Corrupt}
  /\ playbook \in [Role -> {"none", "template", "edited"}] /\ unit \in BOOLEAN
  /\ run \in [at : Stage, ask : 1..Len(Prompts), fresh : BOOLEAN, default : Input, input : Input,
              typed : Input, env : Input, closed : BOOLEAN, interactive : BOOLEAN, yes : BOOLEAN,
              unit : BOOLEAN, before : Document, diff : Seq(Document \cup {Corrupt}),
              confirmed : BOOLEAN, edited : BOOLEAN,
              exit : {"none", "ok", "error", "refused", "declined", "killed"}]
  /\ runs \in Nat /\ edits \in Nat

\* What a run has behind it is on disk, and it has not exited yet.
Behind ==
  /\ run.at # "idle" => run.exit = "none"
  /\ run.at \in {"reviewer", "unit", "finish"} => playbook["dev"] # "none"
  /\ run.at \in {"unit", "finish"} => playbook["reviewer"] # "none"
  /\ run.at = "finish" /\ run.unit => unit

\* A default is the environment's, or what the run read in the file.
Defaulted ==
  run.at \in Answered \cup {"interview"} /\ run.interactive =>
    \A f \in Prompted : run.default[f] = IF Supplied(run.env, f) THEN run.env[f]
                                         ELSE IF run.fresh THEN run.default[f]
                                         ELSE Scalar[run.before[f]]

\* A field that has been asked has the answer, or the default; flags have
\* the environment under them.
Taken(f) == run.input[f] = IF run.typed[f] # Unset THEN run.typed[f]
                           ELSE IF run.interactive THEN run.default[f] ELSE run.env[f]

Asks ==
  /\ run.at = "interview" => run.interactive /\ \A i \in 1..(run.ask - 1) : Taken(Prompts[i])
  /\ run.at \in Answered => \A f \in Prompted : Taken(f)

\* The diff is of the file and the document the run goes on to write.
Shown ==
  /\ run.at \in {"confirm", "truncate", "fill"} =>
       run.diff = <<run.diff[1], render(run.input)>>
  /\ run.at \in {"confirm", "truncate"} /\ ~run.edited => run.diff[1] = config
  /\ run.at \in {"truncate", "fill"} => run.yes \/ run.confirmed

InitInv == TypeOK /\ Behind /\ Defaulted /\ Asks /\ Shown /\ GreenIsServable
=============================================================================
