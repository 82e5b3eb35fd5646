-------------------------- MODULE ServeInvariants --------------------------
(***************************************************************************)
(* The inductive strengthenings behind the theorems of ServeProofs: what   *)
(* the label a goroutine stands at says of the state around it.            *)
(***************************************************************************)
EXTENDS ServeProperties

\* TypeOK alone is not inductive: that no counter falls below zero needs the
\* count of the goroutines that hold a slot.
SlotsInv == TypeOK /\ IsFiniteSet(Alive) /\ SlotsAccounted

\* The labels inside runTask and its first deferred call.
RunLabel == Label \ {"idle", "exit"}

\* From the claim to the end of verification: the task is in-progress.
ClaimedLabel ==
  {"spawn", "agent", "running", "record", "result",
   "openpr", "prrow", "verify", "gaterow", "errorrow", "proberow"}

\* From the run's outcome on, the event is one that leaves in-progress.
ScoredLabel == ClaimedLabel \ {"spawn", "agent", "running"}
SetupEvent  == {"dispatch", "claim_ok", "setup_failed"}

(***************************************************************************)
(* The state a goroutine carries in its local variable and the state column*)
(* of its task agree, except across the two writes of one transition.      *)
(***************************************************************************)
Control(t) ==
  LET w == worker[t] IN
  /\ w.pc \in {"dispatch", "provision"} => tasks[t] = "queued" /\ w.state = "queued"
  /\ w.pc \in ClaimedLabel => tasks[t] = "in-progress" /\ w.state = "in-progress"
  /\ w.pc \in ScoredLabel => w.event \notin SetupEvent
  /\ w.pc \in {"upsert", "transition"} =>
       /\ w.event # "dispatch"
       /\ w.state = IF w.event \in SetupEvent THEN "queued" ELSE "in-progress"
  /\ w.pc = "upsert" => tasks[t] = w.state
  /\ w.pc = "transition" =>
       HasEdge(w.state, w.event) /\ tasks[t] = NextState(w.state, w.event)
  /\ w.pc = "gaterow" /\ w.err = TRUE => w.event = "result_invalid"
  /\ w.pc = "errorrow" => w.event = "result_invalid"

ControlInv == \A t \in Task : Control(t)

\* The goroutine is about to write, or is writing, the in-review transition.
Concluding(t) ==
  worker[t].pc \in {"upsert", "transition"} /\ worker[t].event = "result_ok"

\* The goroutine has passed the step that leads to the label `from`, and has
\* not ended otherwise; `labels` are the labels from there on.
Past(t, labels) == worker[t].pc \in labels \/ Concluding(t)

AfterSpawnRow == ClaimedLabel \ {"spawn"}
AfterRecord   == ScoredLabel \ {"record"}
AfterResult   == AfterRecord \ {"result"}
AfterOpenPR   == AfterResult \ {"openpr"}
AfterPRRow    == AfterOpenPR \ {"prrow"}

\* The agent has claimed result_ok and verification has not looked yet.
Delivered(t) ==
  \/ worker[t].pc \in {"record", "result"} /\ worker[t].event = "result_ok"
  \/ worker[t].pc \in {"openpr", "prrow", "verify"}

\* The verifier has said result_ok.
Passed(t) ==
  \/ Concluding(t) \/ worker[t].pc = "proberow"
  \/ worker[t].pc = "gaterow" /\ worker[t].event = "result_ok"

(***************************************************************************)
(* Every piece of evidence ReviewCertified asks for is there from the step *)
(* that produces it on, for as long as the goroutine may still conclude.   *)
(***************************************************************************)
Evidence(t) ==
  /\ Delivered(t) => work[t] # "absent"
  /\ Past(t, AfterSpawnRow) => Journaled(t, "run_spawn", DevUser)
  /\ Past(t, AfterRecord) => runs[t] > 0
  /\ Past(t, AfterResult) => results[t] > 0
  /\ Past(t, AfterOpenPR) => prs[t] > 0
  /\ Past(t, AfterPRRow) => Journaled(t, "pr_opened", DevUser)
  /\ Passed(t) => /\ work[t] = "clean" \/ (work[t] = "red" /\ NumGates = 0)
                  /\ Reviewer # DevUser
  /\ Passed(t) /\ worker[t].pc # "gaterow" /\ NumGates > 0 =>
       Journaled(t, "gate_rerun", Reviewer)
  /\ Concluding(t) => Journaled(t, "probe_pr_exists", Reviewer)

EvidenceInv == \A t \in Task : Evidence(t)

\* What ServeProofs proves by induction.
ReviewInv == ControlInv /\ EvidenceInv /\ ReviewCertified

----------------------------------------------------------------------------
(* The record of a contract, where LoadTask answers truthfully.            *)

\* What is polled and unknown to the store is only listed while a cycle
\* loads and launches.
PendingInv == main \notin {"load", "launch"} => pending = {}

\* A contract on its way to a first write is unknown to the store: LoadTask
\* said so in this cycle, and nothing but its own goroutine writes its row.
Undispatched(t) ==
  ~ctxDone /\ (t \in pending \/ worker[t].pc = "persist") => tasks[t] = "start"

\* Of a contract that is unknown to the store there is no trace anywhere.
Pristine(t) ==
  tasks[t] = "start" =>
    /\ worker[t].pc \in {"idle", "persist", "release", "exit"}
    /\ journal[t] = <<>>
    /\ agents[t] = 0 /\ runs[t] = 0 /\ prs[t] = 0

\* The goroutine has not come to the step that starts the agent.
Unstarted(t) ==
  \/ worker[t].pc \in {"dispatch", "provision", "spawn", "agent"}
  \/ worker[t].pc \in {"upsert", "transition"} /\ worker[t].event \in SetupEvent

(***************************************************************************)
(* Every counter is zero until the step that advances it, and the dispatch *)
(* row is the first of its journal.                                        *)
(***************************************************************************)
Counted(t) ==
  /\ agents[t] <= 1 /\ runs[t] <= 1 /\ prs[t] <= 1
  /\ Unstarted(t) => agents[t] = 0
  /\ Unstarted(t) \/ worker[t].pc \in {"running", "record"} => runs[t] = 0
  /\ Unstarted(t) \/ worker[t].pc \in {"running", "record", "result", "openpr"} => prs[t] = 0
  /\ worker[t].pc = "dispatch" => journal[t] = <<>>
  /\ \A i \in DOMAIN journal[t] : journal[t][i].act = "dispatch" => i = 1

\* The worktree is there from the claim on, and the claim is journaled
\* before anything is run on it.
Accountable(t) ==
  LET w == worker[t] IN
  /\ w.pc \in ClaimedLabel \/ (w.pc \in {"upsert", "transition"} /\ w.event = "claim_ok") =>
       worktree[t]
  /\ w.pc \in ClaimedLabel => Journaled(t, "claim_ok", SystemOrchestrator)
  /\ agents[t] > 0 =>
       /\ worktree[t]
       /\ Journaled(t, "claim_ok", SystemOrchestrator)
       /\ Journaled(t, "run_spawn", DevUser)
       /\ tasks[t] \notin {"start", "queued"}

\* An agent in flight has a goroutine that waits for it, or none that will do
\* anything for its task: the one that waited is cancelled and gives up, and
\* a later one finds the task dispatched.
Watched(t) ==
  t \in inFlight =>
    /\ agents[t] > 0 /\ tasks[t] = "in-progress" /\ runs[t] = 0 /\ prs[t] = 0
    /\ worker[t].pc \in {"idle", "persist", "running", "record", "release", "exit"}
    /\ worker[t].pc = "record" => ctxDone

\* The transition rows of one journal, and the state the last of them names.
Moves(rows) == {i \in DOMAIN rows : rows[i].to # None}

IsLast(i, moves) == i \in moves /\ \A j \in moves : j <= i
HasLast(rows) == Moves(rows) = {} \/ \E i \in Moves(rows) : IsLast(i, Moves(rows))

LastTo(rows) ==
  IF Moves(rows) = {} THEN "start"
  ELSE rows[CHOOSE i \in Moves(rows) : \A j \in Moves(rows) : j <= i].to

\* JournalReplays of one journal.
Replays(rows) ==
  \A i \in Moves(rows) :
    LET prior == {j \in Moves(rows) : j < i}
    IN  /\ Edge(rows[i].from, rows[i].act, rows[i].to) \in table
        /\ IF prior = {} THEN rows[i].from = "start"
           ELSE \E j \in prior : /\ rows[j].to = rows[i].from
                                 /\ \A k \in prior : k <= j

(***************************************************************************)
(* What the journal says is the state the goroutine carries, from its      *)
(* first row until the goroutine gives up.                                 *)
(***************************************************************************)
Replayable(t) ==
  /\ HasLast(journal[t]) /\ Replays(journal[t])
  /\ worker[t].event \notin HumanEvent
  /\ worker[t].pc \in ClaimedLabel \cup {"provision", "upsert", "transition"} =>
       LastTo(journal[t]) = worker[t].state

Recorded(t) ==
  /\ Undispatched(t) /\ Pristine(t) /\ Counted(t)
  /\ Accountable(t) /\ Watched(t) /\ Replayable(t)

RecordInv == PendingInv /\ \A t \in Task : Recorded(t)

\* A hold comment is posted after the write it speaks of, where no write fails
\* but under a cancelled context (which posts none).
Notified(t) ==
  /\ worker[t].pc = "hold" /\ ~ctxDone => tasks[t] = "needs-human"
  /\ held[t] => tasks[t] = "needs-human"

NotifiedInv == \A t \in Task : Notified(t)
=============================================================================
