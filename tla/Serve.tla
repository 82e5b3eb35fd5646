------------------------------- MODULE Serve -------------------------------
(***************************************************************************)
(* cmd/mandat/serve.go: the poll/dispatch daemon.  One goroutine polls the *)
(* tracker, filters what the store already knows and launches a goroutine  *)
(* per pending contract behind a semaphore; each of those drives one task  *)
(* through provision, claim, run, PR and verification.  Every store write, *)
(* every external call and every semaphore operation is a step of its own, *)
(* so that other goroutines, a failed write, a SIGTERM or a crash can fall *)
(* between any two of them.                                                *)
(*                                                                         *)
(* State that survives a restart: the tasks, journal, runs and results     *)
(* tables, and the world outside: worktrees, agent processes, PRs and the  *)
(* hold comment (the other tracker feedback is best-effort too, and read   *)
(* back by nothing).  State that does not: the goroutines, the semaphore,  *)
(* the wait group and the lists of one dispatch cycle.                     *)
(***************************************************************************)
EXTENDS Orchestrator, Verify, FiniteSets

CONSTANTS
  Task,              \* contracts the tracker can hold, by their stable id
  NumGates,          \* gate commands configured for the repo
  PoolSize,          \* runner.pool_size
  MaxUSDPerRun,      \* budget.max_usd_per_run
  MaxUSDInFlight,    \* budget.max_usd_in_flight, 0 when not configured
  MaxBudgetUSD,      \* the --max-budget-usd flag of mandat serve
  Once,              \* the --once flag
  DevUser,           \* the Dev agent user: assignee, writer, PR creator
  Reviewer,          \* the identity the PR probe acts as
  Faults,            \* the faults this instance may meet
  MaxDispatch        \* bound on the dispatch rows of one task

FaultKind == {"load", "store", "forge", "setup", "crash", "sigterm", "unassign"}

ASSUME ServeAssumption ==
  /\ NumGates \in Nat
  /\ PoolSize \in Nat
  /\ MaxUSDPerRun \in Nat \ {0}
  /\ MaxUSDInFlight \in Nat
  /\ MaxUSDInFlight = 0 \/ MaxUSDInFlight >= MaxUSDPerRun
  /\ MaxBudgetUSD \in Nat
  /\ Once \in BOOLEAN
  /\ DevUser \notin {"nobody", "another principal"}
  /\ Faults \subseteq FaultKind
  /\ MaxDispatch \in Nat

VARIABLES
  \* the store
  tasks,        \* tasks.state, "start" while the row does not exist
  journal,      \* the journal rows of each task, in seq order
  runs,         \* number of rows in runs
  results,      \* number of rows in results
  \* the world
  assigned,     \* work items a poll returns
  worktree,     \* the task's branch and worktree exist
  agents,       \* agent processes ever started
  inFlight,     \* tasks whose agent process is alive
  work,         \* what the agent left in the worktree
  prs,          \* PRs the Dev agent user has opened for the task's branch
  held,         \* the hold comment reached the work item
  \* the process
  main,         \* where dispatchCycle / runDispatchLoop stands
  contracts,    \* polled and not yet looked up
  pending,      \* not yet launched
  sem,          \* tokens held in the semaphore channel
  wg,           \* the wait group's counter
  worker,       \* the goroutine of each task
  ctxDone       \* the signal context is cancelled

store == <<tasks, journal, runs, results>>
world == <<assigned, worktree, agents, inFlight, work, prs, held>>
loop  == <<main, contracts, pending, ctxDone>>
vars  == <<store, world, loop, sem, wg, worker>>

----------------------------------------------------------------------------
(* Domains.                                                                *)

SystemOrchestrator == "system:orchestrator"
None == "none"

\* The first check the worktree would fail; "clean" fails none.
Work == {"absent", "clean", "orphan", "escape", "red"}

Label == {"idle", "persist", "dispatch", "provision", "upsert", "transition",
          "spawn", "agent", "running", "record", "result", "openpr",
          "prrow", "verify", "gaterow", "errorrow", "proberow", "hold",
          "release", "exit"}

Worker == [pc : Label, state : State, event : Event, err : BOOLEAN]
NoWorker == [pc |-> "idle", state |-> "start", event |-> "dispatch", err |-> FALSE]

Identity == {SystemOrchestrator, DevUser, Reviewer}
Act == Event \cup {"run_spawn", "pr_opened", "gate_rerun", "verify_error", "probe_pr_exists"}
Row == [act : Act, by : Identity, from : State \cup {None}, to : State \cup {None}]

ActRow(act, by) == [act |-> act, by |-> by, from |-> None, to |-> None]
TransitionRow(event, from, to) ==
  [act |-> event, by |-> SystemOrchestrator, from |-> from, to |-> to]

(* dispatchLimit: the pool size, reduced by an explicit in-flight ceiling, *)
(* and never below one.                                                    *)
PoolLimit == IF PoolSize < 1 THEN 1 ELSE PoolSize   \* mutant: no ceiling

dispatchLimit ==
  LET budget  == MaxUSDInFlight \div MaxUSDPerRun
      limit   == IF MaxUSDInFlight > 0 /\ budget < PoolSize THEN budget ELSE PoolSize
  IN  IF limit < 1 THEN 1 ELSE limit

----------------------------------------------------------------------------
(* What a goroutine's step is made of.                                     *)

At(t, label) == worker[t].pc = label

Goto(t, label) == worker' = [worker EXCEPT ![t].pc = label]

\* Continue at `label`, the run's event now being `event`.
GotoWith(t, label, event, err) ==
  worker' = [worker EXCEPT ![t].pc = label, ![t].event = event, ![t].err = err]

\* Mutant of Enter: the local variable keeps the state of before.
EnterStale(t, label, state) == Goto(t, label)

\* Continue at `label`, the task being in `state`.
Enter(t, label, state) ==
  worker' = [worker EXCEPT ![t].pc = label, ![t].state = state]

\* A store write under a cancelled context always fails, and may fail anyway.
CanWrite == ~ctxDone
CanFail(fault) == ctxDone \/ fault \in Faults

AppendRow(t, row) == journal' = [journal EXCEPT ![t] = Append(@, row)]

\* Mutant of Journaling: a failed append is ignored.
JournalingBestEffort(t, row, next) ==
  (AppendRow(t, row) \/ UNCHANGED journal) /\ Goto(t, next)

\* AppendEvent, then `next`; a failed append ends runTask with its error.
Journaling(t, row, next) ==
  \/ CanWrite /\ AppendRow(t, row) /\ Goto(t, next)
  \/ CanFail("store") /\ Goto(t, "release") /\ UNCHANGED journal

----------------------------------------------------------------------------
(* runTask.                                                                *)

\* dispatch: (start) -> queued, persisted before it is journaled.
Persist(t) ==
  /\ At(t, "persist")
  /\ \/ /\ CanWrite
        /\ tasks' = [tasks EXCEPT ![t] = NextState("start", "dispatch")]
        /\ Enter(t, "dispatch", NextState("start", "dispatch"))
     \/ /\ CanFail("store")
        /\ Goto(t, "release")
        /\ UNCHANGED tasks
  /\ UNCHANGED <<journal, runs, results, world, loop, sem, wg>>

JournalDispatch(t) ==
  /\ At(t, "dispatch")
  /\ Journaling(t, TransitionRow("dispatch", "start", worker[t].state), "provision")
  /\ UNCHANGED <<tasks, runs, results, world, loop, sem, wg>>

\* `git worktree add -b` refuses a branch or directory that exists, and a
\* failure after it leaves both behind.
Provision(t) ==
  /\ At(t, "provision")
  /\ \/ /\ CanWrite /\ ~worktree[t]
        /\ worktree' = [worktree EXCEPT ![t] = TRUE]
        /\ GotoWith(t, "upsert", "claim_ok", FALSE)
     \/ /\ \E left \in {worktree[t], TRUE} : worktree' = [worktree EXCEPT ![t] = left]
        /\ GotoWith(t, "upsert", "setup_failed", FALSE)
  /\ UNCHANGED <<store, assigned, agents, inFlight, work, prs, held, loop, sem, wg>>

\* transition: Next, UpsertTask, AppendEvent.  Only holdForHuman does
\* something after it, and does it whether or not the transition succeeded.
Holds(event) == event \notin {"claim_ok", "result_ok"}
AfterError(event) == IF Holds(event) THEN "hold" ELSE "release"
AfterTransition(event) ==
  IF event = "claim_ok" THEN "spawn" ELSE AfterError(event)

TransitionUpsert(t) ==
  LET w == worker[t] IN
  /\ At(t, "upsert")
  /\ \/ /\ HasEdge(w.state, w.event) /\ CanWrite
        /\ tasks' = [tasks EXCEPT ![t] = NextState(w.state, w.event)]
        /\ Goto(t, "transition")
     \/ /\ ~HasEdge(w.state, w.event) \/ CanFail("store")
        /\ Goto(t, AfterError(w.event))
        /\ UNCHANGED tasks
  /\ UNCHANGED <<journal, runs, results, world, loop, sem, wg>>

TransitionRowWrite(t) ==
  LET w  == worker[t]
      to == NextState(w.state, w.event) IN
  /\ At(t, "transition")
  /\ \/ /\ CanWrite
        /\ AppendRow(t, TransitionRow(w.event, w.state, to))
        /\ Enter(t, AfterTransition(w.event), to)
     \/ /\ CanFail("store")
        /\ Goto(t, AfterError(w.event))
        /\ UNCHANGED journal
  /\ UNCHANGED <<tasks, runs, results, world, loop, sem, wg>>

\* Runner.run up to the spawn: directories and git config (each may fail),
\* then the session id is journaled before the child exists.
JournalSpawn(t) ==
  /\ At(t, "spawn")
  /\ \/ Journaling(t, ActRow("run_spawn", DevUser), "agent")
     \/ /\ CanFail("setup")
        /\ Goto(t, "release")
        /\ UNCHANGED journal
  /\ UNCHANGED <<tasks, runs, results, world, loop, sem, wg>>

\* Spawn.  A child that cannot be started is no error of Run: its missing
\* result file derives result_invalid.
StartAgent(t) ==
  /\ At(t, "agent")
  /\ \/ /\ CanWrite
        /\ agents' = [agents EXCEPT ![t] = @ + 1]
        /\ inFlight' = inFlight \cup {t}
        /\ Goto(t, "running")
     \/ /\ GotoWith(t, "record", "result_invalid", FALSE)
        /\ UNCHANGED <<agents, inFlight>>
  /\ UNCHANGED <<store, assigned, worktree, work, prs, held, loop, sem, wg>>

\* The child exits having left some result file, from which deriveOutcome
\* takes the event, and some work, which is kept here only where verification
\* is going to look at it.  A cancelled context kills the child, which is the
\* `systemd-run --wait` client: the agent in its own unit may go on.
AgentExits(t) ==
  /\ At(t, "running")
  /\ inFlight' = inFlight \ {t} \/ (ctxDone /\ UNCHANGED inFlight)
  /\ \/ \E left \in Work \ {"absent"} :
          /\ work' = [work EXCEPT ![t] = left]
          /\ GotoWith(t, "record", "result_ok", FALSE)
     \/ \E event \in {"result_needs_human", "result_invalid"} :
          /\ GotoWith(t, "record", event, FALSE)
          /\ UNCHANGED work
  /\ UNCHANGED <<store, assigned, worktree, agents, prs, held, loop, sem, wg>>

RecordRun(t) ==
  /\ At(t, "record")
  /\ \/ /\ CanWrite
        /\ runs' = [runs EXCEPT ![t] = @ + 1]
        /\ Goto(t, "result")
     \/ /\ CanFail("store")
        /\ Goto(t, "release")
        /\ UNCHANGED runs
  /\ UNCHANGED <<tasks, journal, results, world, loop, sem, wg>>

StoreResult(t) ==
  /\ At(t, "result")
  /\ \/ /\ CanWrite
        /\ results' = [results EXCEPT ![t] = @ + 1]
        /\ Goto(t, IF worker[t].event = "result_ok" THEN "openpr" ELSE "upsert")
     \/ /\ CanFail("store")
        /\ Goto(t, "release")
        /\ UNCHANGED results
  /\ UNCHANGED <<tasks, journal, runs, world, loop, sem, wg>>

\* CreatePR: an error may hide a PR that was created all the same.
OpenPR(t) ==
  /\ At(t, "openpr")
  /\ \/ /\ CanWrite
        /\ prs' = [prs EXCEPT ![t] = @ + 1]
        /\ Goto(t, "prrow")
     \/ /\ CanFail("forge")
        /\ \E opened \in {0, 1} : prs' = [prs EXCEPT ![t] = @ + opened]
        /\ Goto(t, "release")
  /\ UNCHANGED <<store, assigned, worktree, agents, inFlight, work, held, loop, sem, wg>>

JournalPR(t) ==
  /\ At(t, "prrow")
  /\ Journaling(t, ActRow("pr_opened", DevUser), "verify")
  /\ UNCHANGED <<tasks, runs, results, world, loop, sem, wg>>

\* What each check can report of the worktree and the forge as they are.
AncestryOf(t) == {IF work[t] = "orphan" THEN "violation" ELSE "pass", "error"}
DiffOf(t)     == {IF work[t] = "escape" THEN "violation" ELSE "pass", "error"}
GatesOf(t)    ==
  { g \in [1..NumGates -> GateOutcome] :
      work[t] = "red" => NumGates = 0 \/ ~AllGreen(g) }
PROf(t) ==
  {NoPR, ProbeError, FoundPR("another principal")} \cup
  (IF prs[t] > 0 THEN {FoundPR(DevUser)} ELSE {})

AfterVerdict(event, err) ==
  IF err THEN "errorrow" ELSE IF event = "result_ok" THEN "proberow" ELSE "upsert"

RunVerify(t) ==
  /\ At(t, "verify")
  /\ \E ancestry \in AncestryOf(t), diff \in DiffOf(t), gates \in GatesOf(t), pr \in PROf(t) :
       LET v == Verdict(Reviewer, DevUser, ancestry, diff, gates, pr)
       IN  GotoWith(t, IF v.ran > 0 THEN "gaterow" ELSE AfterVerdict(v.event, v.err),
                    v.event, v.err)
  /\ UNCHANGED <<store, world, loop, sem, wg>>

JournalGates(t) ==
  /\ At(t, "gaterow")
  /\ Journaling(t, ActRow("gate_rerun", Reviewer), AfterVerdict(worker[t].event, worker[t].err))
  /\ UNCHANGED <<tasks, runs, results, world, loop, sem, wg>>

\* A verification that rendered no verdict holds as result_invalid.
JournalVerifyError(t) ==
  /\ At(t, "errorrow")
  /\ Journaling(t, ActRow("verify_error", SystemOrchestrator), "upsert")
  /\ UNCHANGED <<tasks, runs, results, world, loop, sem, wg>>

JournalProbe(t) ==
  /\ At(t, "proberow")
  /\ Journaling(t, ActRow("probe_pr_exists", Reviewer), "upsert")
  /\ UNCHANGED <<tasks, runs, results, world, loop, sem, wg>>

\* Best effort: the comment may be lost, and is under a cancelled context.
HoldComment(t) ==
  /\ At(t, "hold")
  /\ \/ CanWrite /\ held' = [held EXCEPT ![t] = TRUE]
     \/ UNCHANGED held
  /\ Goto(t, "release")
  /\ UNCHANGED <<store, assigned, worktree, agents, inFlight, work, prs, loop, sem, wg>>

RunTask(t) ==
  \/ Persist(t) \/ JournalDispatch(t) \/ Provision(t)
  \/ TransitionUpsert(t) \/ TransitionRowWrite(t)
  \/ JournalSpawn(t) \/ StartAgent(t) \/ AgentExits(t) \/ RecordRun(t) \/ StoreResult(t)
  \/ OpenPR(t) \/ JournalPR(t) \/ RunVerify(t)
  \/ JournalGates(t) \/ JournalVerifyError(t) \/ JournalProbe(t) \/ HoldComment(t)

\* Mutant of ReleaseSlot: the slot is not given back.
KeepSlot(t) ==
  At(t, "release") /\ Goto(t, "exit") /\ UNCHANGED <<store, world, loop, sem, wg>>

\* The goroutine's deferred calls, in the order they run.
ReleaseSlot(t) ==
  /\ At(t, "release")
  /\ sem' = sem - 1
  /\ Goto(t, "exit")
  /\ UNCHANGED <<store, world, loop, wg>>

\* Mutant of WorkerDone: no wg.Done.
WorkerLeaves(t) ==
  /\ At(t, "exit")
  /\ worker' = [worker EXCEPT ![t] = NoWorker]
  /\ UNCHANGED <<store, world, loop, sem, wg>>

WorkerDone(t) ==
  /\ At(t, "exit")
  /\ wg' = wg - 1
  /\ worker' = [worker EXCEPT ![t] = NoWorker]
  /\ UNCHANGED <<store, world, loop, sem>>

----------------------------------------------------------------------------
(* dispatchCycle and runDispatchLoop.                                      *)

\* After a cycle: the process exits with --once, else waits for the ticker.
CycleOver == IF Once THEN "stopped" ELSE "tick"

Poll ==
  /\ main = "poll"
  /\ \/ CanWrite /\ contracts' = assigned /\ main' = "load"
     \/ contracts' = {} /\ main' = CycleOver
  /\ UNCHANGED <<store, world, pending, ctxDone, sem, wg, worker>>

\* Any LoadTask error counts as "not dispatched yet".
Dispatches(t) ==
  Cardinality({i \in DOMAIN journal[t] : journal[t][i].act = "dispatch"})

\* Mutant of Load: the store is not asked.
LoadAll(t) ==
  /\ main = "load" /\ t \in contracts
  /\ Dispatches(t) < MaxDispatch
  /\ contracts' = contracts \ {t} /\ pending' = pending \cup {t}
  /\ UNCHANGED <<store, world, main, ctxDone, sem, wg, worker>>

Load(t) ==
  /\ main = "load" /\ t \in contracts
  /\ contracts' = contracts \ {t}
  /\ \/ /\ tasks[t] = "start"
        /\ pending' = pending \cup {t}
     \/ /\ tasks[t] # "start" /\ CanWrite
        /\ UNCHANGED pending
     \/ /\ CanFail("load") /\ Dispatches(t) < MaxDispatch
        /\ pending' = pending \cup {t}
  /\ UNCHANGED <<store, world, main, ctxDone, sem, wg, worker>>

LoadDone ==
  /\ main = "load" /\ contracts = {}
  /\ main' = "launch"
  /\ UNCHANGED <<store, world, contracts, pending, ctxDone, sem, wg, worker>>

\* Mutant of Launch: no wg.Add before the goroutine.
LaunchUnannounced(t) ==
  /\ main = "launch" /\ t \in pending
  /\ sem < dispatchLimit
  /\ sem' = sem + 1
  /\ worker' = [worker EXCEPT ![t] = [NoWorker EXCEPT !.pc = "persist"]]
  /\ pending' = pending \ {t}
  /\ UNCHANGED <<store, world, main, contracts, ctxDone, wg>>

Launch(t) ==
  /\ main = "launch" /\ t \in pending
  /\ sem < dispatchLimit
  /\ sem' = sem + 1
  /\ wg' = wg + 1
  /\ worker' = [worker EXCEPT ![t] = [NoWorker EXCEPT !.pc = "persist"]]
  /\ pending' = pending \ {t}
  /\ UNCHANGED <<store, world, main, contracts, ctxDone>>

LaunchDone ==
  /\ main = "launch" /\ pending = {}
  /\ main' = "wait"
  /\ UNCHANGED <<store, world, contracts, pending, ctxDone, sem, wg, worker>>

\* Mutant of Wait: the cycle does not drain.
WaitForNobody ==
  /\ main = "wait"
  /\ main' = CycleOver
  /\ UNCHANGED <<store, world, contracts, pending, ctxDone, sem, wg, worker>>

\* wg.Wait: the cycle drains every goroutine it launched.
Wait ==
  /\ main = "wait" /\ wg = 0
  /\ main' = CycleOver
  /\ UNCHANGED <<store, world, contracts, pending, ctxDone, sem, wg, worker>>

Tick ==
  /\ main = "tick"
  /\ main' = "poll"
  /\ UNCHANGED <<store, world, contracts, pending, ctxDone, sem, wg, worker>>

\* The other case of the select.
Stop ==
  /\ main = "tick" /\ ctxDone
  /\ main' = "stopped"
  /\ UNCHANGED <<store, world, contracts, pending, ctxDone, sem, wg, worker>>

Loop == Poll \/ (\E t \in Task : Load(t) \/ Launch(t)) \/ LoadDone \/ LaunchDone \/ Wait \/ Tick \/ Stop

----------------------------------------------------------------------------
(* The process and its environment.                                        *)

Sigterm ==
  /\ "sigterm" \in Faults /\ ~ctxDone /\ main # "stopped"
  /\ ctxDone' = TRUE
  /\ UNCHANGED <<store, world, main, contracts, pending, sem, wg, worker>>

\* The process dies: everything it had in memory is gone.  The agents are not.
Crash ==
  /\ "crash" \in Faults /\ main # "stopped"
  /\ main' = "stopped"
  /\ contracts' = {} /\ pending' = {}
  /\ sem' = 0 /\ wg' = 0
  /\ worker' = [t \in Task |-> NoWorker]
  /\ UNCHANGED <<store, world, ctxDone>>

\* The supervisor, the timer or the operator starts mandat serve again.
Restart ==
  /\ main = "stopped"
  /\ main' = "poll"
  /\ ctxDone' = FALSE
  /\ UNCHANGED <<store, world, contracts, pending, sem, wg, worker>>

Assign(t) ==
  /\ t \notin assigned
  /\ assigned' = assigned \cup {t}
  /\ UNCHANGED <<store, worktree, agents, inFlight, work, prs, held, loop, sem, wg, worker>>

Unassign(t) ==
  /\ "unassign" \in Faults /\ t \in assigned
  /\ assigned' = assigned \ {t}
  /\ UNCHANGED <<store, worktree, agents, inFlight, work, prs, held, loop, sem, wg, worker>>

\* An agent nobody waits for ends: its daemon has crashed or was stopped.
\* What it leaves is read by no later process.
OrphanExits(t) ==
  /\ t \in inFlight /\ ~At(t, "running")
  /\ inFlight' = inFlight \ {t}
  /\ UNCHANGED <<store, assigned, worktree, agents, work, prs, held, loop, sem, wg, worker>>

----------------------------------------------------------------------------
Init ==
  /\ tasks    = [t \in Task |-> "start"]
  /\ journal  = [t \in Task |-> <<>>]
  /\ runs     = [t \in Task |-> 0]
  /\ results  = [t \in Task |-> 0]
  /\ assigned = {}
  /\ worktree = [t \in Task |-> FALSE]
  /\ agents   = [t \in Task |-> 0]
  /\ inFlight = {}
  /\ work     = [t \in Task |-> "absent"]
  /\ prs      = [t \in Task |-> 0]
  /\ held     = [t \in Task |-> FALSE]
  /\ main = "poll" /\ contracts = {} /\ pending = {}
  /\ sem = 0 /\ wg = 0
  /\ worker   = [t \in Task |-> NoWorker]
  /\ ctxDone  = FALSE

Goroutine(t) == RunTask(t) \/ ReleaseSlot(t) \/ WorkerDone(t)

Next ==
  \/ Loop
  \/ \E t \in Task : Goroutine(t)
  \/ Sigterm \/ Crash \/ Restart
  \/ \E t \in Task : Assign(t) \/ Unassign(t) \/ OrphanExits(t)

Spec == Init /\ [][Next]_vars
=============================================================================
