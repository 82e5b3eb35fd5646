---------------------------- MODULE ServeProofs ----------------------------
(***************************************************************************)
(* Theorems about the daemon, for every number of contracts, goroutines,   *)
(* gates and restarts, and every set of faults.                            *)
(***************************************************************************)
EXTENDS ServeInvariants, SequenceTheorems, FiniteSetTheorems, TLAPS

(***************************************************************************)
(* The rules a task moves by.  The table is a function on the pairs it     *)
(* lists, it is closed over State, and no edge but a human's leaves a      *)
(* state in which a task waits for one.                                    *)
(***************************************************************************)

\* Every edge of the table joins two operational states.
LEMMA TableType ==
  ASSUME NEW e \in table
  PROVE  e.from \in State /\ e.event \in Event /\ e.to \in State
BY DEF table, Edge, State, Event

\* Two edges that leave the same state on the same event are the same edge:
\* CHOOSE in NextState, and the map lookup in Next, have one answer.
THEOREM TableIsFunction ==
  \A e, f \in table : e.from = f.from /\ e.event = f.event => e = f
BY DEF table, Edge

\* The edge that NextState takes.
LEMMA NextStateEdge ==
  ASSUME NEW s, NEW event, HasEdge(s, event)
  PROVE  Edge(s, event, NextState(s, event)) \in table
<1> DEFINE c == CHOOSE e \in table : e.from = s /\ e.event = event
<1>1. c \in table /\ c.from = s /\ c.event = event
  BY DEF HasEdge
<1>2. c = Edge(c.from, c.event, c.to)
  BY <1>1 DEF table, Edge
<1>3. NextState(s, event) = c.to
  BY DEF NextState
<1> QED
  BY <1>1, <1>2, <1>3

\* The table looked up by one of its edges.
LEMMA NextStateOf ==
  ASSUME NEW s, NEW event, NEW to, Edge(s, event, to) \in table
  PROVE  HasEdge(s, event) /\ NextState(s, event) = to
<1>1. HasEdge(s, event)
  BY DEF HasEdge, Edge
<1>2. Edge(s, event, NextState(s, event)) \in table
  BY <1>1, NextStateEdge
<1>3. Edge(s, event, NextState(s, event)) = Edge(s, event, to)
  BY <1>2, TableIsFunction DEF Edge
<1> QED
  BY <1>1, <1>3 DEF Edge

\* Next never leaves State, listed pair or not.
LEMMA NextStateType ==
  ASSUME NEW s \in State, NEW event
  PROVE  NextState(s, event) \in State
<1>1. CASE HasEdge(s, event)
  <2>1. Edge(s, event, NextState(s, event)) \in table
    BY <1>1, NextStateEdge
  <2> QED
    BY <2>1, TableType DEF Edge
<1>2. CASE ~HasEdge(s, event)
  BY <1>2 DEF NextState
<1> QED
  BY <1>1, <1>2

(***************************************************************************)
(* A task that waits for a human, or is finished, is moved by no event the *)
(* daemon can derive: autonomy ends at needs-human and in-review           *)
(* (orchestrator.go's table, RFC-0001 decision 3).                         *)
(***************************************************************************)
THEOREM OnlyHumansLeaveRest ==
  \A e \in table :
    e.from \in {"needs-human", "in-review", "done", "failed"} => e.event \in HumanEvent
BY DEF table, Edge, HumanEvent

(***************************************************************************)
(* What Verify returns, for any number of gates.                           *)
(***************************************************************************)

\* The events of an outcome; one that renders no verdict is result_invalid.
LEMMA VerdictOutcome ==
  ASSUME NEW identity, NEW assignedTo, NEW ancestry, NEW diff, NEW pr,
         NEW n \in Nat, NEW gates \in [1..n -> GateOutcome]
  PROVE  LET v == Verdict(identity, assignedTo, ancestry, diff, gates, pr)
         IN  /\ v.event \in {"result_ok", "result_invalid", "remit_violation",
                             "gate_red", "probe_failed"}
             /\ v.err \in BOOLEAN
             /\ v.err = TRUE => v.event = "result_invalid"
BY DEF Verdict, rerunGates, Probe, VerdictOf, VerifyError

(***************************************************************************)
(* Verify fails closed: it says result_ok only of a run that every check   *)
(* passed, with the gates all run, by a probe that is not the Dev agent    *)
(* user (verify.go 214-304; ADR-0003, writer differs from scorer).         *)
(***************************************************************************)
THEOREM VerifyFailsClosed ==
  ASSUME NEW identity, NEW assignedTo, NEW ancestry \in CheckOutcome,
         NEW diff \in CheckOutcome, NEW pr,
         NEW n \in Nat, NEW gates \in [1..n -> GateOutcome],
         Verdict(identity, assignedTo, ancestry, diff, gates, pr).event = "result_ok"
  PROVE  /\ Verdict(identity, assignedTo, ancestry, diff, gates, pr).ran = n
         /\ identity # assignedTo /\ ancestry = "pass" /\ diff = "pass"
         /\ AllGreen(gates)
         /\ pr.kind = "found" /\ pr.createdBy = assignedTo
<1>0. Len(gates) = n /\ DOMAIN gates = 1..n
  OBVIOUS
<1> DEFINE g == rerunGates(gates)
<1>1. /\ identity # assignedTo /\ ancestry = "pass" /\ diff = "pass"
      /\ ~g.err /\ g.event # "gate_red"
      /\ Verdict(identity, assignedTo, ancestry, diff, gates, pr) = Probe(pr, assignedTo, g.ran)
  BY DEF Verdict, VerifyError, VerdictOf, CheckOutcome, rerunGates
<1>2. AllGreen(gates) /\ g.ran = n
  BY <1>0, <1>1 DEF rerunGates, VerifyError, VerdictOf
<1>3. /\ Probe(pr, assignedTo, g.ran) = VerdictOf("result_ok", g.ran)
      /\ pr.kind = "found" /\ pr.createdBy = assignedTo
  BY <1>1 DEF Probe, VerifyError, VerdictOf
<1> QED
  BY <1>1, <1>2, <1>3 DEF VerdictOf

(***************************************************************************)
(* Types.                                                                  *)
(***************************************************************************)

LEMMA NoWorkerType == NoWorker \in Worker
BY DEF NoWorker, Worker, Label, State, Event

LEMMA RowTypes ==
  /\ \A act \in Act, by \in Identity : ActRow(act, by) \in Row
  /\ \A event \in Event, from, to \in State : TransitionRow(event, from, to) \in Row
BY DEF ActRow, TransitionRow, Row, Act, Identity, SystemOrchestrator

(***************************************************************************)
(* How a step of runTask changes the goroutines.                           *)
(***************************************************************************)

\* The goroutine of t, and no other, moves to another label of runTask.
Moved(t) ==
  /\ worker' \in [Task -> Worker]
  /\ worker'[t].pc \in RunLabel
  /\ \A s \in Task \ {t} : worker'[s] = worker[s]

LEMMA GotoMoves ==
  ASSUME worker \in [Task -> Worker], NEW t \in Task, NEW label \in RunLabel,
         Goto(t, label)
  PROVE  /\ Moved(t)
         /\ worker'[t].pc = label
         /\ worker'[t].state = worker[t].state
         /\ worker'[t].event = worker[t].event
         /\ worker'[t].err = worker[t].err
BY DEF Goto, Worker, RunLabel, Moved

LEMMA GotoWithMoves ==
  ASSUME worker \in [Task -> Worker], NEW t \in Task, NEW label \in RunLabel,
         NEW event \in Event, NEW err \in BOOLEAN, GotoWith(t, label, event, err)
  PROVE  /\ Moved(t)
         /\ worker'[t].pc = label
         /\ worker'[t].state = worker[t].state
         /\ worker'[t].event = event
         /\ worker'[t].err = err
BY DEF GotoWith, Worker, RunLabel, Moved

LEMMA EnterMoves ==
  ASSUME worker \in [Task -> Worker], NEW t \in Task, NEW label \in RunLabel,
         NEW state \in State, Enter(t, label, state)
  PROVE  /\ Moved(t)
         /\ worker'[t].pc = label
         /\ worker'[t].state = state
         /\ worker'[t].event = worker[t].event
BY DEF Enter, Worker, RunLabel, Moved

\* The journal of t, and no other, may get one more row.
Appended(t) ==
  /\ journal' \in [Task -> Seq(Row)]
  /\ journal'[t] = journal[t] \/ \E row \in Row : journal'[t] = Append(journal[t], row)
  /\ \A s \in Task \ {t} : journal'[s] = journal[s]

LEMMA AppendRowAppends ==
  ASSUME journal \in [Task -> Seq(Row)], NEW t \in Task, NEW row \in Row,
         AppendRow(t, row)
  PROVE  Appended(t) /\ journal'[t] = Append(journal[t], row)
<1>1. Append(journal[t], row) \in Seq(Row)
  BY AppendProperties
<1> QED
  BY <1>1 DEF AppendRow, Appended

LEMMA NoAppend ==
  ASSUME journal \in [Task -> Seq(Row)], NEW t \in Task, UNCHANGED journal
  PROVE  Appended(t)
BY DEF Appended

\* Journaling appends the row and goes on, or appends nothing and gives up.
LEMMA JournalingMoves ==
  ASSUME TypeOK, NEW t \in Task, NEW row \in Row, NEW next \in RunLabel,
         Journaling(t, row, next)
  PROVE  /\ Moved(t) /\ Appended(t)
         /\ worker'[t].state = worker[t].state
         /\ worker'[t].event = worker[t].event
         /\ worker'[t].err = worker[t].err
         /\ \/ worker'[t].pc = next /\ journal'[t] = Append(journal[t], row)
            \/ worker'[t].pc = "release" /\ journal'[t] = journal[t]
<1>1. "release" \in RunLabel
  BY DEF RunLabel, Label
<1>2. CASE AppendRow(t, row) /\ Goto(t, next)
  BY <1>2, AppendRowAppends, GotoMoves DEF TypeOK
<1>3. CASE Goto(t, "release") /\ UNCHANGED journal
  BY <1>1, <1>3, NoAppend, GotoMoves DEF TypeOK
<1> QED
  BY <1>2, <1>3 DEF Journaling

LEMMA TypeInit == Init => TypeOK
<1> SUFFICES ASSUME Init PROVE TypeOK
  OBVIOUS
<1>1. worker \in [Task -> Worker]
  BY NoWorkerType DEF Init
<1>2. journal \in [Task -> Seq(Row)]
  BY DEF Init
<1> QED
  BY <1>1, <1>2 DEF Init, TypeOK, State, Work

\* The next label stays inside runTask, whatever the event.
LEMMA NextLabels ==
  ASSUME NEW event, NEW err
  PROVE  /\ AfterError(event) \in RunLabel
         /\ AfterTransition(event) \in RunLabel
         /\ AfterVerdict(event, err) \in RunLabel
BY DEF AfterError, AfterTransition, AfterVerdict, RunLabel, Label

LEMMA RowsWritten ==
  /\ ActRow("run_spawn", DevUser) \in Row
  /\ ActRow("pr_opened", DevUser) \in Row
  /\ ActRow("gate_rerun", Reviewer) \in Row
  /\ ActRow("verify_error", SystemOrchestrator) \in Row
  /\ ActRow("probe_pr_exists", Reviewer) \in Row
BY RowTypes DEF Act, Identity

\* The outcome that RunVerify hands to the goroutine.
LEMMA RunVerifyMoves ==
  ASSUME TypeOK, NEW t \in Task, RunVerify(t)
  PROVE  /\ Moved(t)
         /\ worker'[t].state = worker[t].state
         /\ \E ancestry \in AncestryOf(t), diff \in DiffOf(t),
               gates \in GatesOf(t), pr \in PROf(t) :
              LET v == Verdict(Reviewer, DevUser, ancestry, diff, gates, pr) IN
              /\ worker'[t].pc = IF v.ran > 0 THEN "gaterow" ELSE AfterVerdict(v.event, v.err)
              /\ worker'[t].event = v.event
              /\ worker'[t].err = v.err
<1>1. PICK ancestry \in AncestryOf(t), diff \in DiffOf(t), gates \in GatesOf(t), pr \in PROf(t) :
        LET v == Verdict(Reviewer, DevUser, ancestry, diff, gates, pr)
        IN  GotoWith(t, IF v.ran > 0 THEN "gaterow" ELSE AfterVerdict(v.event, v.err),
                     v.event, v.err)
  BY DEF RunVerify
<1> DEFINE v == Verdict(Reviewer, DevUser, ancestry, diff, gates, pr)
           event == v.event
           err == v.err
           next == IF v.ran > 0 THEN "gaterow" ELSE AfterVerdict(event, err)
<1>2. NumGates \in Nat /\ gates \in [1..NumGates -> GateOutcome]
  BY ServeAssumption DEF ServeAssumption, GatesOf
<1>v. /\ event \in {"result_ok", "result_invalid", "remit_violation", "gate_red", "probe_failed"}
      /\ err \in BOOLEAN
  BY <1>2, VerdictOutcome
<1>4. GotoWith(t, next, event, err)
  BY <1>1
<1> SUFFICES Moved(t) /\ worker'[t].state = worker[t].state /\ worker'[t].pc = next
             /\ worker'[t].event = event /\ worker'[t].err = err
  OBVIOUS
<1> HIDE DEF event, err
<1>3. event \in Event
  BY <1>v DEF Event
<1>5. next \in RunLabel
  BY <1>3, NextLabels DEF RunLabel, Label
<1> HIDE DEF next
<1> QED
  BY <1>v, <1>3, <1>4, <1>5 DEF GotoWith, Worker, RunLabel, Moved, TypeOK

\* A step of runTask moves its own goroutine from one label of runTask to
\* another, journals at most one row of its own task, and leaves the slots,
\* the wait group and the dispatch loop alone.
LEMMA RunTaskMoves ==
  ASSUME TypeOK, NEW t \in Task, RunTask(t)
  PROVE  /\ worker[t].pc \in RunLabel /\ Moved(t) /\ Appended(t)
         /\ UNCHANGED <<loop, sem, wg, assigned>>
<1>w. /\ worker \in [Task -> Worker] /\ journal \in [Task -> Seq(Row)]
      /\ worker[t].state \in State /\ worker[t].event \in Event /\ worker[t].err \in BOOLEAN
  BY DEF TypeOK, Worker
<1>l. /\ Label \ {"idle", "exit"} = RunLabel
      /\ \A label \in {"dispatch", "release", "upsert", "transition", "spawn", "agent",
                       "running", "record", "result", "openpr", "prrow", "verify", "hold",
                       "provision"} : label \in RunLabel
  BY DEF RunLabel, Label
<1>e. \A event \in {"claim_ok", "setup_failed", "result_ok", "result_needs_human",
                     "result_invalid"} : event \in Event
  BY DEF Event
<1>1. CASE Persist(t)
  <2>1. NextState("start", "dispatch") \in State
    BY NextStateType DEF State
  <2>2. Moved(t)
    BY <1>1, <1>w, <1>l, <2>1, GotoMoves, EnterMoves DEF Persist
  <2> QED
    BY <1>1, <1>w, <2>2, NoAppend DEF Persist, At, RunLabel, Label, world
<1>2. CASE JournalDispatch(t)
  <2>1. TransitionRow("dispatch", "start", worker[t].state) \in Row
    BY <1>w, RowTypes DEF Event, State
  <2> QED
    BY <1>2, <1>l, <2>1, JournalingMoves DEF JournalDispatch, At, RunLabel, Label, world
<1>3. CASE Provision(t)
  <2>1. Moved(t)
    BY <1>3, <1>w, <1>l, <1>e, GotoWithMoves DEF Provision
  <2> QED
    BY <1>3, <1>w, <2>1, NoAppend DEF Provision, At, RunLabel, Label, store
<1>4. CASE TransitionUpsert(t)
  <2>1. Moved(t)
    BY <1>4, <1>w, <1>l, NextLabels, GotoMoves DEF TransitionUpsert
  <2> QED
    BY <1>4, <1>w, <2>1, NoAppend DEF TransitionUpsert, At, RunLabel, Label, world
<1>5. CASE TransitionRowWrite(t)
  <2> DEFINE to == NextState(worker[t].state, worker[t].event)
  <2>1. to \in State
    BY <1>w, NextStateType
  <2> HIDE DEF to
  <2>2. TransitionRow(worker[t].event, worker[t].state, to) \in Row
    BY <1>w, <2>1, RowTypes
  <2>3. Moved(t) /\ Appended(t)
    <3>1. CASE /\ AppendRow(t, TransitionRow(worker[t].event, worker[t].state, to))
               /\ Enter(t, AfterTransition(worker[t].event), to)
      BY <1>w, <2>1, <2>2, <3>1, NextLabels, EnterMoves, AppendRowAppends
    <3>2. CASE Goto(t, AfterError(worker[t].event)) /\ UNCHANGED journal
      BY <1>w, <3>2, NextLabels, GotoMoves, NoAppend
    <3> QED
      BY <1>5, <3>1, <3>2 DEF TransitionRowWrite, to
  <2> QED
    BY <1>5, <2>3 DEF TransitionRowWrite, At, RunLabel, Label, world
<1>6. CASE JournalSpawn(t)
  <2>1. Moved(t) /\ Appended(t)
    <3>1. CASE Journaling(t, ActRow("run_spawn", DevUser), "agent")
      BY <1>l, <3>1, RowsWritten, JournalingMoves
    <3>2. CASE Goto(t, "release") /\ UNCHANGED journal
      BY <1>l, <1>w, <3>2, GotoMoves, NoAppend
    <3> QED
      BY <1>6, <3>1, <3>2 DEF JournalSpawn
  <2> QED
    BY <1>6, <2>1 DEF JournalSpawn, At, RunLabel, Label, world
<1>7. CASE StartAgent(t)
  <2>1. Moved(t)
    BY <1>7, <1>w, <1>l, <1>e, GotoMoves, GotoWithMoves DEF StartAgent
  <2> QED
    BY <1>7, <1>w, <2>1, NoAppend DEF StartAgent, At, RunLabel, Label, store
<1>8. CASE AgentExits(t)
  <2>1. Moved(t)
    BY <1>8, <1>w, <1>l, <1>e, GotoWithMoves DEF AgentExits
  <2> QED
    BY <1>8, <1>w, <2>1, NoAppend DEF AgentExits, At, RunLabel, Label, store
<1>9. CASE RecordRun(t)
  <2>1. Moved(t)
    BY <1>9, <1>w, <1>l, GotoMoves DEF RecordRun
  <2> QED
    BY <1>9, <1>w, <2>1, NoAppend DEF RecordRun, At, RunLabel, Label, world
<1>10. CASE StoreResult(t)
  <2>1. Moved(t)
    BY <1>10, <1>w, <1>l, GotoMoves DEF StoreResult
  <2> QED
    BY <1>10, <1>w, <2>1, NoAppend DEF StoreResult, At, RunLabel, Label, world
<1>11. CASE OpenPR(t)
  <2>1. Moved(t)
    BY <1>11, <1>w, <1>l, GotoMoves DEF OpenPR
  <2> QED
    BY <1>11, <1>w, <2>1, NoAppend DEF OpenPR, At, RunLabel, Label, store
<1>12. CASE JournalPR(t)
  BY <1>12, <1>l, RowsWritten, JournalingMoves DEF JournalPR, At, RunLabel, Label, world
<1>13. CASE RunVerify(t)
  BY <1>13, <1>w, RunVerifyMoves, NoAppend DEF RunVerify, At, RunLabel, Label, store, world
<1>14. CASE JournalGates(t)
  BY <1>14, NextLabels, RowsWritten, JournalingMoves DEF JournalGates, At, RunLabel, Label, world
<1>15. CASE JournalVerifyError(t)
  BY <1>15, <1>l, RowsWritten, JournalingMoves DEF JournalVerifyError, At, RunLabel, Label, world
<1>16. CASE JournalProbe(t)
  BY <1>16, <1>l, RowsWritten, JournalingMoves DEF JournalProbe, At, RunLabel, Label, world
<1>17. CASE HoldComment(t)
  <2>1. Moved(t)
    BY <1>17, <1>w, <1>l, GotoMoves DEF HoldComment
  <2> QED
    BY <1>17, <1>w, <2>1, NoAppend DEF HoldComment, At, RunLabel, Label, store
<1> QED
  BY <1>1, <1>2, <1>3, <1>4, <1>5, <1>6, <1>7, <1>8, <1>9, <1>10, <1>11, <1>12, <1>13,
     <1>14, <1>15, <1>16, <1>17 DEF RunTask

\* A counter per task that one task may advance by one.
LEMMA CounterType ==
  ASSUME NEW c \in [Task -> Nat], NEW t \in Task, NEW d,
         d = c \/ d = [c EXCEPT ![t] = @ + 1]
  PROVE  d \in [Task -> Nat]
<1>1. c[t] + 1 \in Nat
  OBVIOUS
<1>2. CASE d = [c EXCEPT ![t] = @ + 1]
  BY <1>1, <1>2
<1> QED
  BY <1>2

(***************************************************************************)
(* The tables, the world and the lists of the dispatch loop keep their     *)
(* type on every step: what remains of TypeOK beside the goroutines, the   *)
(* journal and the two counters.                                           *)
(***************************************************************************)
LEMMA TypeRest ==
  ASSUME TypeOK, [Next]_vars
  PROVE  /\ tasks' \in [Task -> State]
         /\ runs' \in [Task -> Nat] /\ results' \in [Task -> Nat]
         /\ agents' \in [Task -> Nat] /\ prs' \in [Task -> Nat]
         /\ inFlight' \subseteq Task
         /\ assigned' \subseteq Task /\ contracts' \subseteq Task /\ pending' \subseteq Task
         /\ worktree' \in [Task -> BOOLEAN]
         /\ work' \in [Task -> Work]
         /\ held' \in [Task -> BOOLEAN]
         /\ main' \in {"poll", "load", "launch", "wait", "tick", "stopped"}
         /\ ctxDone' \in BOOLEAN
<1> USE DEF TypeOK, store, world, loop
<1>1. CASE Loop
  BY <1>1 DEF Loop, Poll, Load, LoadDone, Launch, LaunchDone, Wait, Tick, Stop, CycleOver
<1>2. ASSUME NEW t \in Task, RunTask(t) PROVE tasks' \in [Task -> State]
  <2>1. NextState("start", "dispatch") \in State
    BY NextStateType DEF State
  <2>2. NextState(worker[t].state, worker[t].event) \in State
    BY NextStateType DEF Worker
  <2>3. CASE Persist(t)
    BY <2>1, <2>3 DEF Persist
  <2>4. CASE TransitionUpsert(t)
    BY <2>2, <2>4 DEF TransitionUpsert
  <2> QED
    BY <1>2, <2>3, <2>4 DEF RunTask, JournalDispatch, Provision, TransitionRowWrite,
       JournalSpawn, StartAgent, AgentExits, RecordRun, StoreResult, OpenPR, JournalPR,
       RunVerify, JournalGates, JournalVerifyError, JournalProbe, HoldComment
<1>3. ASSUME NEW t \in Task, RunTask(t)
      PROVE  /\ runs' \in [Task -> Nat] /\ results' \in [Task -> Nat]
             /\ agents' \in [Task -> Nat] /\ prs' \in [Task -> Nat]
             /\ worktree' \in [Task -> BOOLEAN] /\ work' \in [Task -> Work]
             /\ held' \in [Task -> BOOLEAN] /\ inFlight' \subseteq Task
  <2>1. CASE Provision(t)
    <3>1. PICK left \in BOOLEAN : worktree' = [worktree EXCEPT ![t] = left]
      BY <2>1 DEF Provision
    <3> QED
      BY <2>1, <3>1 DEF Provision
  <2>2. CASE AgentExits(t)
    BY <2>2 DEF AgentExits
  <2>3. CASE RecordRun(t) \/ StoreResult(t)
    <3>1. runs' = runs \/ runs' = [runs EXCEPT ![t] = @ + 1]
      BY <2>3 DEF RecordRun, StoreResult
    <3>2. results' = results \/ results' = [results EXCEPT ![t] = @ + 1]
      BY <2>3 DEF RecordRun, StoreResult
    <3>3. runs' \in [Task -> Nat] /\ results' \in [Task -> Nat]
      BY <3>1, <3>2, CounterType
    <3> QED
      BY <2>3, <3>3 DEF RecordRun, StoreResult
  <2>4. CASE OpenPR(t)
    <3>1. PICK opened \in {0, 1} : prs' = [prs EXCEPT ![t] = @ + opened]
      BY <2>4 DEF OpenPR
    <3>2. prs' \in [Task -> Nat]
      BY <3>1
    <3> QED
      BY <2>4, <3>2 DEF OpenPR
  <2>5. CASE StartAgent(t)
    <3>1. agents' = agents \/ agents' = [agents EXCEPT ![t] = @ + 1]
      BY <2>5 DEF StartAgent
    <3>2. agents' \in [Task -> Nat]
      BY <3>1, CounterType
    <3> QED
      BY <2>5, <3>2 DEF StartAgent
  <2>6. CASE HoldComment(t)
    BY <2>6 DEF HoldComment
  <2>7. CASE UNCHANGED <<runs, results, agents, inFlight, prs, worktree, work, held>>
    BY <2>7
  <2> QED
    BY <1>3, <2>1, <2>2, <2>3, <2>4, <2>5, <2>6, <2>7 DEF RunTask, Persist, JournalDispatch,
       TransitionUpsert, TransitionRowWrite, JournalSpawn, JournalPR, RunVerify,
       JournalGates, JournalVerifyError, JournalProbe
<1>4. CASE \E t \in Task : RunTask(t)
  BY <1>2, <1>3, <1>4, RunTaskMoves
<1>5. CASE \E t \in Task : ReleaseSlot(t) \/ WorkerDone(t)
  BY <1>5 DEF ReleaseSlot, WorkerDone
<1>6. CASE Sigterm \/ Crash \/ Restart \/ \E t \in Task : Assign(t) \/ Unassign(t) \/ OrphanExits(t)
  BY <1>6 DEF Sigterm, Crash, Restart, Assign, Unassign, OrphanExits
<1>7. CASE UNCHANGED vars
  BY <1>7 DEF vars
<1> QED
  BY <1>1, <1>4, <1>5, <1>6, <1>7 DEF Next, Goroutine

(***************************************************************************)
(* The semaphore and the wait group.                                       *)
(***************************************************************************)

\* The limit is a number, and lets at least one goroutine in.
LEMMA DispatchLimitType == dispatchLimit \in Nat \ {0}
<1>1. PoolSize \in Nat /\ MaxUSDInFlight \in Nat /\ MaxUSDPerRun \in Nat \ {0}
  BY ServeAssumption DEF ServeAssumption
<1>2. MaxUSDInFlight \div MaxUSDPerRun \in Int
  BY <1>1
<1> QED
  BY <1>1, <1>2 DEF dispatchLimit

\* The steps of the loop and of the environment leave every goroutine alone,
\* but for Launch and Crash.
LEMMA OthersFrame ==
  ASSUME \/ Poll \/ LoadDone \/ LaunchDone \/ Wait \/ Tick \/ Stop \/ Sigterm \/ Restart
         \/ \E t \in Task : Load(t) \/ Assign(t) \/ Unassign(t) \/ OrphanExits(t)
  PROVE  UNCHANGED <<worker, journal, sem, wg, tasks, runs, results, agents, work, prs, held>>
BY DEF Poll, Load, LoadDone, LaunchDone, Wait, Tick, Stop, Sigterm, Restart, Assign,
       Unassign, OrphanExits, store, world, loop

LEMMA SlotsInit == Init => SlotsInv
<1> SUFFICES ASSUME Init PROVE SlotsInv
  OBVIOUS
<1>1. Alive = {} /\ Holding = {}
  BY DEF Init, Alive, Holding, NoWorker
<1> QED
  BY <1>1, TypeInit, DispatchLimitType, FS_EmptySet DEF SlotsInv, SlotsAccounted, Init

LEMMA SlotsRunTask ==
  ASSUME SlotsInv, NEW t \in Task, RunTask(t), TypeOK'
  PROVE  SlotsInv'
<1>1. worker[t].pc \in RunLabel /\ Moved(t) /\ UNCHANGED <<loop, sem, wg>>
  BY RunTaskMoves DEF SlotsInv
<1>2. Alive' = Alive /\ Holding' = Holding
  BY <1>1 DEF Moved, RunLabel, Alive, Holding
<1> QED
  BY <1>1, <1>2 DEF SlotsInv, SlotsAccounted, loop, dispatchLimit

LEMMA SlotsDeferred ==
  ASSUME SlotsInv, NEW t \in Task, ReleaseSlot(t) \/ WorkerDone(t)
  PROVE  SlotsInv'
<1> USE DEF SlotsInv, TypeOK, store, world, loop
<1>h. Holding \subseteq Alive /\ IsFiniteSet(Holding)
  <2>1. Holding \subseteq Alive
    BY DEF Holding, Alive
  <2> QED
    BY <2>1, FS_Subset
<1>n. NoWorker.pc = "idle"
  BY DEF NoWorker
<1>1. CASE ReleaseSlot(t)
  <2>0. worker[t].pc = "release" /\ sem' = sem - 1 /\ Goto(t, "exit")
        /\ UNCHANGED <<journal, main, pending, wg>>
    BY <1>1 DEF ReleaseSlot, At
  <2>1. worker' \in [Task -> Worker]
    BY <2>0, ZenonT(40) DEF Goto, Worker, Label
  <2>2. Alive' = Alive /\ Holding' = Holding \ {t} /\ t \in Holding
    BY <2>0 DEF Goto, Worker, Alive, Holding
  <2>3. Cardinality(Holding \ {t}) = Cardinality(Holding) - 1 /\ Cardinality(Holding) \in Nat
    BY <1>h, <2>2, FS_RemoveElement, FS_CardinalityType
  <2>4. Cardinality(Holding \ {t}) \in Nat
    BY <1>h, FS_RemoveElement, FS_CardinalityType
  <2>5. sem' = Cardinality(Holding') /\ sem' \in Nat /\ sem' <= dispatchLimit
    BY <2>0, <2>2, <2>3, <2>4, DispatchLimitType DEF SlotsAccounted
  <2>6. TypeOK'
    BY <1>1, <2>0, <2>1, <2>5 DEF ReleaseSlot
  <2> QED
    BY <2>0, <2>2, <2>5, <2>6 DEF SlotsAccounted, dispatchLimit
<1>2. CASE WorkerDone(t)
  <2>0. worker[t].pc = "exit" /\ wg' = wg - 1 /\ worker' = [worker EXCEPT ![t] = NoWorker]
        /\ UNCHANGED <<journal, main, pending, sem>>
    BY <1>2 DEF WorkerDone, At
  <2>1. worker' \in [Task -> Worker]
    BY <2>0, NoWorkerType
  <2>2. Alive' = Alive \ {t} /\ Holding' = Holding /\ t \in Alive
    BY <2>0, <1>n DEF Alive, Holding
  <2>3. Cardinality(Alive \ {t}) = Cardinality(Alive) - 1 /\ IsFiniteSet(Alive \ {t})
    BY <2>2, FS_RemoveElement
  <2>4. Cardinality(Alive \ {t}) \in Nat
    BY <2>3, FS_CardinalityType
  <2>5. wg' = Cardinality(Alive') /\ wg' \in Nat
    BY <2>0, <2>2, <2>3, <2>4 DEF SlotsAccounted
  <2>6. TypeOK'
    BY <1>2, <2>0, <2>1, <2>5 DEF WorkerDone
  <2> QED
    BY <2>0, <2>2, <2>3, <2>5, <2>6 DEF SlotsAccounted, dispatchLimit
<1> QED
  BY <1>1, <1>2

LEMMA SlotsLaunch ==
  ASSUME SlotsInv, NEW t \in Task, Launch(t)
  PROVE  SlotsInv'
<1> USE DEF SlotsInv, TypeOK, store, world, loop
<1>n. [NoWorker EXCEPT !.pc = "persist"] \in Worker
      /\ [NoWorker EXCEPT !.pc = "persist"].pc = "persist"
  BY DEF NoWorker, Worker, Label, State, Event
<1>0. /\ main = "launch" /\ t \in pending /\ sem < dispatchLimit
      /\ sem' = sem + 1 /\ wg' = wg + 1 /\ pending' = pending \ {t}
      /\ worker' = [worker EXCEPT ![t] = [NoWorker EXCEPT !.pc = "persist"]]
      /\ UNCHANGED <<journal, main>>
  BY DEF Launch
<1>1. worker' \in [Task -> Worker]
  BY <1>0, <1>n
<1>2. t \notin Alive /\ t \notin Holding
  BY <1>0 DEF SlotsAccounted, Alive, Holding
<1>3. Alive' = Alive \cup {t} /\ Holding' = Holding \cup {t}
  BY <1>0, <1>n DEF Alive, Holding
<1>4. IsFiniteSet(Holding)
  <2>1. Holding \subseteq Alive
    BY DEF Holding, Alive
  <2> QED
    BY <2>1, FS_Subset
<1>5. /\ IsFiniteSet(Alive') /\ Cardinality(Alive') = Cardinality(Alive) + 1
      /\ Cardinality(Holding') = Cardinality(Holding) + 1
  BY <1>2, <1>3, <1>4, FS_AddElement
<1>6. wg' = Cardinality(Alive') /\ sem' = Cardinality(Holding') /\ sem' <= dispatchLimit
  BY <1>0, <1>5, DispatchLimitType DEF SlotsAccounted
<1>7. TypeOK'
  BY <1>0, <1>1 DEF Launch
<1> QED
  BY <1>0, <1>3, <1>5, <1>6, <1>7 DEF SlotsAccounted, dispatchLimit

LEMMA SlotsCrash ==
  ASSUME SlotsInv, Crash
  PROVE  SlotsInv'
<1>1. Alive' = {} /\ Holding' = {}
  BY DEF Crash, Alive, Holding, NoWorker
<1>2. TypeOK'
  BY NoWorkerType DEF SlotsInv, TypeOK, Crash, store, world
<1> QED
  BY <1>1, <1>2, DispatchLimitType, FS_EmptySet DEF SlotsInv, SlotsAccounted, Crash

\* Every other step leaves the goroutines, the semaphore and the wait group
\* alone; what changes is where the dispatch loop stands.
LEMMA SlotsOthers ==
  ASSUME SlotsInv, TypeOK',
         \/ Poll \/ LoadDone \/ LaunchDone \/ Wait \/ Tick \/ Stop \/ Sigterm \/ Restart
         \/ \E t \in Task : Load(t) \/ Assign(t) \/ Unassign(t) \/ OrphanExits(t)
         \/ UNCHANGED vars
  PROVE  SlotsInv'
<1>1. UNCHANGED <<worker, sem, wg>>
  BY OthersFrame DEF vars
<1>2. Alive' = Alive /\ Holding' = Holding
  BY <1>1 DEF Alive, Holding
<1>3. Alive = {} <=> wg = 0
  BY FS_EmptySet DEF SlotsInv, SlotsAccounted
<1>4. main' \notin {"launch", "wait"} => Alive = {}
  BY <1>3 DEF SlotsInv, SlotsAccounted, Poll, Load, LoadDone, LaunchDone, Wait, Tick, Stop,
     Sigterm, Restart, Assign, Unassign, OrphanExits, CycleOver, vars, loop
<1>5. pending' \cap Alive = {}
  BY DEF SlotsInv, SlotsAccounted, Poll, Load, LoadDone, LaunchDone, Wait, Tick, Stop,
     Sigterm, Restart, Assign, Unassign, OrphanExits, CycleOver, vars, loop
<1> QED
  BY <1>1, <1>2, <1>4, <1>5 DEF SlotsInv, SlotsAccounted, dispatchLimit

LEMMA SlotsStep == SlotsInv /\ [Next]_vars => SlotsInv'
<1> SUFFICES ASSUME SlotsInv, [Next]_vars PROVE SlotsInv'
  OBVIOUS
<1>1. CASE \E t \in Task : RunTask(t)
  <2>1. PICK t \in Task : RunTask(t)
    BY <1>1
  <2>2. TypeOK'
    BY <2>1, TypeRest, RunTaskMoves DEF SlotsInv, TypeOK, Moved, Appended
  <2> QED
    BY <2>1, <2>2, SlotsRunTask
<1>2. CASE \E t \in Task : ReleaseSlot(t) \/ WorkerDone(t)
  BY <1>2, SlotsDeferred
<1>3. CASE \E t \in Task : Launch(t)
  BY <1>3, SlotsLaunch
<1>4. CASE Crash
  BY <1>4, SlotsCrash
<1>5. CASE \/ Poll \/ LoadDone \/ LaunchDone \/ Wait \/ Tick \/ Stop \/ Sigterm \/ Restart
           \/ \E t \in Task : Load(t) \/ Assign(t) \/ Unassign(t) \/ OrphanExits(t)
           \/ UNCHANGED vars
  <2>1. UNCHANGED <<worker, journal, sem, wg>>
    BY <1>5, OthersFrame DEF vars, store
  <2>2. TypeOK'
    BY <2>1, TypeRest DEF SlotsInv, TypeOK
  <2> QED
    BY <1>5, <2>2, SlotsOthers
<1> QED
  BY <1>1, <1>2, <1>3, <1>4, <1>5 DEF Next, Loop, Goroutine

(***************************************************************************)
(* The daemon's state stays in its domains, and the semaphore and the wait *)
(* group count the live goroutines exactly, whatever fails, crashes or is  *)
(* restarted, for any number of contracts and any pool size.               *)
(***************************************************************************)
THEOREM SlotsInvariant == Spec => []SlotsInv
BY SlotsInit, SlotsStep, PTL DEF Spec

\* Every variable stays in its domain (serve.go's locals, the rows of store.go).
THEOREM TypeCorrect == Spec => []TypeOK
<1>1. SlotsInv => TypeOK
  BY DEF SlotsInv
<1> QED
  BY <1>1, SlotsInvariant, PTL

\* No slot of the semaphore and no count of the wait group leaks (serve.go 553-576).
THEOREM SlotsAreAccounted == Spec => []SlotsAccounted
<1>1. SlotsInv => SlotsAccounted
  BY DEF SlotsInv
<1> QED
  BY <1>1, SlotsInvariant, PTL

(***************************************************************************)
(* Admission.                                                              *)
(***************************************************************************)

LEMMA DivisionBound ==
  ASSUME NEW a \in Nat, NEW b \in Nat \ {0}, NEW n \in Nat, n <= a \div b
  PROVE  n * b <= a
<1> DEFINE q == a \div b
<1>1. q \in Nat /\ q * b <= a
  OBVIOUS
<1>2. n <= q
  OBVIOUS
<1> HIDE DEF q
<1>3. n * b <= q * b
  BY <1>1, <1>2
<1> QED
  BY <1>1, <1>3

\* A ceiling that fits one run, divided by that run, admits one.
LEMMA DivisionPositive ==
  ASSUME NEW a \in Nat, NEW b \in Nat \ {0}, b <= a
  PROVE  a \div b \in Nat /\ a \div b >= 1
OBVIOUS

LEMMA DispatchLimitBound ==
  ASSUME NEW n \in Nat, n <= dispatchLimit
  PROVE  /\ PoolSize > 0 => n <= PoolSize
         /\ MaxUSDInFlight > 0 => n * MaxUSDPerRun <= MaxUSDInFlight
<1> DEFINE budget == MaxUSDInFlight \div MaxUSDPerRun
<1>0. /\ PoolSize \in Nat /\ MaxUSDInFlight \in Nat /\ MaxUSDPerRun \in Nat \ {0}
      /\ MaxUSDInFlight = 0 \/ MaxUSDInFlight >= MaxUSDPerRun
  BY ServeAssumption DEF ServeAssumption
<1>1. /\ PoolSize \in Nat /\ MaxUSDInFlight \in Nat /\ MaxUSDPerRun \in Nat \ {0}
      /\ MaxUSDInFlight > 0 => MaxUSDPerRun <= MaxUSDInFlight
  BY <1>0
<1>2. MaxUSDInFlight > 0 => budget \in Nat /\ budget >= 1
  BY <1>1, DivisionPositive
<1>3. dispatchLimit = LET limit == IF MaxUSDInFlight > 0 /\ budget < PoolSize
                                   THEN budget ELSE PoolSize
                      IN  IF limit < 1 THEN 1 ELSE limit
  BY DEF dispatchLimit
<1> HIDE DEF budget
<1>4. PoolSize > 0 => n <= PoolSize
  BY <1>1, <1>2, <1>3
<1>5. MaxUSDInFlight > 0 => n <= budget
  BY <1>1, <1>2, <1>3
<1>6. MaxUSDInFlight > 0 => n * MaxUSDPerRun <= MaxUSDInFlight
  BY <1>1, <1>5, DivisionBound DEF budget
<1> QED
  BY <1>4, <1>6

(***************************************************************************)
(* The one semaphore of dispatchLimit's size is enough for both bounds on  *)
(* the agents that this process waits for: they never exceed the pool, nor *)
(* the per-run reservations that fit under max_usd_in_flight (US-0012      *)
(* AC-12.8).  Those a crashed or stopped daemon left come on top.          *)
(***************************************************************************)
THEOREM BudgetIsAdmitted == Spec => []BudgetAdmission
<1>1. SlotsInv => BudgetAdmission
  <2> SUFFICES ASSUME SlotsInv PROVE BudgetAdmission
    OBVIOUS
  <2>1. Supervised \subseteq Holding /\ Holding \subseteq Alive
    BY DEF Supervised, At, Holding, Alive, SlotsInv, TypeOK
  <2>2. IsFiniteSet(Holding) /\ IsFiniteSet(Supervised)
    BY <2>1, FS_Subset DEF SlotsInv
  <2>3. Cardinality(Supervised) <= Cardinality(Holding) /\ Cardinality(Supervised) \in Nat
    BY <2>1, <2>2, FS_Subset, FS_CardinalityType
  <2>4. Cardinality(Supervised) <= dispatchLimit
    BY <2>2, <2>3, DispatchLimitType, FS_CardinalityType DEF SlotsInv, SlotsAccounted
  <2> QED
    BY <2>3, <2>4, DispatchLimitBound DEF BudgetAdmission
<1> QED
  BY <1>1, SlotsInvariant, PTL

----------------------------------------------------------------------------
(***************************************************************************)
(* A task rests in in-review only if the evidence for it is there.  The    *)
(* argument is two invariants of the goroutines: ControlInv ties the state *)
(* column to the label (so that nothing touches the worktree of a task in  *)
(* review), EvidenceInv ties the evidence to it.                           *)
(***************************************************************************)

\* What the two invariants and ReviewCertified read of one task.
Untouched(s) ==
  /\ worker'[s] = worker[s] /\ tasks'[s] = tasks[s] /\ journal'[s] = journal[s]
  /\ runs'[s] = runs[s] /\ results'[s] = results[s] /\ prs'[s] = prs[s]
  /\ work'[s] = work[s]

\* A goroutine's step concerns its own task only.
LEMMA GoroutineFrame ==
  ASSUME TypeOK, NEW t \in Task, Goroutine(t), NEW s \in Task \ {t}
  PROVE  Untouched(s)
<1> USE DEF TypeOK, store, world
<1>1. worker'[s] = worker[s] /\ journal'[s] = journal[s]
  <2>1. CASE RunTask(t)
    BY <2>1, RunTaskMoves DEF Moved, Appended
  <2>2. CASE ReleaseSlot(t)
    BY <2>2 DEF ReleaseSlot, Goto
  <2>3. CASE WorkerDone(t)
    BY <2>3 DEF WorkerDone
  <2> QED
    BY <2>1, <2>2, <2>3 DEF Goroutine
<1>2. /\ tasks'[s] = tasks[s] /\ runs'[s] = runs[s] /\ results'[s] = results[s]
      /\ prs'[s] = prs[s] /\ work'[s] = work[s]
  BY DEF Goroutine, RunTask, Persist, JournalDispatch, Provision, TransitionUpsert,
     TransitionRowWrite, JournalSpawn, StartAgent, AgentExits, RecordRun, StoreResult,
     OpenPR, JournalPR, RunVerify, JournalGates, JournalVerifyError, JournalProbe,
     HoldComment, ReleaseSlot, WorkerDone
<1> QED
  BY <1>1, <1>2 DEF Untouched

\* A row once journaled stays.
LEMMA JournaledStays ==
  ASSUME NEW t \in Task, journal \in [Task -> Seq(Row)], journal' \in [Task -> Seq(Row)],
         journal'[t] = journal[t] \/ \E row \in Row : journal'[t] = Append(journal[t], row),
         NEW act, NEW by, Journaled(t, act, by)
  PROVE  Journaled(t, act, by)'
<1>1. CASE journal'[t] = journal[t]
  BY <1>1 DEF Journaled
<1>2. ASSUME NEW row \in Row, journal'[t] = Append(journal[t], row)
      PROVE  Journaled(t, act, by)'
  <2>1. PICK i \in DOMAIN journal[t] : journal[t][i].act = act /\ journal[t][i].by = by
    BY DEF Journaled
  <2>2. i \in DOMAIN journal'[t] /\ journal'[t][i] = journal[t][i]
    BY <1>2, <2>1, AppendProperties
  <2> QED
    BY <2>1, <2>2 DEF Journaled
<1> QED
  BY <1>1, <1>2

LEMMA JournaledNow ==
  ASSUME NEW t \in Task, journal \in [Task -> Seq(Row)], NEW row \in Row,
         journal'[t] = Append(journal[t], row)
  PROVE  Journaled(t, row.act, row.by)'
<1>1. Len(journal[t]) + 1 \in DOMAIN journal'[t] /\ journal'[t][Len(journal[t]) + 1] = row
  BY AppendProperties
<1> QED
  BY <1>1 DEF Journaled

\* Evidence is only ever added, and the worktree that verification looked at
\* is written by nobody but the running agent.
LEMMA EvidenceGrows ==
  ASSUME TypeOK, NEW t \in Task, RunTask(t)
  PROVE  /\ \A act, by : Journaled(t, act, by) => Journaled(t, act, by)'
         /\ runs[t] > 0 => runs'[t] > 0
         /\ results[t] > 0 => results'[t] > 0
         /\ prs[t] > 0 => prs'[t] > 0
         /\ worker[t].pc # "running" => work'[t] = work[t]
<1> USE DEF store, world
<1>1. \A act, by : Journaled(t, act, by) => Journaled(t, act, by)'
  BY RunTaskMoves, JournaledStays DEF TypeOK, Appended
<1>n. runs[t] \in Nat /\ results[t] \in Nat /\ prs[t] \in Nat
  BY DEF TypeOK
<1>2. runs'[t] = runs[t] \/ runs'[t] = runs[t] + 1
  BY DEF TypeOK, RunTask, Persist, JournalDispatch, Provision, TransitionUpsert,
     TransitionRowWrite, JournalSpawn, StartAgent, AgentExits, RecordRun, StoreResult,
     OpenPR, JournalPR, RunVerify, JournalGates, JournalVerifyError, JournalProbe, HoldComment
<1>3. results'[t] = results[t] \/ results'[t] = results[t] + 1
  BY DEF TypeOK, RunTask, Persist, JournalDispatch, Provision, TransitionUpsert,
     TransitionRowWrite, JournalSpawn, StartAgent, AgentExits, RecordRun, StoreResult,
     OpenPR, JournalPR, RunVerify, JournalGates, JournalVerifyError, JournalProbe, HoldComment
<1>4. \E opened \in {0, 1} : prs'[t] = prs[t] + opened
  <2>1. CASE OpenPR(t)
    BY <2>1 DEF OpenPR, TypeOK
  <2>2. CASE prs' = prs
    BY <2>2, <1>n
  <2> QED
    BY <2>1, <2>2 DEF RunTask, Persist, JournalDispatch, Provision, TransitionUpsert,
       TransitionRowWrite, JournalSpawn, StartAgent, AgentExits, RecordRun, StoreResult,
       JournalPR, RunVerify, JournalGates, JournalVerifyError, JournalProbe, HoldComment
<1>5. worker[t].pc # "running" => work'[t] = work[t]
  BY DEF RunTask, Persist, JournalDispatch, Provision, TransitionUpsert,
     TransitionRowWrite, JournalSpawn, StartAgent, AgentExits, RecordRun, StoreResult,
     OpenPR, JournalPR, RunVerify, JournalGates, JournalVerifyError, JournalProbe,
     HoldComment, At
<1> QED
  BY <1>1, <1>n, <1>2, <1>3, <1>4, <1>5

\* The edges the daemon's own events take.
LEMMA EdgesTaken ==
  /\ NextState("start", "dispatch") = "queued"
  /\ NextState("queued", "claim_ok") = "in-progress"
BY NextStateOf DEF table

\* Only result_ok leads to in-review.
LEMMA InReviewByResultOK ==
  ASSUME NEW s \in State, NEW event, HasEdge(s, event), NextState(s, event) = "in-review"
  PROVE  event = "result_ok"
<1>1. Edge(s, event, "in-review") \in table
  BY NextStateEdge
<1> QED
  BY <1>1 DEF table, Edge

(***************************************************************************)
(* ControlInv is inductive, one goroutine at a time.                       *)
(***************************************************************************)
LEMMA ControlRunTask ==
  ASSUME TypeOK, NEW t \in Task, Control(t), RunTask(t)
  PROVE  Control(t)'
<1> USE DEF store, world
<1>w. /\ worker \in [Task -> Worker] /\ tasks \in [Task -> State]
      /\ worker[t].state \in State /\ worker[t].event \in Event /\ worker[t].err \in BOOLEAN
  BY DEF TypeOK, Worker
<1>l. \A label \in {"dispatch", "release", "upsert", "transition", "spawn", "agent",
                    "running", "record", "result", "openpr", "prrow", "verify", "hold",
                    "provision"} : label \in RunLabel
  BY DEF RunLabel, Label
<1>e. \A event \in {"claim_ok", "setup_failed", "result_ok", "result_needs_human",
                     "result_invalid"} : event \in Event
  BY DEF Event
<1> DEFINE pc == worker[t].pc
           Still == /\ worker'[t].state = worker[t].state
                    /\ worker'[t].event = worker[t].event
                    /\ worker'[t].err = worker[t].err
                    /\ tasks'[t] = tasks[t]
\* A goroutine that gives up is constrained no more.
<1>r. worker'[t].pc \in {"release", "hold"} => Control(t)'
  BY DEF Control, ClaimedLabel, ScoredLabel
<1>1. CASE Persist(t)
  <2>1. CASE /\ tasks' = [tasks EXCEPT ![t] = NextState("start", "dispatch")]
             /\ Enter(t, "dispatch", NextState("start", "dispatch"))
    <3>1. tasks'[t] = "queued" /\ worker'[t].pc = "dispatch" /\ worker'[t].state = "queued"
      BY <1>w, <1>l, <2>1, EdgesTaken, EnterMoves DEF State
    <3> QED
      BY <3>1 DEF Control, ClaimedLabel, ScoredLabel
  <2>2. CASE Goto(t, "release")
    BY <1>w, <1>l, <1>r, <2>2, GotoMoves
  <2> QED
    BY <1>1, <2>1, <2>2 DEF Persist
<1>2. CASE JournalDispatch(t)
  <2>1. TransitionRow("dispatch", "start", worker[t].state) \in Row
    BY <1>w, RowTypes DEF Event, State
  <2>2. pc = "dispatch" /\ Still /\ worker'[t].pc \in {"provision", "release"}
    BY <1>2, <1>l, <2>1, JournalingMoves DEF JournalDispatch, At
  <2> QED
    BY <2>2 DEF Control, ClaimedLabel, ScoredLabel
<1>3. CASE Provision(t)
  <2>1. /\ pc = "provision" /\ worker'[t].pc = "upsert"
        /\ worker'[t].event \in {"claim_ok", "setup_failed"}
        /\ worker'[t].state = worker[t].state /\ tasks'[t] = tasks[t]
    BY <1>3, <1>w, <1>l, <1>e, GotoWithMoves DEF Provision, At
  <2> QED
    BY <2>1 DEF Control, ClaimedLabel, ScoredLabel, SetupEvent
<1>4. CASE TransitionUpsert(t)
  <2>1. CASE /\ HasEdge(worker[t].state, worker[t].event)
             /\ tasks' = [tasks EXCEPT ![t] = NextState(worker[t].state, worker[t].event)]
             /\ Goto(t, "transition")
    <3>1. /\ worker'[t].pc = "transition" /\ worker'[t].state = worker[t].state
          /\ worker'[t].event = worker[t].event
          /\ tasks'[t] = NextState(worker[t].state, worker[t].event)
      BY <1>w, <1>l, <2>1, GotoMoves
    <3>2. pc = "upsert"
      BY <1>4 DEF TransitionUpsert, At
    <3> QED
      BY <2>1, <3>1, <3>2 DEF Control, ClaimedLabel, ScoredLabel
  <2>2. CASE Goto(t, AfterError(worker[t].event))
    BY <1>w, <1>r, <2>2, NextLabels, GotoMoves DEF AfterError
  <2> QED
    BY <1>4, <2>1, <2>2 DEF TransitionUpsert
<1>5. CASE TransitionRowWrite(t)
  <2> DEFINE to == NextState(worker[t].state, worker[t].event)
  <2>1. to \in State
    BY <1>w, NextStateType
  <2>2. pc = "transition" /\ tasks'[t] = tasks[t]
    BY <1>5 DEF TransitionRowWrite, At
  <2>3. CASE Enter(t, AfterTransition(worker[t].event), to)
    <3> HIDE DEF to
    <3>1. /\ worker'[t].pc = AfterTransition(worker[t].event)
          /\ worker'[t].state = to /\ worker'[t].event = worker[t].event
      BY <1>w, <2>1, <2>3, NextLabels, EnterMoves
    <3>2. CASE worker[t].event = "claim_ok"
      <4>1. worker[t].state = "queued" /\ tasks[t] = to
        BY <2>2, <3>2 DEF Control, SetupEvent, to
      <4>2. to = "in-progress"
        BY <3>2, <4>1, EdgesTaken DEF to
      <4> QED
        BY <2>2, <3>1, <3>2, <4>1, <4>2 DEF Control, AfterTransition, ClaimedLabel, ScoredLabel
    <3>3. CASE worker[t].event # "claim_ok"
      BY <1>r, <3>1, <3>3 DEF AfterTransition, AfterError
    <3> QED
      BY <3>2, <3>3
  <2>4. CASE Goto(t, AfterError(worker[t].event))
    BY <1>w, <1>r, <2>4, NextLabels, GotoMoves DEF AfterError
  <2> QED
    BY <1>5, <2>3, <2>4 DEF TransitionRowWrite
<1>6. CASE JournalSpawn(t)
  <2>1. worker'[t].pc \in {"agent", "release"}
    BY <1>6, <1>w, <1>l, RowsWritten, JournalingMoves, GotoMoves DEF JournalSpawn
  <2>2. pc = "spawn" /\ Still
    BY <1>6, <1>w, <1>l, RowsWritten, JournalingMoves, GotoMoves DEF JournalSpawn, At
  <2> QED
    BY <2>1, <2>2 DEF Control, ClaimedLabel, ScoredLabel
<1>7. CASE StartAgent(t)
  <2>1. pc = "agent" /\ tasks'[t] = tasks[t]
    BY <1>7 DEF StartAgent, At
  <2>2. CASE Goto(t, "running")
    <3>1. worker'[t].pc = "running" /\ worker'[t].state = worker[t].state
      BY <1>w, <1>l, <2>2, GotoMoves
    <3> QED
      BY <2>1, <3>1 DEF Control, ClaimedLabel, ScoredLabel
  <2>3. CASE GotoWith(t, "record", "result_invalid", FALSE)
    <3>1. /\ worker'[t].pc = "record" /\ worker'[t].state = worker[t].state
          /\ worker'[t].event = "result_invalid"
      BY <1>w, <1>l, <1>e, <2>3, GotoWithMoves
    <3> QED
      BY <2>1, <3>1 DEF Control, ClaimedLabel, ScoredLabel, SetupEvent
  <2> QED
    BY <1>7, <2>2, <2>3 DEF StartAgent
<1>8. CASE AgentExits(t)
  <2>1. /\ pc = "running" /\ worker'[t].state = worker[t].state /\ tasks'[t] = tasks[t]
        /\ worker'[t].pc = "record"
        /\ worker'[t].event \in {"result_ok", "result_needs_human", "result_invalid"}
    <3>1. /\ pc = "running" /\ tasks' = tasks
          /\ \E event \in {"result_ok", "result_needs_human", "result_invalid"} :
               GotoWith(t, "record", event, FALSE)
      BY <1>8 DEF AgentExits, At, store
    <3>2. PICK event \in {"result_ok", "result_needs_human", "result_invalid"} :
            GotoWith(t, "record", event, FALSE)
      BY <3>1
    <3>3. /\ worker'[t].state = worker[t].state /\ worker'[t].pc = "record"
          /\ worker'[t].event = event
      <4>1. event \in Event /\ "record" \in RunLabel
        BY <1>l, <1>e
      <4>2. worker \in [Task -> Worker]
        BY <1>w
      <4> QED
        BY <3>2, <4>1, <4>2, GotoWithMoves
    <3> QED
      BY <3>1, <3>3
  <2> QED
    BY <2>1 DEF Control, ClaimedLabel, ScoredLabel, SetupEvent
<1>9. CASE RecordRun(t) \/ StoreResult(t) \/ OpenPR(t) \/ JournalPR(t)
  <2>1. /\ pc \in {"record", "result", "openpr", "prrow"} /\ Still
        /\ worker'[t].pc \in {"result", "openpr", "upsert", "prrow", "verify", "release"}
    <3>1. CASE RecordRun(t)
      BY <3>1, <1>w, <1>l, GotoMoves DEF RecordRun, At
    <3>2. CASE StoreResult(t)
      BY <3>2, <1>w, <1>l, GotoMoves DEF StoreResult, At
    <3>3. CASE OpenPR(t)
      BY <3>3, <1>w, <1>l, GotoMoves DEF OpenPR, At
    <3>4. CASE JournalPR(t)
      BY <3>4, <1>w, <1>l, RowsWritten, JournalingMoves DEF JournalPR, At
    <3> QED
      BY <1>9, <3>1, <3>2, <3>3, <3>4
  <2> QED
    BY <2>1 DEF Control, ClaimedLabel, ScoredLabel, SetupEvent
<1>10. CASE RunVerify(t)
  <2>1. PICK ancestry \in AncestryOf(t), diff \in DiffOf(t), gates \in GatesOf(t), pr \in PROf(t) :
          LET v == Verdict(Reviewer, DevUser, ancestry, diff, gates, pr) IN
          /\ worker'[t].pc = IF v.ran > 0 THEN "gaterow" ELSE AfterVerdict(v.event, v.err)
          /\ worker'[t].event = v.event
          /\ worker'[t].err = v.err
    BY <1>10, RunVerifyMoves
  <2> DEFINE v == Verdict(Reviewer, DevUser, ancestry, diff, gates, pr)
  <2>2. NumGates \in Nat /\ gates \in [1..NumGates -> GateOutcome]
    BY ServeAssumption DEF ServeAssumption, GatesOf
  <2>3. v.event \notin SetupEvent /\ (v.err = TRUE => v.event = "result_invalid")
    BY <2>2, VerdictOutcome DEF SetupEvent
  <2>4. worker'[t].event = v.event /\ (worker'[t].err = TRUE => v.err = TRUE)
    BY <2>1
  <2>5. /\ worker'[t].pc \in {"gaterow", "errorrow", "proberow", "upsert"}
        /\ worker'[t].pc = "errorrow" => v.err = TRUE
    BY <2>1 DEF AfterVerdict
  <2>6. pc = "verify" /\ worker'[t].state = worker[t].state /\ tasks'[t] = tasks[t]
    BY <1>10, RunVerifyMoves DEF RunVerify, At
  <2> HIDE DEF v
  <2> QED
    BY <2>3, <2>4, <2>5, <2>6 DEF Control, ClaimedLabel, ScoredLabel, SetupEvent
<1>11. CASE JournalGates(t)
  <2>1. pc = "gaterow" /\ Still
    BY <1>11, NextLabels, RowsWritten, JournalingMoves DEF JournalGates, At
  <2>2. worker'[t].pc \in {AfterVerdict(worker[t].event, worker[t].err), "release"}
    BY <1>11, NextLabels, RowsWritten, JournalingMoves DEF JournalGates, At
  <2>3. /\ worker'[t].pc \in {"errorrow", "proberow", "upsert", "release"}
        /\ worker'[t].pc = "errorrow" => worker[t].err = TRUE
    BY <2>2, <1>w DEF AfterVerdict
  <2> QED
    BY <2>1, <2>3 DEF Control, ClaimedLabel, ScoredLabel, SetupEvent
<1>12. CASE JournalVerifyError(t) \/ JournalProbe(t)
  <2>1. /\ pc \in {"errorrow", "proberow"} /\ Still
        /\ worker'[t].pc \in {"upsert", "release"}
    BY <1>12, <1>l, RowsWritten, JournalingMoves DEF JournalVerifyError, JournalProbe, At
  <2> QED
    BY <2>1 DEF Control, ClaimedLabel, ScoredLabel, SetupEvent
<1>13. CASE HoldComment(t)
  BY <1>13, <1>w, <1>l, <1>r, GotoMoves DEF HoldComment
<1> QED
  BY <1>1, <1>2, <1>3, <1>4, <1>5, <1>6, <1>7, <1>8, <1>9, <1>10, <1>11, <1>12, <1>13
     DEF RunTask


\* What a result_ok verdict says of the worktree it was rendered on.
LEMMA CertifyingVerdict ==
  ASSUME NEW t \in Task, NEW ancestry \in AncestryOf(t), NEW diff \in DiffOf(t),
         NEW gates \in GatesOf(t), NEW pr \in PROf(t),
         Verdict(Reviewer, DevUser, ancestry, diff, gates, pr).event = "result_ok"
  PROVE  /\ Verdict(Reviewer, DevUser, ancestry, diff, gates, pr).ran = NumGates
         /\ Reviewer # DevUser
         /\ work[t] \in Work \ {"absent"} =>
              work[t] = "clean" \/ (work[t] = "red" /\ NumGates = 0)
<1>1. NumGates \in Nat /\ gates \in [1..NumGates -> GateOutcome]
  BY ServeAssumption DEF ServeAssumption, GatesOf
<1>2. ancestry \in CheckOutcome /\ diff \in CheckOutcome
  BY DEF AncestryOf, DiffOf, CheckOutcome
<1>3. /\ Verdict(Reviewer, DevUser, ancestry, diff, gates, pr).ran = NumGates
      /\ Reviewer # DevUser /\ ancestry = "pass" /\ diff = "pass"
      /\ AllGreen(gates)
  BY <1>1, <1>2, VerifyFailsClosed
<1>4. work[t] # "orphan" /\ work[t] # "escape"
  BY <1>3 DEF AncestryOf, DiffOf
<1>5. work[t] = "red" => NumGates = 0
  BY <1>3 DEF GatesOf
<1> QED
  BY <1>3, <1>4, <1>5 DEF Work

(***************************************************************************)
(* EvidenceInv is inductive, one goroutine at a time.                      *)
(***************************************************************************)
LEMMA EvidenceRunTask ==
  ASSUME TypeOK, NEW t \in Task, Control(t), Evidence(t), RunTask(t)
  PROVE  Evidence(t)'
<1> USE DEF store, world
<1>w. /\ worker \in [Task -> Worker] /\ journal \in [Task -> Seq(Row)]
      /\ worker[t].state \in State /\ worker[t].event \in Event /\ worker[t].err \in BOOLEAN
  BY DEF TypeOK, Worker
<1>l. \A label \in {"dispatch", "release", "upsert", "transition", "spawn", "agent",
                    "running", "record", "result", "openpr", "prrow", "verify", "hold",
                    "provision"} : label \in RunLabel
  BY DEF RunLabel, Label
<1>e. \A event \in {"claim_ok", "setup_failed", "result_ok", "result_needs_human",
                     "result_invalid"} : event \in Event
  BY DEF Event
<1> DEFINE pc == worker[t].pc
           Labels == AfterSpawnRow \cup {"upsert", "transition"}
<1> USE DEF Evidence, Delivered, Past, Passed, Concluding, AfterSpawnRow, AfterRecord,
            AfterResult, AfterOpenPR, AfterPRRow, ClaimedLabel, ScoredLabel
<1>g. /\ \A act, by : Journaled(t, act, by) => Journaled(t, act, by)'
      /\ runs[t] > 0 => runs'[t] > 0
      /\ results[t] > 0 => results'[t] > 0
      /\ prs[t] > 0 => prs'[t] > 0
      /\ pc # "running" => work'[t] = work[t]
  BY EvidenceGrows
\* A goroutine that gives up, or has only begun, owes no evidence.
<1>r. ASSUME \/ worker'[t].pc \in {"dispatch", "provision", "spawn", "hold", "release"}
             \/ worker'[t].pc = "upsert" /\ worker'[t].event # "result_ok"
      PROVE  Evidence(t)'
  BY <1>r
<1>1. CASE Persist(t) \/ JournalDispatch(t)
  <2>1. TransitionRow("dispatch", "start", worker[t].state) \in Row
    BY <1>w, RowTypes DEF Event, State
  <2>2. NextState("start", "dispatch") \in State
    BY NextStateType DEF State
  <2>3. worker'[t].pc \in {"dispatch", "provision", "release"}
    <3>1. CASE Persist(t)
      BY <3>1, <1>w, <1>l, <2>2, GotoMoves, EnterMoves DEF Persist
    <3>2. CASE JournalDispatch(t)
      BY <3>2, <1>l, <2>1, JournalingMoves DEF JournalDispatch
    <3> QED
      BY <1>1, <3>1, <3>2
  <2> QED
    BY <1>r, <2>3
<1>2. CASE Provision(t)
  <2>1. worker'[t].pc = "upsert" /\ worker'[t].event \in {"claim_ok", "setup_failed"}
    BY <1>2, <1>w, <1>l, <1>e, GotoWithMoves DEF Provision
  <2> QED
    BY <1>r, <2>1
<1>3. CASE TransitionUpsert(t)
  <2>1. CASE Goto(t, "transition")
    <3>1. pc = "upsert"
      BY <1>3 DEF TransitionUpsert, At
    <3>2. worker'[t].pc = "transition" /\ worker'[t].event = worker[t].event
      BY <1>w, <1>l, <2>1, GotoMoves
    <3> QED
      BY <1>g, <3>1, <3>2
  <2>2. CASE Goto(t, AfterError(worker[t].event))
    BY <1>w, <1>r, <2>2, NextLabels, GotoMoves DEF AfterError
  <2> QED
    BY <1>3, <2>1, <2>2 DEF TransitionUpsert
<1>4. CASE TransitionRowWrite(t)
  <2> DEFINE to == NextState(worker[t].state, worker[t].event)
  <2>1. to \in State
    BY <1>w, NextStateType
  <2>2. worker'[t].pc \in {AfterTransition(worker[t].event), AfterError(worker[t].event)}
    <3> HIDE DEF to
    <3>1. CASE Enter(t, AfterTransition(worker[t].event), to)
      BY <1>w, <2>1, <3>1, NextLabels, EnterMoves
    <3>2. CASE Goto(t, AfterError(worker[t].event))
      BY <1>w, <3>2, NextLabels, GotoMoves
    <3> QED
      BY <1>4, <3>1, <3>2 DEF TransitionRowWrite, to
  <2> QED
    BY <1>r, <2>2 DEF AfterTransition, AfterError
<1>5. CASE JournalSpawn(t)
  <2>1. CASE Journaling(t, ActRow("run_spawn", DevUser), "agent")
    <3>1. \/ worker'[t].pc = "agent"
             /\ journal'[t] = Append(journal[t], ActRow("run_spawn", DevUser))
          \/ worker'[t].pc = "release"
      BY <1>l, <2>1, RowsWritten, JournalingMoves
    <3>2. worker'[t].pc = "agent" => Journaled(t, "run_spawn", DevUser)'
      BY <1>w, <3>1, RowsWritten, JournaledNow DEF ActRow
    <3> QED
      BY <1>r, <3>1, <3>2
  <2>2. CASE Goto(t, "release")
    BY <1>w, <1>l, <1>r, <2>2, GotoMoves
  <2> QED
    BY <1>5, <2>1, <2>2 DEF JournalSpawn
<1>6. CASE StartAgent(t)
  <2>1. pc = "agent"
    BY <1>6 DEF StartAgent, At
  <2>2. CASE Goto(t, "running")
    <3>1. worker'[t].pc = "running"
      BY <1>w, <1>l, <2>2, GotoMoves
    <3> QED
      BY <1>g, <2>1, <3>1
  <2>3. CASE GotoWith(t, "record", "result_invalid", FALSE)
    <3>1. worker'[t].pc = "record" /\ worker'[t].event = "result_invalid"
      BY <1>w, <1>l, <1>e, <2>3, GotoWithMoves
    <3> QED
      BY <1>g, <2>1, <3>1
  <2> QED
    BY <1>6, <2>2, <2>3 DEF StartAgent
<1>7. CASE AgentExits(t)
  <2>1. pc = "running"
    BY <1>7 DEF AgentExits, At
  <2>2. CASE /\ \E left \in Work \ {"absent"} : work' = [work EXCEPT ![t] = left]
             /\ GotoWith(t, "record", "result_ok", FALSE)
    <3>1. worker'[t].pc = "record"
      BY <1>w, <1>l, <1>e, <2>2, GotoWithMoves
    <3>2. work'[t] # "absent"
      BY <2>2 DEF TypeOK
    <3> QED
      BY <1>g, <2>1, <3>1, <3>2
  <2>3. ASSUME NEW event \in {"result_needs_human", "result_invalid"},
               GotoWith(t, "record", event, FALSE)
        PROVE  Evidence(t)'
    <3>1. worker'[t].pc = "record" /\ worker'[t].event = event
      BY <1>w, <1>l, <1>e, <2>3, GotoWithMoves, ZenonT(40)
    <3> QED
      BY <1>g, <2>1, <3>1
  <2> QED
    BY <1>7, <2>2, <2>3 DEF AgentExits
<1>8. CASE RecordRun(t)
  <2>1. CASE runs' = [runs EXCEPT ![t] = @ + 1] /\ Goto(t, "result")
    <3>1. runs'[t] > 0
      BY <2>1 DEF TypeOK
    <3>2. pc = "record" /\ worker'[t].pc = "result" /\ worker'[t].event = worker[t].event
      BY <1>8, <1>w, <1>l, <2>1, GotoMoves DEF RecordRun, At
    <3> QED
      BY <1>g, <3>1, <3>2
  <2>2. CASE Goto(t, "release")
    BY <1>w, <1>l, <1>r, <2>2, GotoMoves
  <2> QED
    BY <1>8, <2>1, <2>2 DEF RecordRun
<1>9. CASE StoreResult(t)
  <2>1. pc = "result"
    BY <1>9 DEF StoreResult, At
  <2>2. CASE /\ results' = [results EXCEPT ![t] = @ + 1]
             /\ Goto(t, IF worker[t].event = "result_ok" THEN "openpr" ELSE "upsert")
    <3>1. results'[t] > 0
      BY <2>2 DEF TypeOK
    <3>2. CASE worker[t].event = "result_ok" /\ Goto(t, "openpr")
      <4>1. worker'[t].pc = "openpr"
        BY <1>w, <1>l, <3>2, GotoMoves
      <4> QED
        BY <1>g, <2>1, <3>1, <3>2, <4>1
    <3>3. CASE worker[t].event # "result_ok" /\ Goto(t, "upsert")
      BY <1>w, <1>l, <1>r, <3>3, GotoMoves
    <3> QED
      BY <2>2, <3>2, <3>3
  <2>3. CASE Goto(t, "release")
    BY <1>w, <1>l, <1>r, <2>3, GotoMoves
  <2> QED
    BY <1>9, <2>2, <2>3 DEF StoreResult
<1>10. CASE OpenPR(t)
  <2>1. CASE prs' = [prs EXCEPT ![t] = @ + 1] /\ Goto(t, "prrow")
    <3>1. prs'[t] > 0
      BY <2>1 DEF TypeOK
    <3>2. pc = "openpr" /\ worker'[t].pc = "prrow"
      BY <1>10, <1>w, <1>l, <2>1, GotoMoves DEF OpenPR, At
    <3> QED
      BY <1>g, <3>1, <3>2
  <2>2. CASE Goto(t, "release")
    BY <1>w, <1>l, <1>r, <2>2, GotoMoves
  <2> QED
    BY <1>10, <2>1, <2>2 DEF OpenPR
<1>11. CASE JournalPR(t)
  <2>1. /\ pc = "prrow"
        /\ \/ worker'[t].pc = "verify"
              /\ journal'[t] = Append(journal[t], ActRow("pr_opened", DevUser))
           \/ worker'[t].pc = "release"
    BY <1>11, <1>l, RowsWritten, JournalingMoves DEF JournalPR, At
  <2>2. worker'[t].pc = "verify" => Journaled(t, "pr_opened", DevUser)'
    BY <1>w, <2>1, RowsWritten, JournaledNow DEF ActRow
  <2> QED
    BY <1>g, <1>r, <2>1, <2>2
<1>12. CASE RunVerify(t)
  <2>1. PICK ancestry \in AncestryOf(t), diff \in DiffOf(t), gates \in GatesOf(t), pr \in PROf(t) :
          LET v == Verdict(Reviewer, DevUser, ancestry, diff, gates, pr) IN
          /\ worker'[t].pc = IF v.ran > 0 THEN "gaterow" ELSE AfterVerdict(v.event, v.err)
          /\ worker'[t].event = v.event
          /\ worker'[t].err = v.err
    BY <1>12, RunVerifyMoves
  <2> DEFINE v == Verdict(Reviewer, DevUser, ancestry, diff, gates, pr)
  <2>2. NumGates \in Nat /\ gates \in [1..NumGates -> GateOutcome]
    BY ServeAssumption DEF ServeAssumption, GatesOf
  <2>4. pc = "verify" /\ work'[t] = work[t] /\ work[t] \in Work \ {"absent"}
    BY <1>12, <1>g DEF RunVerify, At, TypeOK
  <2>5. CASE v.event = "result_ok"
    <3>1. v.ran = NumGates /\ Reviewer # DevUser
      BY <2>5, CertifyingVerdict
    <3>e. v.err \in BOOLEAN /\ (v.err = TRUE => v.event = "result_invalid")
      BY <2>2, VerdictOutcome
    <3>2. work[t] = "clean" \/ (work[t] = "red" /\ NumGates = 0)
      BY <2>4, <2>5, CertifyingVerdict
    <3>3. /\ worker'[t].event = "result_ok"
          /\ worker'[t].pc = IF NumGates > 0 THEN "gaterow" ELSE "proberow"
      BY <2>1, <2>5, <3>1, <3>e DEF AfterVerdict
    <3> QED
      BY <1>g, <2>2, <2>4, <3>1, <3>2, <3>3
  <2>6. CASE v.event # "result_ok"
    <3>1. /\ worker'[t].event # "result_ok"
          /\ worker'[t].pc \in {"gaterow", "errorrow", "upsert"}
      BY <2>1, <2>6 DEF AfterVerdict
    <3> QED
      BY <1>g, <2>4, <3>1
  <2> QED
    BY <2>5, <2>6
<1>13. CASE JournalGates(t)
  <2>1. /\ pc = "gaterow" /\ worker'[t].event = worker[t].event
        /\ \/ /\ worker'[t].pc = AfterVerdict(worker[t].event, worker[t].err)
              /\ journal'[t] = Append(journal[t], ActRow("gate_rerun", Reviewer))
           \/ worker'[t].pc = "release"
    BY <1>13, NextLabels, RowsWritten, JournalingMoves DEF JournalGates, At
  <2>2. worker'[t].pc # "release" => Journaled(t, "gate_rerun", Reviewer)'
    BY <1>w, <2>1, RowsWritten, JournaledNow DEF ActRow
  <2>3. \/ worker'[t].pc = "errorrow"
        \/ worker'[t].pc = "proberow" /\ worker[t].event = "result_ok"
        \/ worker'[t].pc = "upsert" /\ worker[t].event # "result_ok"
        \/ worker'[t].pc = "release"
    BY <2>1, <1>w DEF AfterVerdict
  <2> QED
    BY <1>g, <1>r, <2>1, <2>2, <2>3
<1>14. CASE JournalVerifyError(t)
  <2>1. pc = "errorrow" /\ worker[t].event = "result_invalid"
    BY <1>14 DEF JournalVerifyError, At, Control
  <2>2. /\ worker'[t].event = worker[t].event
        /\ worker'[t].pc \in {"upsert", "release"}
    BY <1>14, <1>l, RowsWritten, JournalingMoves DEF JournalVerifyError
  <2> QED
    BY <1>r, <2>1, <2>2
<1>15. CASE JournalProbe(t)
  <2>1. /\ pc = "proberow"
        /\ \/ worker'[t].pc = "upsert"
              /\ journal'[t] = Append(journal[t], ActRow("probe_pr_exists", Reviewer))
           \/ worker'[t].pc = "release"
    BY <1>15, <1>l, RowsWritten, JournalingMoves DEF JournalProbe, At
  <2>2. worker'[t].pc = "upsert" => Journaled(t, "probe_pr_exists", Reviewer)'
    BY <1>w, <2>1, RowsWritten, JournaledNow DEF ActRow
  <2> QED
    BY <1>g, <1>r, <2>1, <2>2
<1>16. CASE HoldComment(t)
  BY <1>16, <1>w, <1>l, <1>r, GotoMoves DEF HoldComment
<1> QED
  BY <1>1, <1>2, <1>3, <1>4, <1>5, <1>6, <1>7, <1>8, <1>9, <1>10, <1>11, <1>12, <1>13,
     <1>14, <1>15, <1>16 DEF RunTask

(***************************************************************************)
(* ReviewCertified, one goroutine at a time.                               *)
(***************************************************************************)
LEMMA CertifiedRunTask ==
  ASSUME TypeOK, NEW t \in Task, Control(t), Evidence(t), RunTask(t),
         tasks[t] = "in-review" => Certified(t),
         tasks'[t] = "in-review"
  PROVE  Certified(t)'
<1>g. /\ \A act, by : Journaled(t, act, by) => Journaled(t, act, by)'
      /\ runs[t] > 0 => runs'[t] > 0
      /\ results[t] > 0 => results'[t] > 0
      /\ prs[t] > 0 => prs'[t] > 0
      /\ worker[t].pc # "running" => work'[t] = work[t]
  BY EvidenceGrows
<1>1. CASE tasks'[t] = tasks[t]
  <2>1. worker[t].pc # "running"
    BY <1>1 DEF Control, ClaimedLabel
  <2> QED
    BY <1>1, <1>g, <2>1 DEF Certified
<1>2. CASE Persist(t)
  <2>1. tasks'[t] = "queued" \/ tasks'[t] = tasks[t]
    BY <1>2, EdgesTaken DEF Persist, TypeOK
  <2> QED
    BY <1>1, <2>1
<1>3. CASE TransitionUpsert(t)
  <2>1. CASE /\ HasEdge(worker[t].state, worker[t].event)
             /\ tasks' = [tasks EXCEPT ![t] = NextState(worker[t].state, worker[t].event)]
    <3>1. NextState(worker[t].state, worker[t].event) = "in-review"
      BY <2>1 DEF TypeOK
    <3>2. worker[t].state \in State
      BY DEF TypeOK, Worker
    <3>3. worker[t].event = "result_ok"
      BY <2>1, <3>1, <3>2, InReviewByResultOK
    <3>4. worker[t].pc = "upsert"
      BY <1>3 DEF TransitionUpsert, At
    <3> QED
      BY <1>g, <3>3, <3>4 DEF Evidence, Past, Passed, Concluding, Certified
  <2>2. CASE UNCHANGED tasks
    BY <1>1, <2>2
  <2> QED
    BY <1>3, <2>1, <2>2 DEF TransitionUpsert
<1> QED
  BY <1>1, <1>2, <1>3 DEF RunTask, JournalDispatch, Provision, TransitionRowWrite,
     JournalSpawn, StartAgent, AgentExits, RecordRun, StoreResult, OpenPR, JournalPR,
     RunVerify, JournalGates, JournalVerifyError, JournalProbe, HoldComment, store

(***************************************************************************)
(* The invariant on every step of the daemon and its environment.          *)
(***************************************************************************)

LEMMA ReviewInit == Init => ReviewInv
<1> SUFFICES ASSUME Init PROVE ReviewInv
  OBVIOUS
<1>1. ASSUME NEW t \in Task PROVE worker[t].pc = "idle" /\ tasks[t] = "start"
  BY DEF Init, NoWorker
<1> QED
  BY <1>1 DEF ReviewInv, ControlInv, EvidenceInv, ReviewCertified, Control, Evidence,
     Delivered, Past, Passed, Concluding, AfterSpawnRow, AfterRecord, AfterResult,
     AfterOpenPR, AfterPRRow, ClaimedLabel, ScoredLabel

\* A task whose state and evidence a step leaves alone stays certified, and
\* its goroutine, if it moved, is at a label that owes nothing.
LEMMA ReviewFrame ==
  ASSUME NEW s \in Task, Control(s), Evidence(s), tasks[s] = "in-review" => Certified(s),
         tasks'[s] = tasks[s], journal'[s] = journal[s], runs'[s] = runs[s],
         results'[s] = results[s], prs'[s] = prs[s], work'[s] = work[s],
         worker'[s] = worker[s] \/ worker'[s].pc \in {"idle", "persist", "exit"}
  PROVE  Control(s)' /\ Evidence(s)' /\ (tasks'[s] = "in-review" => Certified(s)')
<1>1. \A act, by : Journaled(s, act, by) <=> Journaled(s, act, by)'
  BY DEF Journaled
<1>2. Control(s)'
  BY DEF Control, ClaimedLabel, ScoredLabel
<1>3. Evidence(s)'
  BY <1>1 DEF Evidence, Delivered, Past, Passed, Concluding, AfterSpawnRow, AfterRecord,
     AfterResult, AfterOpenPR, AfterPRRow, ClaimedLabel, ScoredLabel
<1>4. tasks'[s] = "in-review" => Certified(s)'
  BY <1>1 DEF Certified
<1> QED
  BY <1>2, <1>3, <1>4

LEMMA ReviewStep == TypeOK /\ ReviewInv /\ [Next]_vars => ReviewInv'
<1> SUFFICES ASSUME TypeOK, ReviewInv, [Next]_vars,
                    NEW s \in Task
             PROVE  Control(s)' /\ Evidence(s)' /\ (tasks'[s] = "in-review" => Certified(s)')
  BY DEF ReviewInv, ControlInv, EvidenceInv, ReviewCertified
<1>i. Control(s) /\ Evidence(s) /\ (tasks[s] = "in-review" => Certified(s))
  BY DEF ReviewInv, ControlInv, EvidenceInv, ReviewCertified
<1>1. CASE RunTask(s)
  BY <1>1, <1>i, ControlRunTask, EvidenceRunTask, CertifiedRunTask
<1>2. CASE \E t \in Task \ {s} : Goroutine(t)
  BY <1>2, <1>i, GoroutineFrame, ReviewFrame DEF Untouched
<1>3. CASE ReleaseSlot(s) \/ WorkerDone(s)
  <2>1. worker'[s].pc \in {"exit", "idle"}
    BY <1>3 DEF ReleaseSlot, WorkerDone, Goto, NoWorker, TypeOK, Worker
  <2> QED
    BY <1>3, <1>i, <2>1, ReviewFrame DEF ReleaseSlot, WorkerDone, store, world
<1>4. CASE \E t \in Task : Launch(t)
  <2>1. worker'[s] = worker[s] \/ worker'[s].pc = "persist"
    BY <1>4 DEF Launch, NoWorker, TypeOK
  <2> QED
    BY <1>4, <1>i, <2>1, ReviewFrame DEF Launch, store, world
<1>5. CASE Crash
  <2>1. worker'[s].pc = "idle"
    BY <1>5 DEF Crash, NoWorker
  <2> QED
    BY <1>5, <1>i, <2>1, ReviewFrame DEF Crash, store, world
<1>6. CASE \/ Poll \/ LoadDone \/ LaunchDone \/ Wait \/ Tick \/ Stop \/ Sigterm \/ Restart
           \/ \E t \in Task : Load(t) \/ Assign(t) \/ Unassign(t) \/ OrphanExits(t)
           \/ UNCHANGED vars
  <2>1. UNCHANGED <<worker, journal, tasks, runs, results, work, prs>>
    BY <1>6, OthersFrame DEF vars, store, world
  <2> QED
    BY <1>i, <2>1, ReviewFrame
<1> QED
  BY <1>1, <1>2, <1>3, <1>4, <1>5, <1>6 DEF Next, Loop, Goroutine

(***************************************************************************)
(* A task rests in in-review only with all the evidence of ReviewCertified *)
(* (serve.go 264-286): for any number of contracts and gates, through any  *)
(* failed write, failed call, crash, restart, re-poll and truthful or      *)
(* untruthful LoadTask.                                                    *)
(***************************************************************************)
THEOREM ReviewIsCertified == Spec => []ReviewCertified
<1>1. ReviewInv => ReviewCertified
  BY DEF ReviewInv
<1> QED
  BY <1>1, ReviewInit, ReviewStep, TypeCorrect, PTL DEF Spec
=============================================================================
