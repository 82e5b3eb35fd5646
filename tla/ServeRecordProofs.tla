------------------------- MODULE ServeRecordProofs -------------------------
(***************************************************************************)
(* The record of a contract: dispatched, started and delivered at most     *)
(* once, every agent accounted for, a journal that can be replayed, and    *)
(* the two tables an implementation of TaskRecord.  All of it rests on a   *)
(* LoadTask that answers truthfully ("load" is not among the faults), and  *)
(* HoldCommentTrue on store writes that only fail when they are cancelled. *)
(***************************************************************************)
EXTENDS ServeProofs

(***************************************************************************)
(* What a step of runTask does, read at its own task.                      *)
(***************************************************************************)

KeepsRun(t) == worker'[t].state = worker[t].state /\ worker'[t].event = worker[t].event
KeepsCounts(t) == agents'[t] = agents[t] /\ runs'[t] = runs[t] /\ prs'[t] = prs[t]
KeepsPlace(t) == worktree'[t] = worktree[t] /\ held'[t] = held[t]
KeepsStore(t) == tasks'[t] = tasks[t] /\ journal'[t] = journal[t]
Logs(t, row) == journal'[t] = Append(journal[t], row)

\* The goroutine goes from one of `here` to one of `there`.
Goes(t, here, there) == worker[t].pc \in here /\ worker'[t].pc \in there

\* A write failed, or a call did: the run ends with an error.
GivesUp(t) ==
  /\ worker[t].pc \in RunLabel /\ worker'[t].pc = "release"
  /\ KeepsRun(t) /\ KeepsStore(t) /\ KeepsPlace(t)
  /\ agents'[t] = agents[t] /\ runs'[t] = runs[t]
  /\ \/ prs'[t] = prs[t]
     \/ worker[t].pc = "openpr" /\ prs'[t] = prs[t] + 1

Dispatched(t) ==
  /\ Goes(t, {"persist"}, {"dispatch"}) /\ ~ctxDone
  /\ tasks'[t] = "queued" /\ journal'[t] = journal[t]
  /\ worker'[t].state = "queued" /\ worker'[t].event = worker[t].event
  /\ KeepsCounts(t) /\ KeepsPlace(t)

DispatchLogged(t) ==
  /\ Goes(t, {"dispatch"}, {"provision"})
  /\ tasks'[t] = tasks[t] /\ Logs(t, TransitionRow("dispatch", "start", worker[t].state))
  /\ KeepsRun(t) /\ KeepsCounts(t) /\ KeepsPlace(t)

Provisioned(t) ==
  /\ Goes(t, {"provision"}, {"upsert"})
  /\ worker'[t].event = "setup_failed" \/ (worker'[t].event = "claim_ok" /\ worktree'[t] = TRUE)
  /\ worktree'[t] \in {worktree[t], TRUE}
  /\ worker'[t].state = worker[t].state /\ held'[t] = held[t]
  /\ KeepsStore(t) /\ KeepsCounts(t)

Upserted(t) ==
  /\ Goes(t, {"upsert"}, {"transition"})
  /\ HasEdge(worker[t].state, worker[t].event)
  /\ tasks'[t] = NextState(worker[t].state, worker[t].event)
  /\ journal'[t] = journal[t]
  /\ KeepsRun(t) /\ KeepsCounts(t) /\ KeepsPlace(t)

TransitionLogged(t) ==
  LET w  == worker[t]
      to == NextState(w.state, w.event) IN
  /\ Goes(t, {"transition"}, {AfterTransition(w.event)})
  /\ Logs(t, TransitionRow(w.event, w.state, to))
  /\ worker'[t].state = to /\ worker'[t].event = w.event
  /\ tasks'[t] = tasks[t] /\ KeepsCounts(t) /\ KeepsPlace(t)

\* A transition failed at one of its writes, or for want of an edge.
TransitionFailed(t) ==
  LET w == worker[t] IN
  /\ Goes(t, {"upsert", "transition"}, {AfterError(w.event)})
  /\ \/ CanFail("store")
     \/ w.pc = "upsert" /\ ~HasEdge(w.state, w.event)
  /\ KeepsRun(t) /\ KeepsStore(t) /\ KeepsCounts(t) /\ KeepsPlace(t)

\* The acts that are no transition.
PlainAct == {"run_spawn", "pr_opened", "gate_rerun", "verify_error", "probe_pr_exists"}

ActLogged(t) ==
  /\ \/ Goes(t, {"spawn"}, {"agent"})
     \/ Goes(t, {"prrow", "gaterow", "errorrow", "proberow"},
             {"verify", "errorrow", "proberow", "upsert"})
  /\ \E act \in PlainAct, by \in Identity : Logs(t, ActRow(act, by))
  /\ tasks'[t] = tasks[t] /\ KeepsRun(t) /\ KeepsCounts(t) /\ KeepsPlace(t)

Started(t) ==
  /\ worker[t].pc = "agent" /\ worker'[t].state = worker[t].state
  /\ \/ /\ worker'[t].pc = "running" /\ worker'[t].event = worker[t].event
        /\ agents'[t] = agents[t] + 1
     \/ /\ worker'[t].pc = "record" /\ worker'[t].event = "result_invalid"
        /\ agents'[t] = agents[t]
  /\ runs'[t] = runs[t] /\ prs'[t] = prs[t] /\ KeepsStore(t) /\ KeepsPlace(t)

Outcome == {"result_ok", "result_needs_human", "result_invalid",
            "remit_violation", "gate_red", "probe_failed"}

\* The agent's result file, or the verifier, has settled the event.
Scored(t) ==
  /\ \/ Goes(t, {"running"}, {"record"})
     \/ Goes(t, {"verify"}, {"gaterow", "errorrow", "proberow", "upsert"})
  /\ worker'[t].state = worker[t].state /\ worker'[t].event \in Outcome
  /\ KeepsStore(t) /\ KeepsCounts(t) /\ KeepsPlace(t)

Counts(t) ==
  /\ KeepsRun(t) /\ KeepsStore(t) /\ KeepsPlace(t) /\ agents'[t] = agents[t]
  /\ \/ Goes(t, {"record"}, {"result"}) /\ runs'[t] = runs[t] + 1 /\ prs'[t] = prs[t]
     \/ Goes(t, {"result"}, {"openpr", "upsert"}) /\ runs'[t] = runs[t] /\ prs'[t] = prs[t]
     \/ Goes(t, {"openpr"}, {"prrow"}) /\ runs'[t] = runs[t] /\ prs'[t] = prs[t] + 1

Comments(t) ==
  /\ Goes(t, {"hold"}, {"release"})
  /\ held'[t] # held[t] => ~ctxDone
  /\ worktree'[t] = worktree[t]
  /\ KeepsRun(t) /\ KeepsStore(t) /\ KeepsCounts(t)

Does(t) ==
  \/ GivesUp(t) \/ Dispatched(t) \/ DispatchLogged(t) \/ Provisioned(t)
  \/ Upserted(t) \/ TransitionLogged(t) \/ TransitionFailed(t) \/ ActLogged(t)
  \/ Started(t) \/ Scored(t) \/ Counts(t) \/ Comments(t)

LEMMA RunTaskDoes ==
  ASSUME TypeOK, NEW t \in Task, RunTask(t)
  PROVE  Does(t)
<1> USE DEF store, world, Does, KeepsRun, KeepsCounts, KeepsPlace, KeepsStore, Logs, Goes
<1>w. /\ worker \in [Task -> Worker] /\ journal \in [Task -> Seq(Row)]
      /\ worker[t].state \in State /\ worker[t].event \in Event /\ worker[t].err \in BOOLEAN
  BY DEF TypeOK, Worker
<1>t. /\ tasks \in [Task -> State] /\ agents \in [Task -> Nat] /\ runs \in [Task -> Nat]
      /\ prs \in [Task -> Nat] /\ worktree \in [Task -> BOOLEAN] /\ held \in [Task -> BOOLEAN]
  BY DEF TypeOK
<1>l. \A label \in {"persist", "dispatch", "release", "upsert", "transition", "spawn", "agent",
                    "running", "record", "result", "openpr", "prrow", "verify", "hold",
                    "provision", "gaterow", "errorrow", "proberow"} : label \in RunLabel
  BY DEF RunLabel, Label
<1>e. \A event \in {"claim_ok", "setup_failed", "result_ok", "result_needs_human",
                     "result_invalid"} : event \in Event
  BY DEF Event
<1>1. CASE Persist(t)
  <2>1. CASE /\ CanWrite
             /\ tasks' = [tasks EXCEPT ![t] = NextState("start", "dispatch")]
             /\ Enter(t, "dispatch", NextState("start", "dispatch"))
    <3>1. tasks'[t] = "queued" /\ worker'[t].pc = "dispatch" /\ worker'[t].state = "queued"
          /\ worker'[t].event = worker[t].event
      BY <1>w, <1>t, <1>l, <2>1, EdgesTaken, EnterMoves DEF State
    <3>2. Dispatched(t)
      BY <1>1, <2>1, <3>1 DEF Persist, At, Dispatched, CanWrite
    <3> QED
      BY <3>2
  <2>2. CASE Goto(t, "release") /\ UNCHANGED tasks
    <3>1. GivesUp(t)
      BY <1>1, <1>w, <1>l, <2>2, GotoMoves DEF Persist, At, GivesUp
    <3> QED
      BY <3>1
  <2> QED
    BY <1>1, <2>1, <2>2 DEF Persist
<1>2. CASE JournalDispatch(t)
  <2>1. TransitionRow("dispatch", "start", worker[t].state) \in Row
    BY <1>w, RowTypes DEF Event, State
  <2>2. DispatchLogged(t) \/ GivesUp(t)
    BY <1>2, <1>l, <2>1, JournalingMoves DEF JournalDispatch, At, DispatchLogged, GivesUp
  <2> QED
    BY <2>2
<1>3. CASE Provision(t)
  <2>1. CASE /\ worktree' = [worktree EXCEPT ![t] = TRUE]
             /\ GotoWith(t, "upsert", "claim_ok", FALSE)
    <3>1. Provisioned(t)
      BY <1>3, <1>w, <1>t, <1>l, <1>e, <2>1, GotoWithMoves DEF Provision, At, Provisioned
    <3> QED
      BY <3>1
  <2>2. CASE /\ \E left \in {worktree[t], TRUE} : worktree' = [worktree EXCEPT ![t] = left]
             /\ GotoWith(t, "upsert", "setup_failed", FALSE)
    <3>1. worktree'[t] \in {worktree[t], TRUE}
      BY <1>t, <2>2
    <3>2. Provisioned(t)
      BY <1>3, <1>w, <1>l, <1>e, <2>2, <3>1, GotoWithMoves, ZenonT(40) DEF Provision, At, Provisioned
    <3> QED
      BY <3>2
  <2> QED
    BY <1>3, <2>1, <2>2 DEF Provision
<1>4. CASE TransitionUpsert(t)
  <2>1. CASE /\ HasEdge(worker[t].state, worker[t].event)
             /\ tasks' = [tasks EXCEPT ![t] = NextState(worker[t].state, worker[t].event)]
             /\ Goto(t, "transition")
    <3>1. tasks'[t] = NextState(worker[t].state, worker[t].event)
      BY <1>t, <2>1
    <3>2. Upserted(t)
      BY <1>4, <1>w, <1>l, <2>1, <3>1, GotoMoves DEF TransitionUpsert, At, Upserted
    <3> QED
      BY <3>2
  <2>2. CASE /\ ~HasEdge(worker[t].state, worker[t].event) \/ CanFail("store")
             /\ Goto(t, AfterError(worker[t].event)) /\ UNCHANGED tasks
    <3>1. TransitionFailed(t)
      BY <1>4, <1>w, <2>2, NextLabels, GotoMoves DEF TransitionUpsert, At, TransitionFailed
    <3> QED
      BY <3>1
  <2> QED
    BY <1>4, <2>1, <2>2 DEF TransitionUpsert
<1>5. CASE TransitionRowWrite(t)
  <2> DEFINE to == NextState(worker[t].state, worker[t].event)
  <2>1. to \in State
    BY <1>w, NextStateType
  <2>2. CASE /\ AppendRow(t, TransitionRow(worker[t].event, worker[t].state, to))
             /\ Enter(t, AfterTransition(worker[t].event), to)
    <3> HIDE DEF to
    <3>1. /\ worker'[t].pc = AfterTransition(worker[t].event)
          /\ worker'[t].state = to /\ worker'[t].event = worker[t].event
      BY <1>w, <2>1, <2>2, NextLabels, EnterMoves
    <3>2. journal'[t] = Append(journal[t], TransitionRow(worker[t].event, worker[t].state, to))
      BY <1>w, <2>2 DEF AppendRow
    <3>3. TransitionLogged(t)
      BY <1>5, <3>1, <3>2 DEF TransitionRowWrite, At, TransitionLogged, to
    <3> QED
      BY <3>3
  <2>3. CASE /\ CanFail("store") /\ Goto(t, AfterError(worker[t].event)) /\ UNCHANGED journal
    <3>1. TransitionFailed(t)
      BY <1>5, <1>w, <2>3, NextLabels, GotoMoves DEF TransitionRowWrite, At, TransitionFailed
    <3> QED
      BY <3>1
  <2> QED
    BY <1>5, <2>2, <2>3 DEF TransitionRowWrite
<1>6. CASE JournalSpawn(t)
  <2>1. CASE Journaling(t, ActRow("run_spawn", DevUser), "agent")
    <3>1. ActLogged(t) \/ GivesUp(t)
      BY <1>6, <1>l, <2>1, RowsWritten, JournalingMoves
         DEF JournalSpawn, At, ActLogged, GivesUp, PlainAct, Identity
    <3> QED
      BY <3>1
  <2>2. CASE Goto(t, "release") /\ UNCHANGED journal
    <3>1. GivesUp(t)
      BY <1>6, <1>w, <1>l, <2>2, GotoMoves DEF JournalSpawn, At, GivesUp
    <3> QED
      BY <3>1
  <2> QED
    BY <1>6, <2>1, <2>2 DEF JournalSpawn
<1>7. CASE StartAgent(t)
  <2>1. CASE agents' = [agents EXCEPT ![t] = @ + 1] /\ Goto(t, "running")
    <3>1. agents'[t] = agents[t] + 1
      BY <1>t, <2>1
    <3>2. Started(t)
      BY <1>7, <1>w, <1>l, <2>1, <3>1, GotoMoves DEF StartAgent, At, Started
    <3> QED
      BY <3>2
  <2>2. CASE GotoWith(t, "record", "result_invalid", FALSE) /\ UNCHANGED agents
    <3>1. Started(t)
      BY <1>7, <1>w, <1>l, <1>e, <2>2, GotoWithMoves DEF StartAgent, At, Started
    <3> QED
      BY <3>1
  <2> QED
    BY <1>7, <2>1, <2>2 DEF StartAgent
<1>8. CASE AgentExits(t)
  <2>1. PICK event \in Outcome : event \in Event /\ GotoWith(t, "record", event, FALSE)
    BY <1>8, <1>e DEF AgentExits, Outcome
  <2>2. /\ worker'[t].pc = "record" /\ worker'[t].event = event
        /\ worker'[t].state = worker[t].state
    BY <1>w, <1>l, <2>1, GotoWithMoves
  <2>3. worker[t].pc = "running" /\ KeepsStore(t) /\ KeepsCounts(t) /\ KeepsPlace(t)
    BY <1>8 DEF AgentExits, At
  <2>4. Scored(t)
    BY <2>1, <2>2, <2>3 DEF Scored
  <2> QED
    BY <2>4
<1>9. CASE RecordRun(t)
  <2>1. CASE runs' = [runs EXCEPT ![t] = @ + 1] /\ Goto(t, "result")
    <3>1. runs'[t] = runs[t] + 1
      BY <1>t, <2>1
    <3>2. Counts(t)
      BY <1>9, <1>w, <1>l, <2>1, <3>1, GotoMoves DEF RecordRun, At, Counts
    <3> QED
      BY <3>2
  <2>2. CASE Goto(t, "release") /\ UNCHANGED runs
    <3>1. GivesUp(t)
      BY <1>9, <1>w, <1>l, <2>2, GotoMoves DEF RecordRun, At, GivesUp
    <3> QED
      BY <3>1
  <2> QED
    BY <1>9, <2>1, <2>2 DEF RecordRun
<1>10. CASE StoreResult(t)
  <2>1. /\ worker[t].pc = "result" /\ KeepsRun(t)
        /\ worker'[t].pc \in {"openpr", "upsert", "release"}
    BY <1>10, <1>w, <1>l, GotoMoves DEF StoreResult, At
  <2>2. KeepsStore(t) /\ KeepsCounts(t) /\ KeepsPlace(t)
    BY <1>10 DEF StoreResult
  <2>3. Counts(t) \/ GivesUp(t)
    BY <1>l, <2>1, <2>2 DEF Counts, GivesUp
  <2> QED
    BY <2>3
<1>11. CASE OpenPR(t)
  <2>1. CASE prs' = [prs EXCEPT ![t] = @ + 1] /\ Goto(t, "prrow")
    <3>1. prs'[t] = prs[t] + 1
      BY <1>t, <2>1
    <3>2. Counts(t)
      BY <1>11, <1>w, <1>l, <2>1, <3>1, GotoMoves DEF OpenPR, At, Counts
    <3> QED
      BY <3>2
  <2>2. CASE /\ \E opened \in {0, 1} : prs' = [prs EXCEPT ![t] = @ + opened]
             /\ Goto(t, "release")
    <3>1. prs'[t] = prs[t] \/ prs'[t] = prs[t] + 1
      BY <1>t, <2>2
    <3>2. GivesUp(t)
      BY <1>11, <1>w, <1>l, <2>2, <3>1, GotoMoves DEF OpenPR, At, GivesUp
    <3> QED
      BY <3>2
  <2> QED
    BY <1>11, <2>1, <2>2 DEF OpenPR
<1>12. CASE JournalPR(t)
  <2>1. ActLogged(t) \/ GivesUp(t)
    BY <1>12, <1>l, RowsWritten, JournalingMoves
       DEF JournalPR, At, ActLogged, GivesUp, PlainAct, Identity
  <2> QED
    BY <2>1
<1>13. CASE RunVerify(t)
  <2>1. PICK ancestry \in AncestryOf(t), diff \in DiffOf(t), gates \in GatesOf(t), pr \in PROf(t) :
          LET v == Verdict(Reviewer, DevUser, ancestry, diff, gates, pr) IN
          /\ worker'[t].pc = IF v.ran > 0 THEN "gaterow" ELSE AfterVerdict(v.event, v.err)
          /\ worker'[t].event = v.event
          /\ worker'[t].err = v.err
    BY <1>13, RunVerifyMoves
  <2> DEFINE v == Verdict(Reviewer, DevUser, ancestry, diff, gates, pr)
  <2>2. NumGates \in Nat /\ gates \in [1..NumGates -> GateOutcome]
    BY ServeAssumption DEF ServeAssumption, GatesOf
  <2>3. v.event \in {"result_ok", "result_invalid", "remit_violation", "gate_red", "probe_failed"}
    BY <2>2, VerdictOutcome
  <2>4. /\ worker'[t].event = v.event
        /\ worker'[t].pc \in {"gaterow", "errorrow", "proberow", "upsert"}
    BY <2>1 DEF AfterVerdict
  <2> HIDE DEF v
  <2>5. worker[t].pc = "verify" /\ worker'[t].state = worker[t].state
        /\ KeepsStore(t) /\ KeepsCounts(t) /\ KeepsPlace(t)
    BY <1>13, RunVerifyMoves DEF RunVerify, At
  <2>6. Scored(t)
    BY <2>3, <2>4, <2>5 DEF Scored, Outcome
  <2> QED
    BY <2>6
<1>14. CASE JournalGates(t)
  <2>1. /\ worker[t].pc = "gaterow" /\ KeepsRun(t)
        /\ \/ /\ worker'[t].pc = AfterVerdict(worker[t].event, worker[t].err)
              /\ journal'[t] = Append(journal[t], ActRow("gate_rerun", Reviewer))
           \/ worker'[t].pc = "release" /\ journal'[t] = journal[t]
    BY <1>14, NextLabels, RowsWritten, JournalingMoves DEF JournalGates, At
  <2>2. tasks'[t] = tasks[t] /\ KeepsCounts(t) /\ KeepsPlace(t)
    BY <1>14 DEF JournalGates
  <2>3. AfterVerdict(worker[t].event, worker[t].err) \in {"errorrow", "proberow", "upsert"}
    BY DEF AfterVerdict
  <2>4. ActLogged(t) \/ GivesUp(t)
    BY <1>l, <2>1, <2>2, <2>3 DEF ActLogged, GivesUp, PlainAct, Identity
  <2> QED
    BY <2>4
<1>15. CASE JournalVerifyError(t) \/ JournalProbe(t)
  <2>1. ActLogged(t) \/ GivesUp(t)
    <3>1. CASE JournalVerifyError(t)
      BY <3>1, <1>l, RowsWritten, JournalingMoves
         DEF JournalVerifyError, At, ActLogged, GivesUp, PlainAct, Identity
    <3>2. CASE JournalProbe(t)
      BY <3>2, <1>l, RowsWritten, JournalingMoves
         DEF JournalProbe, At, ActLogged, GivesUp, PlainAct, Identity
    <3> QED
      BY <1>15, <3>1, <3>2
  <2> QED
    BY <2>1
<1>16. CASE HoldComment(t)
  <2>1. Comments(t)
    BY <1>16, <1>w, <1>l, GotoMoves DEF HoldComment, At, Comments, CanWrite
  <2> QED
    BY <2>1
<1> QED
  BY <1>1, <1>2, <1>3, <1>4, <1>5, <1>6, <1>7, <1>8, <1>9, <1>10, <1>11, <1>12, <1>13,
     <1>14, <1>15, <1>16 DEF RunTask

(***************************************************************************)
(* What one more row does to a journal.                                    *)
(***************************************************************************)

LEMMA LastToIs ==
  ASSUME NEW rows \in Seq(Row), NEW i, IsLast(i, Moves(rows))
  PROVE  LastTo(rows) = rows[i].to
<1>1. Moves(rows) \subseteq Nat /\ i \in Moves(rows)
  BY DEF Moves, IsLast
<1>2. \A k \in Moves(rows) : (\A j \in Moves(rows) : j <= k) => k = i
  BY <1>1 DEF IsLast
<1>3. (CHOOSE k \in Moves(rows) : \A j \in Moves(rows) : j <= k) = i
  BY <1>1, <1>2 DEF IsLast
<1> QED
  BY <1>1, <1>3 DEF LastTo

\* A row that is no transition changes nothing of what the journal says.
LEMMA PlainRow ==
  ASSUME NEW rows \in Seq(Row), NEW row \in Row, row.to = None, HasLast(rows)
  PROVE  /\ HasLast(Append(rows, row))
         /\ LastTo(Append(rows, row)) = LastTo(rows)
         /\ Replays(rows) => Replays(Append(rows, row))
<1> DEFINE more == Append(rows, row)
<1>1. /\ DOMAIN more = DOMAIN rows \cup {Len(rows) + 1}
      /\ more[Len(rows) + 1] = row /\ more \in Seq(Row)
      /\ \A i \in DOMAIN rows : more[i] = rows[i]
  BY AppendProperties
<1> HIDE DEF more
<1>2. Moves(more) = Moves(rows)
  BY <1>1 DEF Moves
<1>3. \A i \in Moves(rows) : more[i] = rows[i]
  BY <1>1 DEF Moves
<1>4. HasLast(more)
  BY <1>2 DEF HasLast
<1>5. LastTo(more) = LastTo(rows)
  <2>1. CASE Moves(rows) = {}
    BY <1>2, <2>1 DEF LastTo
  <2>2. CASE Moves(rows) # {}
    <3>1. PICK i \in Moves(rows) : IsLast(i, Moves(rows))
      BY <2>2 DEF HasLast
    <3>2. LastTo(rows) = rows[i].to
      BY <3>1, LastToIs
    <3>3. LastTo(more) = more[i].to
      BY <1>1, <1>2, <3>1, LastToIs
    <3> QED
      BY <1>3, <3>2, <3>3
  <2> QED
    BY <2>1, <2>2
<1>6. Replays(rows) => Replays(more)
  BY <1>2, <1>3 DEF Replays
<1> QED
  BY <1>4, <1>5, <1>6 DEF more

\* A transition row becomes the last one, and continues the path.
LEMMA OneMoreTransition ==
  ASSUME NEW rows \in Seq(Row), NEW row \in Row, row.to # None, HasLast(rows)
  PROVE  /\ HasLast(Append(rows, row))
         /\ LastTo(Append(rows, row)) = row.to
         /\ Replays(rows) /\ row.from = LastTo(rows)
            /\ Edge(row.from, row.act, row.to) \in table => Replays(Append(rows, row))
<1> DEFINE more == Append(rows, row)
           last == Len(rows) + 1
<1>1. /\ DOMAIN more = DOMAIN rows \cup {last}
      /\ more[last] = row /\ last \in Nat /\ more \in Seq(Row)
      /\ \A i \in DOMAIN rows : more[i] = rows[i] /\ i \in Nat /\ i < last
  BY AppendProperties
<1> HIDE DEF more, last
<1>2. Moves(more) = Moves(rows) \cup {last}
  BY <1>1 DEF Moves
<1>3. \A i \in Moves(rows) : more[i] = rows[i] /\ i \in Nat /\ i < last
  BY <1>1 DEF Moves
<1>4. IsLast(last, Moves(more))
  BY <1>1, <1>2, <1>3 DEF IsLast
<1>5. HasLast(more)
  BY <1>2, <1>4 DEF HasLast
<1>6. LastTo(more) = row.to
  BY <1>1, <1>4, LastToIs
<1>7. ASSUME Replays(rows), row.from = LastTo(rows), Edge(row.from, row.act, row.to) \in table
      PROVE  Replays(more)
  <2> SUFFICES ASSUME NEW i \in Moves(more)
               PROVE  LET prior == {j \in Moves(more) : j < i}
                      IN  /\ Edge(more[i].from, more[i].act, more[i].to) \in table
                          /\ IF prior = {} THEN more[i].from = "start"
                             ELSE \E j \in prior : /\ more[j].to = more[i].from
                                                   /\ \A k \in prior : k <= j
    BY DEF Replays
  <2>1. CASE i \in Moves(rows)
    <3>1. {j \in Moves(more) : j < i} = {j \in Moves(rows) : j < i}
      BY <1>1, <1>2, <1>3, <2>1
    <3> QED
      BY <1>3, <1>7, <2>1, <3>1 DEF Replays
  <2>2. CASE i = last
    <3>1. {j \in Moves(more) : j < i} = Moves(rows)
      <4>1. \A j \in Moves(more) : j < i <=> j \in Moves(rows)
        BY <1>1, <1>2, <1>3, <2>2
      <4> QED
        BY <1>2, <4>1
    <3>2. CASE Moves(rows) = {}
      BY <1>1, <1>7, <2>2, <3>1, <3>2 DEF LastTo
    <3>3. CASE Moves(rows) # {}
      <4>1. PICK j \in Moves(rows) : IsLast(j, Moves(rows))
        BY <3>3 DEF HasLast
      <4>2. more[j].to = row.from
        BY <1>3, <1>7, <4>1, LastToIs
      <4> QED
        BY <1>1, <1>7, <2>2, <3>1, <3>3, <4>1, <4>2 DEF IsLast
    <3> QED
      BY <3>2, <3>3
  <2> QED
    BY <1>2, <2>1, <2>2
<1> QED
  BY <1>5, <1>6, <1>7 DEF more

(***************************************************************************)
(* The edges the daemon takes on its own.                                  *)
(***************************************************************************)

LEMMA AutomaticEdges ==
  ASSUME NEW s \in {"queued", "in-progress"}, NEW event \in Event \ HumanEvent,
         HasEdge(s, event)
  PROVE  /\ Edge(s, event, NextState(s, event)) \in table
         /\ NextState(s, event) \in {"in-progress", "in-review", "needs-human"}
         /\ NextState(s, event) # s
         /\ event \notin {"claim_ok", "result_ok"} => NextState(s, event) = "needs-human"
<1>1. s \in State
  BY DEF State
<1>2. Edge(s, event, NextState(s, event)) \in table
  BY <1>1, NextStateEdge
<1> QED
  BY <1>2 DEF table, Edge, HumanEvent

\* Where a goroutine asks for a transition there is one.
LEMMA EdgeAtUpsert ==
  ASSUME TypeOK, NEW t \in Task, Control(t), worker[t].event \notin HumanEvent,
         worker[t].pc = "upsert"
  PROVE  HasEdge(worker[t].state, worker[t].event)
<1>1. worker[t].event \in Event \ HumanEvent /\ worker[t].event # "dispatch"
      /\ worker[t].state = IF worker[t].event \in SetupEvent THEN "queued" ELSE "in-progress"
  BY DEF TypeOK, Worker, Control
<1>2. \E e \in table : e.from = worker[t].state /\ e.event = worker[t].event
  BY <1>1 DEF Event, HumanEvent, SetupEvent, table, Edge
<1> QED
  BY <1>2 DEF HasEdge

(***************************************************************************)
(* RecordInv is inductive, one goroutine at a time.                        *)
(***************************************************************************)

\* What every case below uses of the types and of Control.
LEMMA CarriedState ==
  ASSUME TypeOK, NEW t \in Task, Control(t), Replayable(t),
         worker[t].pc \in {"upsert", "transition"}
  PROVE  /\ worker[t].state \in {"queued", "in-progress"}
         /\ worker[t].event \in Event \ HumanEvent /\ worker[t].event # "dispatch"
BY DEF TypeOK, Worker, Control, Replayable

LEMMA UndispatchedRunTask ==
  ASSUME SlotsInv, NEW t \in Task, RunTask(t)
  PROVE  Undispatched(t)'
<1>1. TypeOK /\ t \in Alive
  BY RunTaskMoves DEF SlotsInv, RunLabel, Alive
<1>2. t \notin pending /\ pending' = pending
  BY <1>1, RunTaskMoves DEF SlotsInv, SlotsAccounted, loop
<1>3. worker'[t].pc # "persist"
  BY <1>1, RunTaskDoes DEF Does, GivesUp, Dispatched, DispatchLogged, Provisioned, Upserted,
     TransitionLogged, TransitionFailed, ActLogged, Started, Scored, Counts, Comments, Goes,
     AfterTransition, AfterError
<1> QED
  BY <1>2, <1>3 DEF Undispatched

LEMMA PristineRunTask ==
  ASSUME TypeOK, NEW t \in Task, Control(t), Replayable(t), Pristine(t), Does(t)
  PROVE  Pristine(t)'
<1>1. CASE GivesUp(t)
  BY <1>1 DEF GivesUp, KeepsStore, Pristine, RunLabel
<1>2. CASE Dispatched(t)
  BY <1>2 DEF Dispatched, Pristine
<1>3. CASE Upserted(t)
  <2>1. tasks'[t] # "start"
    BY <1>3, CarriedState, AutomaticEdges DEF Upserted, Goes
  <2> QED
    BY <2>1 DEF Pristine
<1>4. CASE \/ DispatchLogged(t) \/ Provisioned(t) \/ TransitionLogged(t) \/ TransitionFailed(t)
           \/ ActLogged(t) \/ Started(t) \/ Scored(t) \/ Counts(t) \/ Comments(t)
  <2>1. tasks'[t] = tasks[t] /\ worker[t].pc \notin {"idle", "persist", "release", "exit"}
    BY <1>4 DEF DispatchLogged, Provisioned, TransitionLogged, TransitionFailed, ActLogged,
       Started, Scored, Counts, Comments, Goes, KeepsStore
  <2> QED
    BY <2>1 DEF Pristine
<1> QED
  BY <1>1, <1>2, <1>3, <1>4 DEF Does

\* The dispatch row stays the only one: it is written into an empty journal.
LEMMA DispatchRowFirst ==
  ASSUME NEW rows \in Seq(Row), NEW row \in Row, row.act = "dispatch" => rows = <<>>,
         \A i \in DOMAIN rows : rows[i].act = "dispatch" => i = 1
  PROVE  \A i \in DOMAIN Append(rows, row) : Append(rows, row)[i].act = "dispatch" => i = 1
<1>1. /\ DOMAIN Append(rows, row) = DOMAIN rows \cup {Len(rows) + 1}
      /\ Append(rows, row)[Len(rows) + 1] = row
      /\ \A i \in DOMAIN rows : Append(rows, row)[i] = rows[i]
  BY AppendProperties
<1>2. row.act = "dispatch" => Len(rows) + 1 = 1
  OBVIOUS
<1> QED
  BY <1>1, <1>2

LEMMA CountedRunTask ==
  ASSUME TypeOK, NEW t \in Task, Control(t), Undispatched(t), Pristine(t), Replayable(t),
         Counted(t), Does(t)
  PROVE  Counted(t)'
<1>t. /\ agents[t] \in Nat /\ runs[t] \in Nat /\ prs[t] \in Nat
      /\ journal[t] \in Seq(Row) /\ worker[t].state \in State /\ worker[t].event \in Event
  BY DEF TypeOK, Worker
<1> DEFINE First(rows) == \A i \in DOMAIN rows : rows[i].act = "dispatch" => i = 1
           Counters == /\ agents'[t] <= 1 /\ runs'[t] <= 1 /\ prs'[t] <= 1
                       /\ Unstarted(t)' => agents'[t] = 0
                       /\ Unstarted(t)' \/ worker'[t].pc \in {"running", "record"} => runs'[t] = 0
                       /\ Unstarted(t)' \/ worker'[t].pc \in {"running", "record", "result", "openpr"}
                            => prs'[t] = 0
<1> SUFFICES Counters /\ (worker'[t].pc = "dispatch" => journal'[t] = <<>>) /\ First(journal'[t])
  BY DEF Counted
<1>f. First(journal[t])
  BY DEF Counted
<1> USE DEF KeepsRun, KeepsCounts, KeepsStore, Goes, Counted, Unstarted
<1>1. CASE GivesUp(t)
  BY <1>1, <1>t DEF GivesUp
<1>2. CASE Dispatched(t)
  BY <1>2 DEF Dispatched, Undispatched, Pristine
<1>3. CASE DispatchLogged(t)
  <2> DEFINE row == TransitionRow("dispatch", "start", worker[t].state)
  <2>1. row \in Row
    BY <1>t, RowTypes DEF Event, State
  <2>2. First(journal'[t])
    BY <1>3, <1>t, <2>1, DispatchRowFirst DEF DispatchLogged, Logs
  <2> QED
    BY <1>3, <2>2 DEF DispatchLogged
<1>4. CASE Provisioned(t) \/ Upserted(t)
  BY <1>4 DEF Provisioned, Upserted
<1>5. CASE TransitionLogged(t)
  <2> DEFINE to  == NextState(worker[t].state, worker[t].event)
             row == TransitionRow(worker[t].event, worker[t].state, to)
  <2>1. row \in Row /\ row.act # "dispatch"
    BY <1>5, <1>t, NextStateType, RowTypes DEF TransitionLogged, Control, TransitionRow
  <2>2. First(journal'[t])
    <3> HIDE DEF row
    <3>1. journal'[t] = Append(journal[t], row)
      BY <1>5 DEF TransitionLogged, Logs, row
    <3> QED
      BY <1>t, <1>f, <2>1, <3>1, DispatchRowFirst
  <2>3. worker[t].event = "claim_ok" \/ worker'[t].pc \in {"hold", "release"}
    BY <1>5 DEF TransitionLogged, AfterTransition, AfterError
  <2>4. worker'[t].pc \in {"spawn", "hold", "release"}
    BY <1>5 DEF TransitionLogged, AfterTransition, AfterError
  <2> QED
    BY <1>5, <2>2, <2>3, <2>4 DEF TransitionLogged, SetupEvent
<1>6. CASE TransitionFailed(t)
  BY <1>6 DEF TransitionFailed, AfterError
<1>7. CASE ActLogged(t)
  <2>1. PICK act \in PlainAct, by \in Identity : journal'[t] = Append(journal[t], ActRow(act, by))
    BY <1>7 DEF ActLogged, Logs
  <2>2. ActRow(act, by) \in Row /\ ActRow(act, by).act # "dispatch"
    BY RowTypes DEF ActRow, PlainAct, Act
  <2>3. First(journal'[t])
    BY <1>t, <1>f, <2>1, <2>2, DispatchRowFirst
  <2>4. worker'[t].pc = "upsert" => worker[t].event \notin SetupEvent
    BY <1>7 DEF ActLogged, Control, ScoredLabel, ClaimedLabel
  <2> QED
    BY <1>7, <2>3, <2>4 DEF ActLogged
<1>8. CASE Started(t)
  BY <1>8, <1>t DEF Started
<1>9. CASE Scored(t)
  BY <1>9 DEF Scored, Outcome, SetupEvent
<1>10. CASE Counts(t)
  <2>1. worker'[t].pc = "upsert" => worker[t].event \notin SetupEvent
    BY <1>10 DEF Counts, Control, ScoredLabel, ClaimedLabel
  <2> QED
    BY <1>10, <1>t, <2>1 DEF Counts
<1>11. CASE Comments(t)
  BY <1>11 DEF Comments
<1> QED
  BY <1>1, <1>2, <1>3, <1>4, <1>5, <1>6, <1>7, <1>8, <1>9, <1>10, <1>11 DEF Does

LEMMA AccountableRunTask ==
  ASSUME TypeOK, NEW t \in Task, Control(t), Evidence(t), Undispatched(t), Pristine(t),
         Replayable(t), Accountable(t), RunTask(t)
  PROVE  Accountable(t)'
<1>d. Does(t)
  BY RunTaskDoes
<1>j. \A act, by : Journaled(t, act, by) => Journaled(t, act, by)'
  BY EvidenceGrows
<1>t. /\ agents[t] \in Nat /\ worktree[t] \in BOOLEAN /\ journal \in [Task -> Seq(Row)]
      /\ worker[t].state \in State /\ worker[t].event \in Event
  BY DEF TypeOK, Worker
<1>o. worktree[t] => worktree'[t]
  BY <1>d DEF Does, GivesUp, Dispatched, DispatchLogged, Provisioned, Upserted,
     TransitionLogged, TransitionFailed, ActLogged, Started, Scored, Counts, Comments, KeepsPlace
\* An agent that was started stays accounted for.
<1>a. ASSUME agents[t] > 0, tasks'[t] \notin {"start", "queued"}
      PROVE  /\ worktree'[t] /\ tasks'[t] \notin {"start", "queued"}
             /\ Journaled(t, "claim_ok", SystemOrchestrator)'
             /\ Journaled(t, "run_spawn", DevUser)'
  BY <1>a, <1>j, <1>o DEF Accountable
<1>b. agents[t] > 0 => tasks'[t] \notin {"start", "queued"}
  <2>1. CASE Dispatched(t)
    BY <2>1 DEF Dispatched, Goes, Undispatched, Pristine
  <2>2. CASE Upserted(t)
    BY <2>2, CarriedState, AutomaticEdges DEF Upserted, Goes
  <2>3. CASE tasks'[t] = tasks[t]
    BY <2>3 DEF Accountable
  <2> QED
    BY <1>d, <2>1, <2>2, <2>3 DEF Does, GivesUp, DispatchLogged, Provisioned,
       TransitionLogged, TransitionFailed, ActLogged, Started, Scored, Counts, Comments, KeepsStore
<1> DEFINE Placed == /\ worktree'[t]
                     /\ worker'[t].pc \in ClaimedLabel =>
                          Journaled(t, "claim_ok", SystemOrchestrator)'
           Idle == /\ worker'[t].pc \notin ClaimedLabel
                   /\ worker'[t].pc \in {"upsert", "transition"} => worker'[t].event # "claim_ok"
<1>s. ASSUME agents'[t] = agents[t], Placed \/ Idle
      PROVE  Accountable(t)'
  BY <1>a, <1>b, <1>s DEF Accountable
<1> HIDE DEF Placed, Idle
<1> USE DEF KeepsRun, KeepsCounts, KeepsStore, Goes
<1>1. CASE GivesUp(t) \/ Dispatched(t) \/ DispatchLogged(t) \/ TransitionFailed(t) \/ Comments(t)
  <2>1. agents'[t] = agents[t]
    BY <1>1 DEF GivesUp, Dispatched, DispatchLogged, TransitionFailed, Comments
  <2>2. worker'[t].pc \in {"release", "dispatch", "provision", "hold"}
    BY <1>1 DEF GivesUp, Dispatched, DispatchLogged, TransitionFailed, Comments, AfterError
  <2>3. Idle
    BY <2>2 DEF Idle, ClaimedLabel
  <2> QED
    BY <1>s, <2>1, <2>3
<1>2. CASE Provisioned(t)
  <2>1. Placed \/ Idle
    BY <1>2 DEF Provisioned, Placed, Idle, ClaimedLabel
  <2> QED
    BY <1>2, <1>s, <2>1 DEF Provisioned
<1>3. CASE Upserted(t)
  <2>1. Placed \/ Idle
    BY <1>3, <1>o DEF Upserted, Placed, Idle, ClaimedLabel, Accountable
  <2> QED
    BY <1>3, <1>s, <2>1 DEF Upserted
<1>4. CASE TransitionLogged(t)
  <2>1. PICK row \in Row : /\ row.act = worker[t].event /\ row.by = SystemOrchestrator
                           /\ journal'[t] = Append(journal[t], row)
    BY <1>4, <1>t, NextStateType, RowTypes DEF TransitionLogged, Logs, TransitionRow
  <2>2. Journaled(t, row.act, row.by)'
    BY <1>t, <2>1, JournaledNow
  <2>4. CASE worker[t].event = "claim_ok"
    <3>1. worktree[t]
      BY <1>4, <2>4 DEF TransitionLogged, Accountable
    <3>2. row.act = "claim_ok" /\ row.by = SystemOrchestrator
      BY <2>1, <2>4
    <3>3. Placed
      BY <1>o, <2>2, <3>1, <3>2 DEF Placed
    <3> QED
      BY <1>4, <1>s, <3>3 DEF TransitionLogged
  <2>5. CASE worker[t].event # "claim_ok"
    <3>1. worker'[t].pc \in {"hold", "release"}
      BY <1>4, <2>5 DEF TransitionLogged, AfterTransition, AfterError
    <3>2. Idle
      BY <3>1 DEF Idle, ClaimedLabel
    <3> QED
      BY <1>4, <1>s, <3>2 DEF TransitionLogged
  <2> QED
    BY <2>4, <2>5
<1>5. CASE ActLogged(t) \/ Scored(t) \/ Counts(t)
  <2>1. agents'[t] = agents[t] /\ worker[t].pc \in ClaimedLabel
    BY <1>5 DEF ActLogged, Scored, Counts, ClaimedLabel
  <2>2. Placed
    BY <1>j, <1>o, <2>1 DEF Placed, Accountable
  <2> QED
    BY <1>s, <2>1, <2>2
<1>6. CASE Started(t)
  <2>1. worker[t].pc = "agent" /\ tasks'[t] = tasks[t] /\ worker'[t].pc \in {"running", "record"}
    BY <1>6 DEF Started
  <2>2. /\ worktree[t] /\ Journaled(t, "claim_ok", SystemOrchestrator)
        /\ Journaled(t, "run_spawn", DevUser) /\ tasks[t] = "in-progress"
    BY <2>1 DEF Accountable, Evidence, Past, AfterSpawnRow, Control, ClaimedLabel
  <2> QED
    BY <1>j, <1>o, <2>1, <2>2 DEF Accountable, ClaimedLabel
<1> QED
  BY <1>d, <1>1, <1>2, <1>3, <1>4, <1>5, <1>6 DEF Does

LEMMA ReplayableRunTask ==
  ASSUME TypeOK, NEW t \in Task, Control(t), Undispatched(t), Pristine(t), Counted(t),
         Replayable(t), Does(t)
  PROVE  Replayable(t)'
<1>t. /\ journal[t] \in Seq(Row) /\ worker[t].state \in State /\ worker[t].event \in Event
  BY DEF TypeOK, Worker
<1>0. HasLast(journal[t]) /\ Replays(journal[t]) /\ worker[t].event \notin HumanEvent
  BY DEF Replayable
<1> DEFINE Carrying == ClaimedLabel \cup {"provision", "upsert", "transition"}
<1> SUFFICES /\ HasLast(journal'[t]) /\ Replays(journal'[t])
             /\ worker'[t].event \notin HumanEvent
             /\ worker'[t].pc \in Carrying => LastTo(journal'[t]) = worker'[t].state
  BY DEF Replayable
<1> USE DEF KeepsRun, KeepsCounts, KeepsStore, Goes
<1>1. CASE GivesUp(t) \/ Dispatched(t) \/ TransitionFailed(t) \/ Comments(t)
  <2>1. journal'[t] = journal[t] /\ worker'[t].event = worker[t].event
    BY <1>1 DEF GivesUp, Dispatched, TransitionFailed, Comments
  <2>2. worker'[t].pc \in {"release", "dispatch", "hold"}
    BY <1>1 DEF GivesUp, Dispatched, TransitionFailed, Comments, AfterError
  <2> QED
    BY <1>0, <2>1, <2>2 DEF ClaimedLabel
<1>2. CASE DispatchLogged(t)
  <2> DEFINE row == TransitionRow("dispatch", "start", worker[t].state)
  <2>1. worker[t].state = "queued" /\ journal[t] = <<>>
    BY <1>2 DEF DispatchLogged, Control, Counted
  <2>2. row \in Row /\ row.to # None /\ row.to = worker[t].state
        /\ row.from = "start" /\ Edge(row.from, row.act, row.to) \in table
    BY <1>t, <2>1, RowTypes DEF TransitionRow, table, Event, State, None
  <2>3. LastTo(journal[t]) = "start"
    BY <2>1 DEF LastTo, Moves
  <2>4. journal'[t] = Append(journal[t], row)
    BY <1>2 DEF DispatchLogged, Logs
  <2>5. worker'[t].state = worker[t].state /\ worker'[t].event = worker[t].event
    BY <1>2 DEF DispatchLogged
  <2> HIDE DEF row
  <2> QED
    BY <1>0, <1>t, <2>2, <2>3, <2>4, <2>5, OneMoreTransition
<1>3. CASE Provisioned(t) \/ Upserted(t) \/ Started(t) \/ Scored(t) \/ Counts(t)
  <2>1. journal'[t] = journal[t] /\ worker'[t].state = worker[t].state
    BY <1>3 DEF Provisioned, Upserted, Started, Scored, Counts
  <2>2. worker'[t].event \notin HumanEvent
    BY <1>3, <1>0 DEF Provisioned, Upserted, Started, Scored, Counts, HumanEvent, Outcome
  <2>3. worker[t].pc \in Carrying
    BY <1>3 DEF Provisioned, Upserted, Started, Scored, Counts, ClaimedLabel
  <2> QED
    BY <1>0, <2>1, <2>2, <2>3 DEF Replayable
<1>4. CASE TransitionLogged(t)
  <2> DEFINE to  == NextState(worker[t].state, worker[t].event)
             row == TransitionRow(worker[t].event, worker[t].state, to)
  <2>1. worker[t].pc = "transition" /\ HasEdge(worker[t].state, worker[t].event)
    BY <1>4 DEF TransitionLogged, Control
  <2>2. to \in State /\ Edge(worker[t].state, worker[t].event, to) \in table
    BY <1>t, <2>1, NextStateType, NextStateEdge
  <2>3. LastTo(journal[t]) = worker[t].state
    BY <2>1 DEF Replayable
  <2>4. /\ journal'[t] = Append(journal[t], row)
        /\ worker'[t].state = to /\ worker'[t].event = worker[t].event
    BY <1>4 DEF TransitionLogged, Logs
  <2> HIDE DEF to
  <2>5. /\ row \in Row /\ row.to # None /\ row.to = to /\ row.from = worker[t].state
        /\ Edge(row.from, row.act, row.to) \in table
    BY <1>t, <2>2, RowTypes, ZenonT(40) DEF TransitionRow, State, None
  <2> HIDE DEF row
  <2> QED
    BY <1>0, <1>t, <2>3, <2>4, <2>5, OneMoreTransition
<1>5. CASE ActLogged(t)
  <2>1. PICK act \in PlainAct, by \in Identity : journal'[t] = Append(journal[t], ActRow(act, by))
    BY <1>5 DEF ActLogged, Logs
  <2>2. ActRow(act, by) \in Row /\ ActRow(act, by).to = None
    BY RowTypes DEF ActRow, PlainAct, Act
  <2>3. /\ HasLast(journal'[t]) /\ Replays(journal'[t])
        /\ LastTo(journal'[t]) = LastTo(journal[t])
    BY <1>0, <1>t, <2>1, <2>2, PlainRow
  <2>4. /\ worker[t].pc \in Carrying
        /\ worker'[t].state = worker[t].state /\ worker'[t].event = worker[t].event
    BY <1>5 DEF ActLogged, ClaimedLabel
  <2> QED
    BY <1>0, <2>3, <2>4 DEF Replayable
<1> QED
  BY <1>1, <1>2, <1>3, <1>4, <1>5 DEF Does

LEMMA NotifiedRunTask ==
  ASSUME TypeOK, "store" \notin Faults, NEW t \in Task, Control(t), Undispatched(t),
         Replayable(t), Notified(t), RunTask(t)
  PROVE  Notified(t)'
<1>d. Does(t) /\ ctxDone' = ctxDone
  BY RunTaskDoes, RunTaskMoves DEF loop
<1> USE DEF KeepsRun, KeepsStore, KeepsPlace, Goes
<1>1. CASE Dispatched(t)
  BY <1>1 DEF Dispatched, Undispatched, Notified
<1>2. CASE Upserted(t)
  BY <1>2, CarriedState DEF Upserted, Control, Notified
<1>3. CASE TransitionLogged(t)
  <2>1. worker'[t].pc = "hold" => worker[t].event \notin {"claim_ok", "result_ok"}
    BY <1>3 DEF TransitionLogged, AfterTransition, AfterError, Holds
  <2>2. HasEdge(worker[t].state, worker[t].event)
        /\ tasks[t] = NextState(worker[t].state, worker[t].event)
    BY <1>3 DEF TransitionLogged, Control
  <2>3. worker'[t].pc = "hold" => tasks[t] = "needs-human"
    BY <1>3, <2>1, <2>2, CarriedState, AutomaticEdges DEF TransitionLogged
  <2> QED
    BY <1>3, <2>3 DEF TransitionLogged, Notified
<1>4. CASE TransitionFailed(t)
  <2>1. ctxDone
    BY <1>4, EdgeAtUpsert DEF TransitionFailed, CanFail, Replayable
  <2> QED
    BY <1>4, <1>d, <2>1 DEF TransitionFailed, Notified
<1>5. CASE Comments(t)
  BY <1>5 DEF Comments, Notified
<1>6. CASE \/ GivesUp(t) \/ DispatchLogged(t) \/ Provisioned(t) \/ ActLogged(t)
           \/ Started(t) \/ Scored(t) \/ Counts(t)
  <2>1. tasks'[t] = tasks[t] /\ held'[t] = held[t] /\ worker'[t].pc # "hold"
    BY <1>6 DEF GivesUp, DispatchLogged, Provisioned, ActLogged, Started, Scored, Counts
  <2> QED
    BY <2>1 DEF Notified
<1> QED
  BY <1>d, <1>1, <1>2, <1>3, <1>4, <1>5, <1>6 DEF Does

(***************************************************************************)
(* The steps that are not a goroutine's own.                               *)
(***************************************************************************)

\* A step that leaves the record of s alone.
Rests(s) ==
  /\ KeepsStore(s) /\ KeepsCounts(s) /\ KeepsPlace(s)
  /\ \/ worker'[s] = worker[s]
     \/ worker'[s].pc \in {"idle", "persist", "exit"} /\ worker'[s].event \notin HumanEvent

LEMMA GoroutineRests ==
  ASSUME TypeOK, NEW t \in Task, Goroutine(t), NEW s \in Task \ {t}
  PROVE  /\ Rests(s) /\ worker'[s] = worker[s] /\ UNCHANGED loop
         /\ s \in inFlight' <=> s \in inFlight
<1> USE DEF TypeOK, store, world
<1>1. Untouched(s)
  BY GoroutineFrame
<1>2. agents'[s] = agents[s] /\ worktree'[s] = worktree[s] /\ held'[s] = held[s]
  BY DEF Goroutine, RunTask, Persist, JournalDispatch, Provision, TransitionUpsert,
     TransitionRowWrite, JournalSpawn, StartAgent, AgentExits, RecordRun, StoreResult,
     OpenPR, JournalPR, RunVerify, JournalGates, JournalVerifyError, JournalProbe,
     HoldComment, ReleaseSlot, WorkerDone
<1>3. UNCHANGED loop
  BY RunTaskMoves DEF Goroutine, ReleaseSlot, WorkerDone
<1>4. s \in inFlight' <=> s \in inFlight
  BY DEF Goroutine, RunTask, Persist, JournalDispatch, Provision, TransitionUpsert,
     TransitionRowWrite, JournalSpawn, StartAgent, AgentExits, RecordRun, StoreResult,
     OpenPR, JournalPR, RunVerify, JournalGates, JournalVerifyError, JournalProbe,
     HoldComment, ReleaseSlot, WorkerDone
<1> QED
  BY <1>1, <1>2, <1>3, <1>4 DEF Rests, Untouched, KeepsStore, KeepsCounts, KeepsPlace

LEMMA OthersRest ==
  ASSUME TypeOK, NEW s \in Task, Replayable(s),
         \/ ReleaseSlot(s) \/ WorkerDone(s) \/ \E t \in Task : Launch(t)
         \/ Crash \/ Poll \/ LoadDone \/ LaunchDone \/ Wait \/ Tick \/ Stop \/ Sigterm \/ Restart
         \/ \E t \in Task : Load(t) \/ Assign(t) \/ Unassign(t) \/ OrphanExits(t)
         \/ UNCHANGED vars
  PROVE  Rests(s)
<1> USE DEF Rests, KeepsStore, KeepsCounts, KeepsPlace, store, world
<1>n. NoWorker.pc = "idle" /\ NoWorker.event \notin HumanEvent
  BY DEF NoWorker, HumanEvent
<1>1. CASE ReleaseSlot(s) \/ WorkerDone(s)
  <2>1. worker'[s].pc \in {"exit", "idle"} /\ worker'[s].event \notin HumanEvent
    <3>1. CASE ReleaseSlot(s)
      BY <3>1 DEF ReleaseSlot, Goto, TypeOK, Worker, Replayable
    <3>2. CASE WorkerDone(s)
      <4>1. worker'[s] = NoWorker
        BY <3>2 DEF WorkerDone, TypeOK
      <4> QED
        BY <1>n, <4>1
    <3> QED
      BY <1>1, <3>1, <3>2
  <2> QED
    BY <1>1, <2>1 DEF ReleaseSlot, WorkerDone
<1>2. CASE \E t \in Task : Launch(t)
  <2>1. \/ worker'[s] = worker[s]
        \/ worker'[s].pc = "persist" /\ worker'[s].event \notin HumanEvent
    BY <1>2 DEF Launch, NoWorker, TypeOK, HumanEvent
  <2> QED
    BY <1>2, <2>1 DEF Launch
<1>3. CASE Crash
  BY <1>3, <1>n DEF Crash
<1>4. CASE \/ Poll \/ LoadDone \/ LaunchDone \/ Wait \/ Tick \/ Stop \/ Sigterm \/ Restart
           \/ \E t \in Task : Load(t) \/ Assign(t) \/ Unassign(t) \/ OrphanExits(t)
           \/ UNCHANGED vars
  <2>1. UNCHANGED <<worker, journal, tasks, runs, agents, prs, held, worktree>>
    BY <1>4, OthersFrame DEF vars, Poll, Load, LoadDone, LaunchDone, Wait, Tick, Stop,
       Sigterm, Restart, Assign, Unassign, OrphanExits
  <2> QED
    BY <2>1
<1> QED
  BY <1>1, <1>2, <1>3, <1>4

LEMMA RecordFrame ==
  ASSUME NEW s \in Task, Pristine(s), Counted(s), Accountable(s), Replayable(s), Rests(s)
  PROVE  Pristine(s)' /\ Counted(s)' /\ Accountable(s)' /\ Replayable(s)'
<1> USE DEF Rests, KeepsStore, KeepsCounts, KeepsPlace
<1>1. \A act, by : Journaled(s, act, by) <=> Journaled(s, act, by)'
  BY DEF Journaled
<1>2. Pristine(s)'
  BY DEF Pristine
<1>3. Counted(s)'
  BY DEF Counted, Unstarted
<1>4. Accountable(s)'
  BY <1>1 DEF Accountable, ClaimedLabel
<1>5. Replayable(s)'
  BY DEF Replayable, ClaimedLabel
<1> QED
  BY <1>2, <1>3, <1>4, <1>5

\* LoadTask's answer is still true when the contract is launched.
LEMMA UndispatchedOthers ==
  ASSUME SlotsInv, PendingInv, "load" \notin Faults, NEW s \in Task, Undispatched(s),
         \/ ReleaseSlot(s) \/ WorkerDone(s) \/ \E t \in Task : Launch(t)
         \/ Crash \/ Poll \/ LoadDone \/ LaunchDone \/ Wait \/ Tick \/ Stop \/ Sigterm \/ Restart
         \/ \E t \in Task : Load(t) \/ Assign(t) \/ Unassign(t) \/ OrphanExits(t)
         \/ UNCHANGED vars
  PROVE  Undispatched(s)'
<1> USE DEF store, world, loop, Undispatched
<1>t. worker \in [Task -> Worker]
  BY DEF SlotsInv, TypeOK
<1>1. CASE ReleaseSlot(s) \/ WorkerDone(s)
  <2>1. worker'[s].pc \in {"exit", "idle"}
    BY <1>1, <1>t DEF ReleaseSlot, WorkerDone, Goto, Worker, NoWorker
  <2> QED
    BY <1>1, <2>1 DEF ReleaseSlot, WorkerDone
<1>2. ASSUME NEW t \in Task, Launch(t) PROVE Undispatched(s)'
  <2>1. CASE t = s
    BY <1>2, <2>1 DEF Launch
  <2>2. CASE t # s
    <3>1. worker'[s] = worker[s] /\ pending' \subseteq pending /\ UNCHANGED <<tasks, ctxDone>>
      BY <1>2, <1>t, <2>2 DEF Launch
    <3> QED
      BY <3>1
  <2> QED
    BY <2>1, <2>2
<1>3. CASE Crash
  BY <1>3 DEF Crash, NoWorker
<1>4. CASE \E t \in Task : Load(t)
  BY <1>4 DEF Load, CanFail
<1>5. CASE Restart
  <2>1. Alive = {} /\ pending = {}
    BY <1>5 DEF Restart, SlotsInv, SlotsAccounted, PendingInv
  <2>2. worker[s].pc = "idle"
    BY <2>1 DEF Alive
  <2> QED
    BY <1>5, <2>1, <2>2 DEF Restart
<1>6. CASE \/ Poll \/ LoadDone \/ LaunchDone \/ Wait \/ Tick \/ Stop \/ Sigterm
           \/ \E t \in Task : Assign(t) \/ Unassign(t) \/ OrphanExits(t)
           \/ UNCHANGED vars
  <2>1. UNCHANGED <<worker, tasks, pending>> /\ (ctxDone' = ctxDone \/ ctxDone' = TRUE)
    BY <1>6 DEF vars, Poll, LoadDone, LaunchDone, Wait, Tick, Stop, Sigterm, Assign, Unassign, OrphanExits
  <2> QED
    BY <2>1
<1> QED
  BY <1>1, <1>2, <1>3, <1>4, <1>5, <1>6

\* A goroutine's step while an agent of its task is in flight: the goroutine
\* waits for it, or its context is cancelled.
LEMMA WatchedRunTask ==
  ASSUME TypeOK, NEW t \in Task, Control(t), Undispatched(t), Counted(t), Watched(t), RunTask(t)
  PROVE  Watched(t)'
<1> USE DEF store, world
<1>w. worker \in [Task -> Worker] /\ agents \in [Task -> Nat] /\ inFlight \subseteq Task
  BY DEF TypeOK
<1>l. "running" \in Label /\ "record" \in Label /\ "release" \in Label
  BY DEF Label
<1>c. ctxDone' = ctxDone
  BY RunTaskMoves DEF loop
<1>1. CASE StartAgent(t)
  <2>1. CASE /\ agents' = [agents EXCEPT ![t] = @ + 1]
             /\ inFlight' = inFlight \cup {t}
             /\ Goto(t, "running")
    <3>1. worker'[t].pc = "running" /\ agents'[t] > 0
      BY <1>w, <2>1 DEF Goto, Worker
    <3>2. tasks[t] = "in-progress" /\ runs[t] = 0 /\ prs[t] = 0
      BY <1>1 DEF StartAgent, At, Control, ClaimedLabel, Counted, Unstarted
    <3> QED
      BY <1>1, <3>1, <3>2 DEF StartAgent, Watched
  <2>2. CASE inFlight' = inFlight
    BY <1>1, <2>2 DEF StartAgent, At, Watched
  <2> QED
    BY <1>1, <2>1, <2>2 DEF StartAgent
<1>2. CASE AgentExits(t)
  <2>1. CASE t \in inFlight'
    <3>1. ctxDone /\ t \in inFlight
      BY <1>2, <2>1 DEF AgentExits
    <3>2. worker'[t].pc = "record"
      BY <1>2, <1>w DEF AgentExits, GotoWith, Worker
    <3> QED
      BY <1>2, <1>c, <3>1, <3>2 DEF AgentExits, Watched
  <2> QED
    BY <2>1 DEF Watched
<1>3. CASE Persist(t) \/ RecordRun(t)
  <2>1. SUFFICES ASSUME t \in inFlight PROVE Watched(t)'
    BY <1>3 DEF Persist, RecordRun, Watched
  <2>2. ctxDone
    BY <1>3, <2>1 DEF Persist, RecordRun, At, Watched, Undispatched
  <2>3. worker'[t].pc = "release" /\ UNCHANGED <<agents, inFlight, tasks, runs, prs>>
    BY <1>3, <1>w, <2>2 DEF Persist, RecordRun, CanWrite, Goto, Worker
  <2> QED
    BY <2>3 DEF Watched
<1>4. CASE \/ JournalDispatch(t) \/ Provision(t) \/ TransitionUpsert(t) \/ TransitionRowWrite(t)
           \/ JournalSpawn(t) \/ StoreResult(t) \/ OpenPR(t) \/ JournalPR(t) \/ RunVerify(t)
           \/ JournalGates(t) \/ JournalVerifyError(t) \/ JournalProbe(t) \/ HoldComment(t)
  <2>1. inFlight' = inFlight
    BY <1>4 DEF JournalDispatch, Provision, TransitionUpsert, TransitionRowWrite, JournalSpawn,
       StoreResult, OpenPR, JournalPR, RunVerify, JournalGates, JournalVerifyError,
       JournalProbe, HoldComment
  <2>2. t \notin inFlight
    BY <1>4 DEF JournalDispatch, Provision, TransitionUpsert, TransitionRowWrite, JournalSpawn,
       StoreResult, OpenPR, JournalPR, RunVerify, JournalGates, JournalVerifyError,
       JournalProbe, HoldComment, At, Watched
  <2> QED
    BY <2>1, <2>2 DEF Watched
<1> QED
  BY <1>1, <1>2, <1>3, <1>4 DEF RunTask

LEMMA WatchedOthers ==
  ASSUME SlotsInv, NEW s \in Task, Watched(s), Rests(s),
         \/ ReleaseSlot(s) \/ WorkerDone(s) \/ \E t \in Task : Launch(t)
         \/ Crash \/ Poll \/ LoadDone \/ LaunchDone \/ Wait \/ Tick \/ Stop \/ Sigterm \/ Restart
         \/ \E t \in Task : Load(t) \/ Assign(t) \/ Unassign(t) \/ OrphanExits(t)
         \/ UNCHANGED vars
  PROVE  Watched(s)'
<1> USE DEF store, world, loop
<1>1. s \in inFlight' => s \in inFlight
  BY DEF ReleaseSlot, WorkerDone, Launch, Crash, Poll, LoadDone, LaunchDone, Wait, Tick, Stop,
     Sigterm, Restart, Load, Assign, Unassign, OrphanExits, vars
<1>2. \/ worker'[s].pc \in {"idle", "persist", "exit"}
      \/ worker'[s] = worker[s] /\ (worker[s].pc = "record" /\ ctxDone => ctxDone')
  <2>1. CASE Restart
    <3>1. Alive = {} /\ worker' = worker
      BY <2>1 DEF Restart, SlotsInv, SlotsAccounted
    <3> QED
      BY <3>1 DEF Alive
  <2>2. CASE ~Restart
    <3>1. ctxDone => ctxDone'
      BY <2>2 DEF ReleaseSlot, WorkerDone, Launch, Crash, Poll, LoadDone, LaunchDone, Wait,
         Tick, Stop, Sigterm, Load, Assign, Unassign, OrphanExits, vars
    <3> QED
      BY <3>1 DEF Rests
  <2> QED
    BY <2>1, <2>2
<1> QED
  BY <1>1, <1>2 DEF Watched, Rests, KeepsStore, KeepsCounts

LEMMA PendingStep ==
  ASSUME TypeOK, PendingInv, [Next]_vars
  PROVE  PendingInv'
<1> USE DEF PendingInv, store, world, loop
<1>1. CASE Loop
  BY <1>1 DEF Loop, Poll, Load, LoadDone, Launch, LaunchDone, Wait, Tick, Stop, CycleOver
<1>2. CASE \E t \in Task : Goroutine(t)
  <2>1. UNCHANGED <<main, pending>>
    BY <1>2, RunTaskMoves DEF Goroutine, ReleaseSlot, WorkerDone
  <2> QED
    BY <2>1
<1>3. CASE Sigterm \/ Crash \/ Restart \/ \E t \in Task : Assign(t) \/ Unassign(t) \/ OrphanExits(t)
  BY <1>3 DEF Sigterm, Crash, Restart, Assign, Unassign, OrphanExits
<1>4. CASE UNCHANGED vars
  BY <1>4 DEF vars
<1> QED
  BY <1>1, <1>2, <1>3, <1>4 DEF Next

\* All that the record rests on.
FullInv == SlotsInv /\ ReviewInv /\ RecordInv

LEMMA RecordInit == Init => RecordInv
<1> SUFFICES ASSUME Init PROVE RecordInv
  OBVIOUS
<1>1. PendingInv
  BY DEF Init, PendingInv
<1>2. ASSUME NEW t \in Task PROVE Recorded(t)
  <2>1. /\ worker[t] = NoWorker /\ tasks[t] = "start" /\ journal[t] = <<>>
        /\ agents[t] = 0 /\ runs[t] = 0 /\ prs[t] = 0
    BY <1>2 DEF Init
  <2>2. NoWorker.pc = "idle" /\ NoWorker.event \notin HumanEvent
    BY DEF NoWorker, HumanEvent
  <2>3. Moves(<<>>) = {}
    BY DEF Moves
  <2> QED
    BY <2>1, <2>2, <2>3 DEF Recorded, Undispatched, Pristine, Counted, Unstarted, Accountable,
       Replayable, HasLast, Replays, ClaimedLabel, Watched, Init
<1> QED
  BY <1>1, <1>2 DEF RecordInv

LEMMA RecordStep ==
  ASSUME "load" \notin Faults, FullInv, [Next]_vars
  PROVE  RecordInv'
<1> USE DEF FullInv
<1>0. TypeOK /\ PendingInv
  BY DEF SlotsInv, RecordInv
<1>1. PendingInv'
  BY <1>0, PendingStep
<1>2. ASSUME NEW s \in Task PROVE Recorded(s)'
  <2>i. /\ Control(s) /\ Evidence(s)
        /\ Undispatched(s) /\ Pristine(s) /\ Counted(s) /\ Accountable(s) /\ Watched(s)
        /\ Replayable(s)
    BY <1>2 DEF ReviewInv, ControlInv, EvidenceInv, RecordInv, Recorded
  <2>1. CASE RunTask(s)
    <3>1. Does(s)
      BY <1>0, <2>1, RunTaskDoes
    <3> QED
      BY <1>0, <2>i, <2>1, <3>1, UndispatchedRunTask, PristineRunTask, CountedRunTask,
         AccountableRunTask, WatchedRunTask, ReplayableRunTask DEF Recorded
  <2>2. CASE \E t \in Task \ {s} : Goroutine(t)
    <3>1. /\ Rests(s) /\ worker'[s] = worker[s] /\ UNCHANGED loop
          /\ s \in inFlight' <=> s \in inFlight
      BY <1>0, <2>2, GoroutineRests
    <3>2. Undispatched(s)'
      BY <2>i, <3>1 DEF Undispatched, loop, Rests, KeepsStore
    <3>3. Watched(s)'
      BY <2>i, <3>1 DEF Watched, loop, Rests, KeepsStore, KeepsCounts
    <3> QED
      BY <2>i, <3>1, <3>2, <3>3, RecordFrame DEF Recorded
  <2>3. CASE \/ ReleaseSlot(s) \/ WorkerDone(s) \/ \E t \in Task : Launch(t)
             \/ Crash \/ Poll \/ LoadDone \/ LaunchDone \/ Wait \/ Tick \/ Stop \/ Sigterm \/ Restart
             \/ \E t \in Task : Load(t) \/ Assign(t) \/ Unassign(t) \/ OrphanExits(t)
             \/ UNCHANGED vars
    <3>1. Rests(s)
      BY <1>0, <2>i, <2>3, OthersRest
    <3>2. Undispatched(s)'
      BY <1>0, <2>i, <2>3, UndispatchedOthers
    <3>3. Watched(s)'
      BY <2>i, <2>3, <3>1, WatchedOthers
    <3> QED
      BY <2>i, <3>1, <3>2, <3>3, RecordFrame DEF Recorded
  <2> QED
    BY <2>1, <2>2, <2>3 DEF Next, Loop, Goroutine
<1> QED
  BY <1>1, <1>2 DEF RecordInv

(***************************************************************************)
(* Where LoadTask answers truthfully, the record of every contract is      *)
(* sound after any step, and so are the goroutines that write it.          *)
(***************************************************************************)
THEOREM RecordsAreSound ==
  ASSUME "load" \notin Faults
  PROVE  Spec => []FullInv
<1>1. Init => FullInv
  BY SlotsInit, ReviewInit, RecordInit DEF FullInv
<1>2. FullInv /\ [Next]_vars => FullInv'
  BY SlotsStep, ReviewStep, RecordStep DEF FullInv, SlotsInv
<1> QED
  BY <1>1, <1>2, PTL DEF Spec

(***************************************************************************)
(* One dispatch row, one agent and one PR at most per contract, through    *)
(* re-polls, restarts, crashes and failed writes (RFC-0001 AC-03, US-0012  *)
(* AC-12.6), for any number of contracts and any pool.                     *)
(***************************************************************************)
THEOREM ContractsRunOnce ==
  ASSUME "load" \notin Faults
  PROVE  Spec => []AtMostOnce
<1>1. FullInv => AtMostOnce
  BY DEF FullInv, RecordInv, Recorded, Counted, AtMostOnce
<1> QED
  BY <1>1, RecordsAreSound, PTL

(***************************************************************************)
(* An agent is only ever started for a task that is claimed, with its      *)
(* claim and session journaled, in a worktree that is there (ADR-0006),    *)
(* and while it is in flight, of this process or of one that crashed or    *)
(* was stopped, no run is recorded and no PR opened for its task.          *)
(***************************************************************************)
THEOREM AgentsAreAccountable ==
  ASSUME "load" \notin Faults
  PROVE  Spec => []AgentAccountable
<1>1. FullInv => AgentAccountable
  BY DEF FullInv, RecordInv, Recorded, Accountable, Watched, AgentAccountable
<1> QED
  BY <1>1, RecordsAreSound, PTL

(***************************************************************************)
(* Every journal is a path of the transition table from (start), in seq    *)
(* order and without a gap, whatever crashed or failed (RFC-0001           *)
(* §Journal).                                                              *)
(***************************************************************************)
THEOREM JournalsReplay ==
  ASSUME "load" \notin Faults
  PROVE  Spec => []JournalReplays
<1>1. FullInv => JournalReplays
  <2> SUFFICES ASSUME FullInv, NEW t \in Task
               PROVE  \A i \in Transitions(t) :
                        LET row   == journal[t][i]
                            prior == {j \in Transitions(t) : j < i}
                        IN  /\ Edge(row.from, row.act, row.to) \in table
                            /\ IF prior = {} THEN row.from = "start"
                               ELSE \E j \in prior : /\ journal[t][j].to = row.from
                                                     /\ \A k \in prior : k <= j
    BY DEF JournalReplays
  <2>1. Transitions(t) = Moves(journal[t])
    BY DEF Transitions, Moves
  <2>2. Replays(journal[t])
    BY DEF FullInv, RecordInv, Recorded, Replayable
  <2> QED
    BY <2>1, <2>2 DEF Replays
<1> QED
  BY <1>1, RecordsAreSound, PTL

(***************************************************************************)
(* A task that reached a human is left alone: no step of this process or a *)
(* later one moves it, runs it again or opens another PR for it (RFC-0001  *)
(* decision 3).                                                            *)
(***************************************************************************)
THEOREM HumansAreNotOverruled ==
  ASSUME "load" \notin Faults
  PROVE  Spec => NoAutoRetry
<1> DEFINE Left(s) == tasks'[s] = tasks[s] /\ agents'[s] = agents[s] /\ prs'[s] = prs[s]
<1>1. ASSUME FullInv, [Next]_vars, NEW s \in Task, tasks[s] \in {"needs-human", "in-review"}
      PROVE  Left(s)
  <2>i. /\ TypeOK /\ Control(s) /\ Undispatched(s) /\ Replayable(s)
    BY <1>1 DEF FullInv, SlotsInv, ReviewInv, ControlInv, RecordInv, Recorded
  <2>1. CASE RunTask(s)
    <3>1. Does(s)
      BY <2>i, <2>1, RunTaskDoes
    <3>2. /\ worker[s].pc \notin ClaimedLabel \cup {"dispatch", "provision", "upsert"}
          /\ worker[s].pc = "persist" => ctxDone
      BY <1>1, <2>i, CarriedState DEF Control, Undispatched
    <3> QED
      BY <3>1, <3>2 DEF Does, GivesUp, Dispatched, DispatchLogged, Provisioned, Upserted,
         TransitionLogged, TransitionFailed, ActLogged, Started, Scored, Counts, Comments,
         Goes, KeepsStore, KeepsCounts, ClaimedLabel
  <2>2. CASE \E t \in Task \ {s} : Goroutine(t)
    BY <2>i, <2>2, GoroutineRests DEF Rests, KeepsStore, KeepsCounts
  <2>3. CASE \/ ReleaseSlot(s) \/ WorkerDone(s) \/ \E t \in Task : Launch(t)
             \/ Crash \/ Poll \/ LoadDone \/ LaunchDone \/ Wait \/ Tick \/ Stop \/ Sigterm \/ Restart
             \/ \E t \in Task : Load(t) \/ Assign(t) \/ Unassign(t) \/ OrphanExits(t)
             \/ UNCHANGED vars
    BY <2>i, <2>3, OthersRest DEF Rests, KeepsStore, KeepsCounts
  <2> QED
    BY <1>1, <2>1, <2>2, <2>3 DEF Next, Loop, Goroutine
<1>2. FullInv /\ [Next]_vars =>
        [\A t \in Task : tasks[t] \in {"needs-human", "in-review"} => Left(t)]_vars
  BY <1>1
<1> QED
  BY <1>2, RecordsAreSound, PTL DEF Spec, NoAutoRetry

(***************************************************************************)
(* Where no store write fails but under a cancelled context, a hold        *)
(* comment is true: its task is in needs-human (holdForHuman).             *)
(***************************************************************************)
LEMMA NotifiedStep ==
  ASSUME "store" \notin Faults, FullInv, NotifiedInv, [Next]_vars
  PROVE  NotifiedInv'
<1> SUFFICES ASSUME NEW s \in Task PROVE Notified(s)'
  BY DEF NotifiedInv
<1>i. /\ TypeOK /\ SlotsInv /\ Control(s) /\ Undispatched(s) /\ Replayable(s) /\ Notified(s)
  BY DEF FullInv, SlotsInv, ReviewInv, ControlInv, RecordInv, Recorded, NotifiedInv
<1>1. CASE RunTask(s)
  BY <1>i, <1>1, NotifiedRunTask
<1>2. CASE \E t \in Task \ {s} : Goroutine(t)
  BY <1>i, <1>2, GoroutineRests DEF Rests, KeepsStore, KeepsPlace, Notified, loop
<1>3. CASE \/ ReleaseSlot(s) \/ WorkerDone(s) \/ \E t \in Task : Launch(t)
           \/ Crash \/ Poll \/ LoadDone \/ LaunchDone \/ Wait \/ Tick \/ Stop \/ Sigterm \/ Restart
           \/ \E t \in Task : Load(t) \/ Assign(t) \/ Unassign(t) \/ OrphanExits(t)
           \/ UNCHANGED vars
  <2>1. Rests(s)
    BY <1>i, <1>3, OthersRest
  <2>2. ~ctxDone' => ~ctxDone \/ worker[s].pc # "hold"
    <3>1. CASE Restart
      BY <1>i, <3>1 DEF Restart, SlotsInv, SlotsAccounted, Alive
    <3>2. CASE ~Restart
      BY <1>3, <3>2 DEF ReleaseSlot, WorkerDone, Launch, Crash, Poll, LoadDone, LaunchDone,
         Wait, Tick, Stop, Sigterm, Load, Assign, Unassign, OrphanExits, vars, loop
    <3> QED
      BY <3>1, <3>2
  <2> QED
    BY <1>i, <2>1, <2>2 DEF Rests, KeepsStore, KeepsPlace, Notified
<1> QED
  BY <1>1, <1>2, <1>3 DEF Next, Loop, Goroutine

\* A hold comment speaks of a task that needs a human, where no store write fails
\* but under a cancelled context (holdForHuman, serve.go 361-376).
THEOREM HoldCommentsAreTrue ==
  ASSUME "load" \notin Faults, "store" \notin Faults
  PROVE  Spec => []HoldCommentTrue
<1>1. Init => NotifiedInv
  BY DEF Init, NoWorker, NotifiedInv, Notified
<1>2. FullInv /\ NotifiedInv /\ [Next]_vars => NotifiedInv'
  BY NotifiedStep
<1>3. NotifiedInv => HoldCommentTrue
  BY DEF NotifiedInv, Notified, HoldCommentTrue
<1> QED
  BY <1>1, <1>2, <1>3, RecordsAreSound, PTL DEF Spec

(***************************************************************************)
(* The refinement.                                                         *)
(***************************************************************************)

LEMMA LoggedIsLastTo ==
  ASSUME NEW t \in Task
  PROVE  Logged(t) = LastTo(journal[t]) /\ Logged(t)' = LastTo(journal'[t])
BY DEF Logged, LastTo, Transitions, Moves

\* A step of t's goroutine is a move of its task, the row for the last one,
\* or neither.
LEMMA RecordMoves ==
  ASSUME TypeOK, NEW t \in Task, Control(t), Undispatched(t), Pristine(t), Counted(t),
         Replayable(t), Does(t)
  PROVE  \/ /\ Logged(t) = tasks[t] /\ Logged(t)' = Logged(t)
            /\ \E event \in Event \ HumanEvent :
                 HasEdge(tasks[t], event) /\ tasks'[t] = NextState(tasks[t], event)
         \/ Logged(t) # tasks[t] /\ Logged(t)' = tasks[t] /\ tasks'[t] = tasks[t]
         \/ Logged(t)' = Logged(t) /\ tasks'[t] = tasks[t]
<1>t. /\ journal[t] \in Seq(Row) /\ worker[t].state \in State /\ worker[t].event \in Event
      /\ HasLast(journal[t])
  BY DEF TypeOK, Worker, Replayable
<1>m. LastTo(<<>>) = "start"
  BY DEF LastTo, Moves
<1>1. CASE Dispatched(t)
  <2>1. tasks[t] = "start" /\ journal[t] = <<>> /\ journal'[t] = journal[t] /\ tasks'[t] = "queued"
    BY <1>1 DEF Dispatched, Goes, Undispatched, Pristine
  <2>2. /\ "dispatch" \in Event \ HumanEvent /\ HasEdge("start", "dispatch")
        /\ NextState("start", "dispatch") = "queued"
    BY EdgesTaken DEF Event, HumanEvent, HasEdge, table, Edge
  <2> QED
    BY <1>m, <2>1, <2>2, LoggedIsLastTo
<1>2. CASE DispatchLogged(t)
  <2>1. /\ worker[t].state = "queued" /\ tasks[t] = "queued" /\ journal[t] = <<>>
        /\ tasks'[t] = tasks[t]
    BY <1>2 DEF DispatchLogged, Goes, Control, Counted
  <2>2. PICK row \in Row : row.to = "queued" /\ journal'[t] = Append(journal[t], row)
    BY <1>2, <2>1, RowTypes DEF DispatchLogged, Logs, TransitionRow, Event, State
  <2>3. LastTo(journal'[t]) = "queued"
    BY <1>t, <2>2, OneMoreTransition DEF None
  <2> QED
    BY <1>m, <2>1, <2>3, LoggedIsLastTo
<1>3. CASE Upserted(t)
  <2>1. worker[t].pc = "upsert" /\ tasks[t] = worker[t].state /\ LastTo(journal[t]) = tasks[t]
    BY <1>3 DEF Upserted, Goes, Control, Replayable
  <2>2. /\ HasEdge(tasks[t], worker[t].event) /\ worker[t].event \in Event \ HumanEvent
        /\ tasks'[t] = NextState(tasks[t], worker[t].event) /\ journal'[t] = journal[t]
    BY <1>3, <2>1, CarriedState DEF Upserted
  <2> QED
    BY <2>1, <2>2, LoggedIsLastTo
<1>4. CASE TransitionLogged(t)
  <2>1. /\ worker[t].pc = "transition" /\ HasEdge(worker[t].state, worker[t].event)
        /\ tasks[t] = NextState(worker[t].state, worker[t].event)
        /\ LastTo(journal[t]) = worker[t].state /\ tasks'[t] = tasks[t]
    BY <1>4 DEF TransitionLogged, Goes, Control, Replayable
  <2>2. tasks[t] # worker[t].state /\ tasks[t] \in State
    BY <2>1, CarriedState, AutomaticEdges, ZenonT(40) DEF TypeOK
  <2>3. PICK row \in Row : row.to = tasks[t] /\ journal'[t] = Append(journal[t], row)
    BY <1>4, <1>t, <2>1, <2>2, RowTypes DEF TransitionLogged, Logs, TransitionRow
  <2>4. LastTo(journal'[t]) = tasks[t]
    BY <1>t, <2>2, <2>3, OneMoreTransition DEF State, None
  <2> QED
    BY <2>1, <2>2, <2>4, LoggedIsLastTo
<1>5. CASE ActLogged(t)
  <2>1. PICK act \in PlainAct, by \in Identity : journal'[t] = Append(journal[t], ActRow(act, by))
    BY <1>5 DEF ActLogged, Logs
  <2>2. ActRow(act, by) \in Row /\ ActRow(act, by).to = None
    BY RowTypes DEF ActRow, PlainAct, Act
  <2>3. LastTo(journal'[t]) = LastTo(journal[t])
    BY <1>t, <2>1, <2>2, PlainRow
  <2> QED
    BY <1>5, <2>3, LoggedIsLastTo DEF ActLogged
<1>6. CASE \/ GivesUp(t) \/ Provisioned(t) \/ TransitionFailed(t) \/ Started(t)
           \/ Scored(t) \/ Counts(t) \/ Comments(t)
  <2>1. tasks'[t] = tasks[t] /\ journal'[t] = journal[t]
    BY <1>6 DEF GivesUp, Provisioned, TransitionFailed, Started, Scored, Counts, Comments,
       KeepsStore
  <2> QED
    BY <2>1, LoggedIsLastTo
<1> QED
  BY <1>1, <1>2, <1>3, <1>4, <1>5, <1>6 DEF Does

\* TaskRecord reads the table that the daemon reads.
LEMMA SameTable ==
  /\ Record!Event = Event /\ Record!HumanEvent = HumanEvent
  /\ \A s, event : Record!HasEdge(s, event) <=> HasEdge(s, event)
  /\ \A s, event : Record!NextState(s, event) = NextState(s, event)
<1>1. Record!table = table
  BY DEF Record!table, table, Record!Edge, Edge
<1>2. \A s, event : Record!HasEdge(s, event) <=> HasEdge(s, event)
  BY <1>1 DEF Record!HasEdge, HasEdge
<1>3. \A s, event : Record!NextState(s, event) = NextState(s, event)
  BY <1>1, <1>2 DEF Record!NextState, NextState
<1> QED
  BY <1>2, <1>3 DEF Record!Event, Event, Record!HumanEvent, HumanEvent

LEMMA StepImplementsRecord ==
  ASSUME "load" \notin Faults, FullInv, [Next]_vars
  PROVE  [Record!Next]_<<tasks, [t \in Task |-> Logged(t)]>>
<1> DEFINE logged == [t \in Task |-> Logged(t)]
<1>i. /\ TypeOK
      /\ \A t \in Task : /\ Control(t) /\ Undispatched(t) /\ Pristine(t)
                         /\ Counted(t) /\ Replayable(t)
  BY DEF FullInv, SlotsInv, ReviewInv, ControlInv, RecordInv, Recorded
<1>t. tasks \in [Task -> State] /\ tasks' \in [Task -> State]
  BY <1>i, TypeRest DEF TypeOK
\* What leaves the two columns of every task alone stutters.
<1>s. ASSUME \A s \in Task : KeepsStore(s)
      PROVE  tasks' = tasks /\ logged' = logged
  <2>1. tasks' = tasks
    BY <1>s, <1>t DEF KeepsStore
  <2>2. \A s \in Task : Logged(s)' = Logged(s)
    BY <1>s, LoggedIsLastTo DEF KeepsStore
  <2> QED
    BY <2>1, <2>2
<1>1. ASSUME NEW t \in Task, RunTask(t)
      PROVE  [Record!Next]_<<tasks, logged>>
  <2>1. Does(t)
    BY <1>1, <1>i, RunTaskDoes
  <2>2. \A s \in Task \ {t} : KeepsStore(s)
    BY <1>1, <1>i, GoroutineRests DEF Goroutine, Rests
  <2>3. \A s \in Task \ {t} : tasks'[s] = tasks[s] /\ Logged(s)' = Logged(s)
    BY <2>2, LoggedIsLastTo DEF KeepsStore
  <2>4. CASE /\ Logged(t) = tasks[t] /\ Logged(t)' = Logged(t)
             /\ \E event \in Event \ HumanEvent :
                  HasEdge(tasks[t], event) /\ tasks'[t] = NextState(tasks[t], event)
    <3>1. PICK event \in Event \ HumanEvent :
            HasEdge(tasks[t], event) /\ tasks'[t] = NextState(tasks[t], event)
      BY <2>4
    <3>2. logged' = logged /\ logged[t] = tasks[t]
      BY <2>3, <2>4
    <3>3. tasks' = [tasks EXCEPT ![t] = NextState(tasks[t], event)]
      BY <1>t, <2>3, <3>1
    <3>4. Record!Advance(t)
      BY <3>1, <3>2, <3>3, SameTable DEF Record!Advance
    <3> QED
      BY <3>4 DEF Record!Next
  <2>5. CASE Logged(t) # tasks[t] /\ Logged(t)' = tasks[t] /\ tasks'[t] = tasks[t]
    <3>1. tasks' = tasks
      BY <1>t, <2>3, <2>5
    <3>2. logged' = [logged EXCEPT ![t] = tasks[t]] /\ logged[t] # tasks[t]
      BY <2>3, <2>5
    <3>3. Record!Log(t)
      BY <3>1, <3>2 DEF Record!Log
    <3> QED
      BY <3>3 DEF Record!Next
  <2>6. CASE Logged(t)' = Logged(t) /\ tasks'[t] = tasks[t]
    <3>1. tasks' = tasks /\ logged' = logged
      BY <1>t, <2>3, <2>6
    <3> QED
      BY <3>1
  <2> QED
    BY <1>i, <2>1, <2>4, <2>5, <2>6, RecordMoves
<1>2. ASSUME NEW t \in Task, ReleaseSlot(t) \/ WorkerDone(t)
      PROVE  [Record!Next]_<<tasks, logged>>
  <2>1. \A s \in Task : KeepsStore(s)
    BY <1>2 DEF ReleaseSlot, WorkerDone, KeepsStore, store
  <2> QED
    BY <1>s, <2>1
<1>3. CASE \/ \E t \in Task : Launch(t)
           \/ Crash \/ Poll \/ LoadDone \/ LaunchDone \/ Wait \/ Tick \/ Stop \/ Sigterm \/ Restart
           \/ \E t \in Task : Load(t) \/ Assign(t) \/ Unassign(t) \/ OrphanExits(t)
           \/ UNCHANGED vars
  <2>1. \A s \in Task : KeepsStore(s)
    BY <1>3, <1>i, OthersRest DEF Rests
  <2> QED
    BY <1>s, <2>1
<1> QED
  BY <1>1, <1>2, <1>3 DEF Next, Loop, Goroutine

(***************************************************************************)
(* The tasks table and the journal implement TaskRecord: the state column  *)
(* moves along automatic edges only, each move journaled before the next,  *)
(* whatever fails, crashes or is restarted (transition, serve.go 346-359). *)
(***************************************************************************)
THEOREM ServeImplementsTaskRecord ==
  ASSUME "load" \notin Faults
  PROVE  Spec => ImplementsTaskRecord
<1>1. Init => Record!Init
  <2> SUFFICES ASSUME Init PROVE Record!Init
    OBVIOUS
  <2>1. \A t \in Task : Logged(t) = "start"
    BY DEF Init, Logged, Transitions
  <2> QED
    BY <2>1 DEF Init, Record!Init
<1>2. FullInv /\ [Next]_vars => [Record!Next]_<<tasks, [t \in Task |-> Logged(t)]>>
  BY StepImplementsRecord
<1> QED
  BY <1>1, <1>2, RecordsAreSound, PTL DEF Spec, ImplementsTaskRecord, Record!Spec
=============================================================================
