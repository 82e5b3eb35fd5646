-------------------------- MODULE ServeProperties --------------------------
(***************************************************************************)
(* What the daemon promises, stated over the state of Serve.               *)
(***************************************************************************)
EXTENDS Serve

\* Every variable of the daemon ranges over its domain.
TypeOK ==
  /\ tasks \in [Task -> State]
  /\ journal \in [Task -> Seq(Row)]
  /\ runs \in [Task -> Nat] /\ results \in [Task -> Nat]
  /\ agents \in [Task -> Nat] /\ prs \in [Task -> Nat]
  /\ inFlight \subseteq Task
  /\ assigned \subseteq Task /\ contracts \subseteq Task /\ pending \subseteq Task
  /\ worktree \in [Task -> BOOLEAN]
  /\ work \in [Task -> Work]
  /\ held \in [Task -> BOOLEAN]
  /\ main \in {"poll", "load", "launch", "wait", "tick", "stopped"}
  /\ sem \in Nat /\ wg \in Nat
  /\ worker \in [Task -> Worker]
  /\ ctxDone \in BOOLEAN

Journaled(t, act, by) ==
  \E i \in DOMAIN journal[t] : journal[t][i].act = act /\ journal[t][i].by = by

(***************************************************************************)
(* A task rests in in-review only if its agent ran and was recorded, the   *)
(* Dev agent user opened a PR, the work shares history with its base and   *)
(* stays inside the remit, is green under every configured gate, and the   *)
(* journal holds the act of each of the two identities, which differ.      *)
(* (runTask's composition of the runner's and the verifier's result_ok,    *)
(* serve.go 264-286, over every failed write, crash and restart.)          *)
(***************************************************************************)
Certified(t) ==
  /\ runs[t] > 0 /\ results[t] > 0 /\ prs[t] > 0
  /\ work[t] = "clean" \/ (work[t] = "red" /\ NumGates = 0)
  /\ Reviewer # DevUser
  /\ Journaled(t, "run_spawn", DevUser)
  /\ Journaled(t, "pr_opened", DevUser)
  /\ NumGates > 0 => Journaled(t, "gate_rerun", Reviewer)
  /\ Journaled(t, "probe_pr_exists", Reviewer)

ReviewCertified == \A t \in Task : tasks[t] = "in-review" => Certified(t)

(***************************************************************************)
(* One dispatch row, one agent process and one PR at most per contract,    *)
(* through re-polls, restarts, crashes and failed writes, as long as       *)
(* LoadTask answers truthfully (RFC-0001 AC-03, US-0012 AC-12.6).          *)
(***************************************************************************)
AtMostOnce ==
  \A t \in Task :
    /\ agents[t] <= 1 /\ prs[t] <= 1 /\ runs[t] <= 1
    /\ \A i, j \in DOMAIN journal[t] :
         journal[t][i].act = "dispatch" /\ journal[t][j].act = "dispatch" => i = j

(***************************************************************************)
(* Admission, of one process: the agents its goroutines wait for are never *)
(* more than the pool, nor than the reservations max_usd_per_run that fit  *)
(* under an explicit max_usd_in_flight (dispatchLimit, US-0012 AC-12.8).   *)
(* It is a bound on those agents only.  The semaphore is as new as its     *)
(* process: an agent that outlives a crashed or stopped daemon is counted  *)
(* by no later one, so that after a restart the agents in flight, and what *)
(* they spend, can exceed the pool and the ceiling.                        *)
(***************************************************************************)
Supervised == {t \in inFlight : At(t, "running")}

BudgetAdmission ==
  /\ PoolSize > 0 => Cardinality(Supervised) <= PoolSize
  /\ MaxUSDInFlight > 0 => Cardinality(Supervised) * MaxUSDPerRun <= MaxUSDInFlight

(***************************************************************************)
(* The transition rows of a task, in seq order, are a path of the          *)
(* transition table from (start): the journal can be replayed (RFC-0001    *)
(* §Journal), and a row lost to a crash or a failed append can only be the *)
(* last one.                                                               *)
(***************************************************************************)
Transitions(t) == {i \in DOMAIN journal[t] : journal[t][i].to # None}

JournalReplays ==
  \A t \in Task : \A i \in Transitions(t) :
    LET row   == journal[t][i]
        prior == {j \in Transitions(t) : j < i}
    IN  /\ Edge(row.from, row.act, row.to) \in table
        /\ IF prior = {} THEN row.from = "start"
           ELSE \E j \in prior : /\ journal[t][j].to = row.from
                                 /\ \A k \in prior : k <= j

(***************************************************************************)
(* The tasks table and the journal implement TaskRecord: the state column  *)
(* takes automatic edges of the table only, and is ahead of the journal by *)
(* the one edge whose row is not written yet (transition, serve.go         *)
(* 346-359), whatever fails, crashes or is restarted.                      *)
(***************************************************************************)
Logged(t) ==
  IF Transitions(t) = {} THEN "start"
  ELSE journal[t][CHOOSE i \in Transitions(t) : \A j \in Transitions(t) : j <= i].to

Record == INSTANCE TaskRecord
            WITH state <- tasks, logged <- [t \in Task |-> Logged(t)]

ImplementsTaskRecord == Record!Spec

(***************************************************************************)
(* A hold comment on the work item is true: the task is in needs-human     *)
(* (holdForHuman), over crashes and SIGTERM; a failing store write breaks  *)
(* it, because the comment is posted whether or not the transition was.    *)
(***************************************************************************)
HoldCommentTrue ==
  \A t \in Task : held[t] => tasks[t] = "needs-human"

(***************************************************************************)
(* The semaphore and the wait group count exactly the goroutines that are  *)
(* alive: no slot leaks on an early return, no cycle starts or ends over a *)
(* live goroutine, and no contract waits for launch while its goroutine of *)
(* an earlier launch still runs (drain-per-cycle, US-0012 AC-12.6).        *)
(***************************************************************************)
Alive   == {t \in Task : worker[t].pc # "idle"}
Holding == {t \in Task : worker[t].pc \notin {"idle", "exit"}}

SlotsAccounted ==
  /\ wg = Cardinality(Alive)
  /\ sem = Cardinality(Holding)
  /\ sem <= dispatchLimit
  /\ main \notin {"launch", "wait"} => Alive = {}
  /\ pending \cap Alive = {}

(***************************************************************************)
(* No auto-retry: a task that reached a human (needs-human or in-review)   *)
(* is never moved, rerun or given another PR by the daemon (RFC-0001       *)
(* decision 3), in this process or a later one.                            *)
(***************************************************************************)
NoAutoRetry ==
  [][\A t \in Task : tasks[t] \in {"needs-human", "in-review"} =>
       tasks'[t] = tasks[t] /\ agents'[t] = agents[t] /\ prs'[t] = prs[t]]_vars

(***************************************************************************)
(* An agent process is only started for a task that is claimed, whose      *)
(* claim and session are journaled, and into a worktree of its own: what a *)
(* crash of the daemon leaves running is addressable (ADR-0006).  And as   *)
(* long as it is in flight, with or without the daemon that started it,    *)
(* its task stays in-progress, no run of it is recorded and no PR opened:  *)
(* nobody takes for finished what is still being written.                  *)
(***************************************************************************)
AgentAccountable ==
  \A t \in Task :
    /\ agents[t] > 0 =>
         /\ worktree[t]
         /\ Journaled(t, "claim_ok", SystemOrchestrator)
         /\ Journaled(t, "run_spawn", DevUser)
         /\ tasks[t] \notin {"start", "queued"}
    /\ t \in inFlight =>
         agents[t] > 0 /\ tasks[t] = "in-progress" /\ runs[t] = 0 /\ prs[t] = 0

----------------------------------------------------------------------------
(* Liveness.  The Go scheduler runs every goroutine that can run, agent    *)
(* processes and HTTP calls return, the ticker fires, and a poll succeeds  *)
(* again and again.                                                        *)
PollSucceeds == Poll /\ main' = "load"

Fairness ==
  /\ WF_vars(Loop)
  /\ SF_vars(PollSucceeds)
  /\ SF_vars(Stop)
  /\ WF_vars(Restart)
  /\ \A t \in Task : WF_vars(Goroutine(t))

FairSpec == Spec /\ Fairness

(***************************************************************************)
(* Every assigned contract is eventually in front of a human, in-review or *)
(* needs-human: nothing starves behind the pool, and every path through    *)
(* runTask that meets no infrastructure fault ends in a settled state.     *)
(***************************************************************************)
Settled(t) == tasks[t] \in {"in-review", "needs-human"}

EveryTaskSettles == \A t \in Task : (t \in assigned) ~> Settled(t)

(***************************************************************************)
(* SIGTERM drains: the daemon stops, whatever its goroutines were doing,   *)
(* without deadlocking on the semaphore or the wait group.                 *)
(***************************************************************************)
SigtermStops == ctxDone ~> (main = "stopped")

----------------------------------------------------------------------------
(* What the repository says of the daemon and the code does not do.        *)

(***************************************************************************)
(* Re-polling an already-dispatched work item is idempotent (serve.go      *)
(* 529-531, RFC-0001 AC-03): queued is entered from (start) only.          *)
(***************************************************************************)
RepollIdempotent ==
  [][\A t \in Task : tasks[t] # "start" /\ tasks'[t] = "queued" => tasks[t] = "queued"]_vars
=============================================================================
