------------------------- MODULE WorktreeProperties -------------------------
(***************************************************************************)
(* Provisions and runs of several tasks over one mirror.                   *)
(***************************************************************************)
EXTENDS Runner, TLC

worktreeVars == <<mirrorVars, runVars>>

Init == MirrorInit /\ RunnerInit

Provisioner(t) == Provision(t) /\ UNCHANGED runVars
Dispatch(t) == rpc[t] = "idle" /\ Begin(t) /\ UNCHANGED runVars

Next ==
  \/ \E t \in Task : Dispatch(t) \/ Provisioner(t) \/ Run(t) \/ Agent(t) \/ Redispatch(t)
  \/ AgentReleasesConfigLock
  \/ Advance /\ UNCHANGED runVars

Spec == Init /\ [][Next]_worktreeVars

\* Tasks are interchangeable.
Symmetry == Permutations(Task)

\* Every variable ranges over its domain.
TypeOK ==
  /\ originBase \subseteq Commit /\ originBranch \in [Task -> SUBSET Commit]
  /\ mirror \in {"absent", "partial", "complete"}
  /\ bare \in BOOLEAN /\ wtConfig \in BOOLEAN
  /\ configLock \in Task \cup {"free", "stale", "agent"}
  /\ mirrorBase \subseteq Commit /\ branch \in [Task -> SUBSET Commit]
  /\ mu \in Task \cup {"free"}
  /\ linked \in [Task -> BOOLEAN] /\ override \in [Task -> BOOLEAN]
  /\ sparse \in [Task -> BOOLEAN] /\ tree \in [Task -> {"none", "remit", "full"}]
  /\ pc \in [Task -> Label] /\ existed \in [Task -> BOOLEAN]
  /\ baseRef \in [Task -> SUBSET Commit] /\ failure \in [Task -> Failure]
  /\ attempts \in [Task -> Nat]
  /\ rpc \in [Task -> RunLabel]
  /\ identity \in [Task -> SUBSET {"credential", "author"}]
  /\ sessions \in [Task -> Nat] /\ spawned \in [Task -> Nat]
  /\ file \in [Task -> [status : Status, by : Nat]]
  /\ outcome \in [Task -> [event : {"none", "result_ok", "result_needs_human", "result_invalid"},
                           by : Nat]]

(***************************************************************************)
(* The mirror's lock is held exactly from Lock to the return of            *)
(* touchMirror, whichever of its steps fails, and config.lock by no task   *)
(* outside it: the inductive invariant behind the absence of collisions    *)
(* and of a mirror that stays locked (workspace.go 135-161, 201-238).      *)
(***************************************************************************)
MutexHeld == \A t \in Task : Locked(t) <=> mu = t

ConfigLockHeld == \A t \in Task : configLock = t <=> pc[t] \in {"bareLocked", "extLocked"}

MirrorInv == TypeOK /\ MutexHeld /\ ConfigLockHeld

(***************************************************************************)
(* No task's provision or fetch creates, moves or removes the branch of    *)
(* another, at any interleaving, kill or second dispatch: the mirror's     *)
(* task branches implement IsolatedWorktrees (workspace.go 371-386).       *)
(***************************************************************************)
Isolated == INSTANCE IsolatedWorktrees WITH history <- branch, Serial <- 0..(MaxAdvance + MaxCommits)

ImplementsIsolatedWorktrees == Isolated!Spec

(***************************************************************************)
(* A failed provision has a cause outside the provisions (AC-12.2, 12.5):  *)
(* siblings never collide on config.lock, a fetch is refused for a pushed  *)
(* task branch but never for a mirror left non-bare, a branch in the way   *)
(* is the task's own leftover, and the worktree steps of an isolated       *)
(* branch fail only when killed.                                           *)
(***************************************************************************)
FailuresExplained ==
  \A t \in Task :
    /\ failure[t] # "lock"
    /\ failure[t] = "stale" => "kill" \in World
    /\ failure[t] \in {"refused", "agent"} => \E s \in Task : originBranch[s] # {}
    /\ failure[t] = "leftover" => attempts[t] > 1
    /\ failure[t] \in {"mirror", "worktree"} => "kill" \in World

(***************************************************************************)
(* An agent is only ever started in a worktree that holds the remit and    *)
(* nothing else, on a branch of its own that starts at the base, with its  *)
(* session journaled and credential and author set in its own config       *)
(* (ADR-0006, AC-10), and the event of a run is read from the file its own *)
(* agent wrote: never from one an earlier run left (deriveOutcome).        *)
(***************************************************************************)
RunsInItsOwnWorktree ==
  \A t \in Task :
    /\ RunAt(t, "agent") =>
         /\ linked[t] /\ tree[t] = "remit"
         /\ baseRef[t] \subseteq branch[t]
         /\ identity[t] = {"credential", "author"}
         /\ sessions[t] = spawned[t]
    /\ outcome[t].event \in {"result_ok", "result_needs_human"} =>
         outcome[t].by = spawned[t] /\ spawned[t] = 1

(***************************************************************************)
(* "A non-pruning fetch force-updates the shared origin branches and never *)
(* touches the task branches" (workspace.go 379-380), so that provisions   *)
(* against one warm mirror "never produce a SetupError" (AC-12.2) while    *)
(* nothing fails around them.  An agent that pushes its branch, as the     *)
(* playbook tells it to, puts it among what the fetch updates.             *)
(***************************************************************************)
PushesSpareSiblings ==
  \A t \in Task : failure[t] # "refused"
=============================================================================
