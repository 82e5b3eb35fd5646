------------------------------- MODULE Mirror -------------------------------
(***************************************************************************)
(* internal/workspace: the provisioning of task worktrees that share one   *)
(* bare mirror, each git process a step of its own.  Provisions of several *)
(* tasks interleave; touchMirror runs under the mirror's in-process lock,  *)
(* the rest of Provision does not.                                         *)
(*                                                                         *)
(* A branch is the set of commits reachable from it; {} is a ref that does *)
(* not exist.  What git itself does is modelled from how the code uses it  *)
(* and from what its comments rely on: an exclusive config.lock without    *)
(* retry, a fetch that refuses a checked-out branch, worktree add -b that  *)
(* refuses a leftover.                                                     *)
(***************************************************************************)
EXTENDS Naturals, FiniteSets

CONSTANTS
  Task,         \* tasks on this mirror
  Base,         \* who commits on the base branch at the origin
  ModernGit,    \* git >= 2.35: no core.bare leak, worktrees guarded from a fetch
  World,        \* what the world may do to this instance
  MaxAdvance,   \* bound on the commits the origin's base branch gains
  MaxCommits,   \* bound on the commits of one agent
  MaxRetries    \* bound on the tasks dispatched a second time

\* The network fails, a git process is killed, agents push their branches,
\* and the push records its upstream in the shared config (push -u).
WorldEvent == {"network", "kill", "push", "upstream"}

ASSUME MirrorAssumption ==
  /\ Base \notin Task
  /\ ModernGit \in BOOLEAN
  /\ World \subseteq WorldEvent
  /\ MaxAdvance \in Nat /\ MaxCommits \in Nat /\ MaxRetries \in Nat
  /\ {"free", "stale", "agent"} \cap Task = {}

VARIABLES
  \* the origin
  originBase,    \* commits of the base branch
  originBranch,  \* commits of each task branch that was pushed
  \* the mirror, shared
  mirror,        \* "absent", "partial" (a clone that was killed) or "complete"
  bare,          \* core.bare in the shared config
  wtConfig,      \* extensions.worktreeConfig in the shared config
  configLock,    \* who holds config.lock: "free", a task, "agent", "stale"
  mirrorBase,    \* commits of the mirror's base branch
  branch,        \* commits of the mirror's refs/heads/mandat/<task>
  mu,            \* holder of the mirror's lock, or "free"
  \* the worktrees
  linked,        \* <TasksRoot>/<task> exists and is checked out on its branch
  override,      \* core.bare=false in config.worktree
  sparse,        \* the sparse-checkout patterns are set
  tree,          \* what is materialized: "none", "remit" or "full"
  \* the provisions
  pc, existed, baseRef, failure, attempts

origin    == <<originBase, originBranch>>
shared    == <<mirror, bare, wtConfig, configLock, mirrorBase, branch>>
worktrees == <<linked, override, sparse, tree>>
mirrorVars == <<origin, shared, mu, worktrees, pc, existed, baseRef, failure, attempts>>

----------------------------------------------------------------------------
Commit == (Task \cup {Base}) \X Nat
BaseAt(n) == {<<Base, i>> : i \in 0..n}

Label == {"idle", "lock", "stat", "clone", "bare", "bareLocked", "ext", "extLocked",
          "fetch", "revparse", "add", "override", "sparse", "readtree", "ready", "failed"}
Failure == {"none", "network", "kill", "lock", "agent", "stale", "refused", "mirror",
            "leftover", "worktree"}

At(t, label) == pc[t] = label
Goto(t, label) == pc' = [pc EXCEPT ![t] = label]
Locked(t) == pc[t] \in {"stat", "clone", "bare", "bareLocked", "ext", "extLocked",
                        "fetch", "revparse", "add"}

\* Mutant of FailWith: the error returns keep the lock.
FailKeepingLock(t, why) ==
  /\ Goto(t, "failed")
  /\ failure' = [failure EXCEPT ![t] = why]
  /\ UNCHANGED mu

\* A SetupError; touchMirror's deferred Unlock releases the mirror.
FailWith(t, why) ==
  /\ Goto(t, "failed")
  /\ failure' = [failure EXCEPT ![t] = why]
  /\ mu' = IF mu = t THEN "free" ELSE mu

Continue(t, label) == Goto(t, label) /\ UNCHANGED <<failure, mu>>

----------------------------------------------------------------------------
(* touchMirror, under the lock.                                            *)

\* Once per dispatch of the task; a second one is a retry.
MayDispatch(t) ==
  attempts[t] = 1 => Cardinality({s \in Task : attempts[s] = 2}) < MaxRetries

Begin(t) ==
  /\ pc[t] \in {"idle", "failed"} /\ attempts[t] < 2 /\ MayDispatch(t)
  /\ attempts' = [attempts EXCEPT ![t] = @ + 1]
  /\ failure' = [failure EXCEPT ![t] = "none"]
  /\ Goto(t, "lock")
  /\ UNCHANGED <<origin, shared, mu, worktrees, existed, baseRef>>

\* Mutant of Lock: every provision has a mutex of its own.
LockNothing(t) ==
  /\ At(t, "lock")
  /\ Continue(t, "stat")
  /\ UNCHANGED <<origin, shared, worktrees, existed, baseRef, attempts>>

Lock(t) ==
  /\ At(t, "lock") /\ mu = "free"
  /\ mu' = t
  /\ Goto(t, "stat")
  /\ UNCHANGED <<origin, shared, worktrees, existed, baseRef, failure, attempts>>

Stat(t) ==
  /\ At(t, "stat")
  /\ existed' = [existed EXCEPT ![t] = mirror # "absent"]
  /\ Continue(t, IF mirror = "absent" THEN "clone" ELSE "bare")
  /\ UNCHANGED <<origin, shared, worktrees, baseRef, attempts>>

\* git clone --mirror removes what it wrote when it fails, unless it is killed.
Clone(t) ==
  /\ At(t, "clone")
  /\ \/ /\ mirror = "absent"
        /\ mirror' = "complete"
        /\ bare' = TRUE /\ wtConfig' = FALSE
        /\ mirrorBase' = originBase /\ branch' = originBranch
        /\ Continue(t, "bare")
     \/ /\ mirror # "absent"
        /\ FailWith(t, "mirror") /\ UNCHANGED <<mirror, bare, wtConfig, mirrorBase, branch>>
     \/ /\ "network" \in World
        /\ FailWith(t, "network") /\ UNCHANGED <<mirror, bare, wtConfig, mirrorBase, branch>>
     \/ /\ "kill" \in World
        /\ mirror' = "partial"
        /\ FailWith(t, "kill") /\ UNCHANGED <<bare, wtConfig, mirrorBase, branch>>
  /\ UNCHANGED <<origin, configLock, worktrees, existed, baseRef, attempts>>

\* A plain git config: config.lock is taken at once or the command fails.
TakeConfigLock(t) ==
  /\ pc[t] \in {"bare", "ext"}
  /\ \/ /\ configLock = "free"
        /\ configLock' = t
        /\ Continue(t, IF At(t, "bare") THEN "bareLocked" ELSE "extLocked")
     \/ /\ configLock # "free"
        /\ FailWith(t, IF configLock \in Task THEN "lock" ELSE configLock)
        /\ UNCHANGED configLock
  /\ UNCHANGED <<origin, mirror, bare, wtConfig, mirrorBase, branch, worktrees,
                 existed, baseRef, attempts>>

\* The heal: core.bare=true, then extensions.worktreeConfig=true.  A killed
\* git config leaves its lock file behind.
Heal(t) ==
  /\ pc[t] \in {"bareLocked", "extLocked"}
  /\ \/ /\ configLock' = "free"
        /\ IF At(t, "bareLocked") THEN bare' = TRUE /\ UNCHANGED wtConfig
                                  ELSE wtConfig' = TRUE /\ UNCHANGED bare
        /\ Continue(t, IF At(t, "bareLocked") THEN "ext"
                       ELSE IF existed[t] THEN "fetch" ELSE "revparse")
     \/ /\ "kill" \in World
        /\ configLock' = "stale"
        /\ FailWith(t, "kill") /\ UNCHANGED <<bare, wtConfig>>
  /\ UNCHANGED <<origin, mirror, mirrorBase, branch, worktrees, existed, baseRef, attempts>>

\* Mutant of Fetched: fetch --prune.
Pruned(refs, s) == originBranch[s]

\* +refs/*:refs/* without --prune: what the origin has is forced on the
\* mirror, what it lacks is left alone.
Fetched(refs, s) == IF originBranch[s] = {} THEN refs[s] ELSE originBranch[s]

\* A fetch refuses the current branch of a repository that is not bare, and,
\* since git 2.35, a branch checked out in any linked worktree.
FetchRefused ==
  \/ ~bare
  \/ ModernGit /\ \E s \in Task : linked[s] /\ originBranch[s] # {}

Fetch(t) ==
  /\ At(t, "fetch")
  /\ \/ /\ ~FetchRefused
        /\ mirror' = "complete"
        /\ mirrorBase' = originBase
        /\ branch' = [s \in Task |-> Fetched(branch, s)]
        /\ Continue(t, "revparse")
     \/ /\ FetchRefused
        /\ FailWith(t, "refused") /\ UNCHANGED <<mirror, mirrorBase, branch>>
     \/ /\ {"network", "kill"} \cap World # {} \/ mirror = "partial"
        /\ FailWith(t, "network") /\ UNCHANGED <<mirror, mirrorBase, branch>>
  /\ UNCHANGED <<origin, bare, wtConfig, configLock, worktrees, existed, baseRef, attempts>>

RevParse(t) ==
  /\ At(t, "revparse")
  /\ \/ /\ mirrorBase # {}
        /\ baseRef' = [baseRef EXCEPT ![t] = mirrorBase]
        /\ Continue(t, "add")
     \/ /\ mirrorBase = {} \/ "kill" \in World
        /\ FailWith(t, "mirror") /\ UNCHANGED baseRef
  /\ UNCHANGED <<origin, shared, worktrees, existed, attempts>>

\* Mutant of WorktreeAdd: --force, reusing the branch and the directory.
WorktreeForce(t) ==
  /\ At(t, "add")
  /\ branch' = [branch EXCEPT ![t] = IF @ = {} THEN baseRef[t] ELSE @]
  /\ linked' = [linked EXCEPT ![t] = TRUE]
  /\ mu' = IF mu = t THEN "free" ELSE mu
  /\ Goto(t, "override")
  /\ UNCHANGED <<origin, mirror, bare, wtConfig, configLock, mirrorBase,
                 override, sparse, tree, existed, baseRef, failure, attempts>>

\* worktree add --no-checkout -b; its success returns, and so unlocks.
WorktreeAdd(t) ==
  /\ At(t, "add")
  /\ \/ /\ branch[t] = {} /\ ~linked[t]
        /\ branch' = [branch EXCEPT ![t] = baseRef[t]]
        /\ linked' = [linked EXCEPT ![t] = TRUE]
        /\ mu' = IF mu = t THEN "free" ELSE mu
        /\ Goto(t, "override") /\ UNCHANGED failure
     \/ /\ branch[t] # {} \/ linked[t]
        /\ FailWith(t, "leftover") /\ UNCHANGED <<branch, linked>>
     \/ /\ "kill" \in World /\ branch[t] = {} /\ ~linked[t]
        /\ branch' = [branch EXCEPT ![t] = baseRef[t]]
        /\ \E left \in BOOLEAN : linked' = [linked EXCEPT ![t] = left]
        /\ FailWith(t, "kill")
  /\ UNCHANGED <<origin, mirror, bare, wtConfig, configLock, mirrorBase,
                 override, sparse, tree, existed, baseRef, attempts>>

----------------------------------------------------------------------------
(* The rest of Provision, outside the lock, on the task's own worktree.    *)

\* git < 2.35 leaks core.bare=true of the mirror into the linked worktree.
WorkTreeUsable(t) == ModernGit \/ ~bare \/ override[t]

\* git config --worktree: needs the extension, takes config.worktree's own lock.
OverrideBare(t) ==
  /\ At(t, "override")
  /\ \/ /\ wtConfig
        /\ override' = [override EXCEPT ![t] = TRUE]
        /\ Continue(t, "sparse")
     \/ /\ ~wtConfig \/ "kill" \in World
        /\ FailWith(t, "worktree") /\ UNCHANGED override
  /\ UNCHANGED <<origin, shared, linked, sparse, tree, existed, baseRef, attempts>>

SparseSet(t) ==
  /\ At(t, "sparse")
  /\ \/ /\ WorkTreeUsable(t)
        /\ sparse' = [sparse EXCEPT ![t] = TRUE]
        /\ Continue(t, "readtree")
     \/ /\ ~WorkTreeUsable(t) \/ "kill" \in World
        /\ FailWith(t, "worktree") /\ UNCHANGED sparse
  /\ UNCHANGED <<origin, shared, linked, override, tree, existed, baseRef, attempts>>

\* read-tree -mu HEAD: fails on an unborn HEAD.
ReadTree(t) ==
  /\ At(t, "readtree")
  /\ \/ /\ WorkTreeUsable(t) /\ branch[t] # {}
        /\ tree' = [tree EXCEPT ![t] = IF sparse[t] THEN "remit" ELSE "full"]
        /\ Continue(t, "ready")
     \/ /\ ~WorkTreeUsable(t) \/ branch[t] = {} \/ "kill" \in World
        /\ FailWith(t, "worktree") /\ UNCHANGED tree
  /\ UNCHANGED <<origin, shared, linked, override, sparse, existed, baseRef, attempts>>

Provision(t) ==
  \/ Lock(t) \/ Stat(t) \/ Clone(t) \/ TakeConfigLock(t) \/ Heal(t) \/ Fetch(t)
  \/ RevParse(t) \/ WorktreeAdd(t) \/ OverrideBare(t) \/ SparseSet(t) \/ ReadTree(t)

----------------------------------------------------------------------------
\* The base branch gains a commit at the origin.
Advance ==
  /\ Cardinality(originBase) <= MaxAdvance
  /\ originBase' = BaseAt(Cardinality(originBase))
  /\ UNCHANGED <<originBranch, shared, mu, worktrees, pc, existed, baseRef, failure, attempts>>

\* No mirror yet, a healthy one, or one that v0.1.1 left non-bare.
MirrorInit ==
  /\ originBase = BaseAt(0) /\ originBranch = [t \in Task |-> {}]
  /\ \/ mirror = "absent" /\ mirrorBase = {} /\ bare = TRUE /\ wtConfig = FALSE
     \/ mirror = "complete" /\ mirrorBase = BaseAt(0) /\ bare \in BOOLEAN /\ wtConfig = bare
  /\ configLock = "free" /\ mu = "free"
  /\ branch = [t \in Task |-> {}]
  /\ linked = [t \in Task |-> FALSE] /\ override = [t \in Task |-> FALSE]
  /\ sparse = [t \in Task |-> FALSE] /\ tree = [t \in Task |-> "none"]
  /\ pc = [t \in Task |-> "idle"] /\ existed = [t \in Task |-> FALSE]
  /\ baseRef = [t \in Task |-> {}] /\ failure = [t \in Task |-> "none"]
  /\ attempts = [t \in Task |-> 0]
=============================================================================
