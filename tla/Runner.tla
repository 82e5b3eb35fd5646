------------------------------- MODULE Runner -------------------------------
(***************************************************************************)
(* internal/runner: one run of an agent in a provisioned worktree, from    *)
(* the git config written for it to the outcome read from its result file. *)
(* The agent is another process: it edits, commits, pushes and writes what *)
(* it likes until it exits.                                                *)
(***************************************************************************)
EXTENDS Mirror

VARIABLES
  rpc,        \* where Supervisor.run stands
  identity,   \* keys of the worktree's own config: credential and author
  sessions,   \* run_spawn rows of the journal
  spawned,    \* agents started
  file,       \* .mandat/result.json: its status and the agent that wrote it
  outcome     \* the derived event, and the agent the run was for

runVars == <<rpc, identity, sessions, spawned, file, outcome>>

RunLabel == {"idle", "credential", "author", "session", "spawn", "agent",
             "derive", "done", "error"}
Status == {"absent", "invalid", "completed", "needs_human", "failed"}
NoFile == [status |-> "absent", by |-> 0]
NoOutcome == [event |-> "none", by |-> 0]

RunAt(t, label) == rpc[t] = label
RunGoto(t, label) == rpc' = [rpc EXCEPT ![t] = label]
RunError(t) == RunGoto(t, "error")

\* Run: a worktree exists, and the per-task directories are made.
StartRun(t) ==
  /\ RunAt(t, "idle") /\ At(t, "ready")
  /\ RunGoto(t, "credential") \/ RunError(t)
  /\ UNCHANGED <<mirrorVars, identity, sessions, spawned, file, outcome>>

\* gitConfig --worktree: not the shared config, and not its lock.
GitConfig(t, label, next) ==
  /\ RunAt(t, label)
  /\ \/ /\ wtConfig
        /\ identity' = [identity EXCEPT ![t] = @ \cup {label}]
        /\ RunGoto(t, next)
     \/ /\ ~wtConfig \/ "kill" \in World
        /\ RunError(t) /\ UNCHANGED identity
  /\ UNCHANGED <<mirrorVars, sessions, spawned, file, outcome>>

\* configureGitCredential, then configureGitAuthor (its two keys as one step).
Configure(t) ==
  GitConfig(t, "credential", "author") \/ GitConfig(t, "author", "session")

JournalSession(t) ==
  /\ RunAt(t, "session")
  /\ \/ /\ sessions' = [sessions EXCEPT ![t] = @ + 1]
        /\ RunGoto(t, "spawn")
     \/ RunError(t) /\ UNCHANGED sessions
  /\ UNCHANGED <<mirrorVars, identity, spawned, file, outcome>>

\* An agent that cannot be started is not an error: the outcome is derived.
Spawn(t) ==
  /\ RunAt(t, "spawn")
  /\ \/ /\ spawned' = [spawned EXCEPT ![t] = @ + 1]
        /\ RunGoto(t, "agent")
     \/ RunGoto(t, "derive") /\ UNCHANGED spawned
  /\ UNCHANGED <<mirrorVars, identity, sessions, file, outcome>>

\* The outcome is the file's; a failed contract is held like an escalation.
EventOf(status) ==
  CASE status = "completed" -> "result_ok"
    [] status \in {"needs_human", "failed"} -> "result_needs_human"
    [] OTHER -> "result_invalid"

Derive(t) ==
  /\ RunAt(t, "derive")
  /\ outcome' = [outcome EXCEPT ![t] = [event |-> EventOf(file[t].status), by |-> file[t].by]]
  /\ RunGoto(t, "done")
  /\ UNCHANGED <<mirrorVars, identity, sessions, spawned, file>>

Run(t) == StartRun(t) \/ Configure(t) \/ JournalSession(t) \/ Spawn(t) \/ Derive(t)

----------------------------------------------------------------------------
(* The agent.                                                              *)

Own(t) == {c \in branch[t] : c[1] = t}

AgentCommits(t) ==
  /\ RunAt(t, "agent") /\ Cardinality(Own(t)) < MaxCommits
  /\ branch' = [branch EXCEPT ![t] = @ \cup {<<t, Cardinality(Own(t))>>}]
  /\ UNCHANGED <<origin, mirror, bare, wtConfig, configLock, mirrorBase, mu, worktrees,
                 pc, existed, baseRef, failure, attempts, runVars>>

AgentPushes(t) ==
  /\ "push" \in World /\ RunAt(t, "agent")
  /\ originBranch' = [originBranch EXCEPT ![t] = branch[t]]
  /\ UNCHANGED <<originBase, shared, mu, worktrees, pc, existed, baseRef, failure,
                 attempts, runVars>>

\* push -u writes branch.<name>.remote into the shared config.
AgentTakesConfigLock(t) ==
  /\ "upstream" \in World /\ RunAt(t, "agent") /\ originBranch[t] # {}
  /\ configLock = "free" /\ configLock' = "agent"
  /\ UNCHANGED <<origin, mirror, bare, wtConfig, mirrorBase, branch, mu, worktrees,
                 pc, existed, baseRef, failure, attempts, runVars>>

AgentReleasesConfigLock ==
  /\ configLock = "agent" /\ configLock' = "free"
  /\ UNCHANGED <<origin, mirror, bare, wtConfig, mirrorBase, branch, mu, worktrees,
                 pc, existed, baseRef, failure, attempts, runVars>>

\* What it last wrote to the result file, if it wrote one, is what it leaves.
AgentExits(t) ==
  /\ RunAt(t, "agent")
  /\ RunGoto(t, "derive")
  /\ \/ \E status \in Status \ {"absent"} :
          file' = [file EXCEPT ![t] = [status |-> status, by |-> spawned[t]]]
     \/ UNCHANGED file
  /\ UNCHANGED <<mirrorVars, identity, sessions, spawned, outcome>>

Agent(t) ==
  \/ AgentCommits(t) \/ AgentPushes(t) \/ AgentTakesConfigLock(t) \/ AgentExits(t)

----------------------------------------------------------------------------
\* A second dispatch of the task starts over with Provision (serve.go runTask).
Redispatch(t) ==
  /\ rpc[t] \in {"done", "error"} /\ attempts[t] < 2 /\ MayDispatch(t)
  /\ RunGoto(t, "idle")
  /\ pc' = [pc EXCEPT ![t] = "idle"]
  /\ UNCHANGED <<origin, shared, mu, worktrees, existed, baseRef, failure, attempts,
                 identity, sessions, spawned, file, outcome>>

RunnerInit ==
  /\ rpc = [t \in Task |-> "idle"] /\ identity = [t \in Task |-> {}]
  /\ sessions = [t \in Task |-> 0] /\ spawned = [t \in Task |-> 0]
  /\ file = [t \in Task |-> NoFile] /\ outcome = [t \in Task |-> NoOutcome]
=============================================================================
