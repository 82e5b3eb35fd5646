------------------------- MODULE WorktreeInvariants -------------------------
(***************************************************************************)
(* The inductive strengthening behind the theorems of WorktreeProofs: what *)
(* the label a provision or a run stands at says of the mirror and of the  *)
(* worktree.                                                               *)
(***************************************************************************)
EXTENDS WorktreeProperties

(***************************************************************************)
(* What a branch can be: a version of the base, and on it the first        *)
(* commits of its own agent.                                               *)
(***************************************************************************)
Commits(t, k) == {<<t, i>> : i \in 0..(k - 1)}

Versions == {BaseAt(n) : n \in 0..MaxAdvance}
Grown(t) == {BaseAt(n) \cup Commits(t, k) : n \in 0..MaxAdvance, k \in 0..MaxCommits}

Histories ==
  /\ originBase \in Versions
  /\ mirrorBase \in Versions \cup {{}}
  /\ \A t \in Task :
       /\ baseRef[t] \in Versions \cup {{}}
       /\ branch[t] \in Grown(t) \cup {{}}
       /\ originBranch[t] \in Grown(t) \cup {{}}

(***************************************************************************)
(* What the provision of t has established of the shared repository by the *)
(* time it stands at its label.  No other can undo it: it needs the lock,  *)
(* or the mirror to be absent again.                                       *)
(***************************************************************************)
BeforeMirror == {"idle", "lock", "stat", "clone", "failed"}
Healing      == {"bare", "bareLocked", "ext", "extLocked"}
BeforeAdd    == {"lock", "stat", "clone", "fetch", "revparse", "add"} \cup Healing
AfterAdd     == {"override", "sparse", "readtree", "ready"}

Staged(t) ==
  /\ mirror = "absent" => pc[t] \in BeforeMirror
  /\ pc[t] = "clone" => mirror = "absent"
  /\ pc[t] \in Healing /\ ~existed[t] => mirror = "complete"
  /\ pc[t] \in {"revparse", "add"} => mirror = "complete"
  /\ pc[t] \in {"ext", "extLocked", "fetch"} => bare
  /\ pc[t] \in {"fetch", "revparse", "add"} \cup AfterAdd => wtConfig
  /\ pc[t] = "add" => baseRef[t] # {}

(***************************************************************************)
(* The branch and the worktree of t come from its own `worktree add` only, *)
(* and are there for good once it has run.                                 *)
(***************************************************************************)
Rooted(t) ==
  /\ attempts[t] = 0 => pc[t] = "idle"
  /\ attempts[t] = 0 \/ (attempts[t] = 1 /\ pc[t] \in BeforeAdd) =>
       branch[t] = {} /\ ~linked[t]
  /\ pc[t] \in AfterAdd =>
       /\ linked[t] /\ baseRef[t] # {} /\ baseRef[t] \subseteq branch[t]
       /\ originBranch[t] # {} => baseRef[t] \subseteq originBranch[t]
  /\ originBranch[t] # {} => linked[t] /\ branch[t] # {}
  /\ linked[t] \/ branch[t] # {} => mirror # "absent"

\* The steps after `worktree add` have done what their order says.
Materialized(t) ==
  /\ pc[t] \in {"sparse", "readtree", "ready"} => override[t]
  /\ pc[t] \in {"readtree", "ready"} => sparse[t]
  /\ pc[t] = "ready" => tree[t] = "remit"

(***************************************************************************)
(* A task is run once: by the time its agent has left anything, its branch *)
(* is in the way of a second provision.                                    *)
(***************************************************************************)
Unrun(t) ==
  sessions[t] = 0 /\ spawned[t] = 0 /\ file[t] = NoFile /\ outcome[t] = NoOutcome

RunOnce(t) ==
  /\ rpc[t] # "idle" => pc[t] = "ready"
  /\ \/ ~linked[t]
     \/ pc[t] \in AfterAdd /\ rpc[t] \in {"idle", "credential", "author", "session"}
     => Unrun(t)
  /\ rpc[t] \in {"author", "session", "spawn", "agent"} => "credential" \in identity[t]
  /\ rpc[t] \in {"session", "spawn", "agent"} => "author" \in identity[t]
  /\ rpc[t] = "spawn" => sessions[t] = 1 /\ spawned[t] = 0
  /\ rpc[t] = "agent" => sessions[t] = 1 /\ spawned[t] = 1
  /\ rpc[t] \in {"spawn", "agent"} => file[t] = NoFile
  /\ rpc[t] \in {"spawn", "agent", "derive"} => outcome[t] = NoOutcome
  /\ rpc[t] = "derive" => file[t] = NoFile \/ (file[t].by = spawned[t] /\ spawned[t] = 1)
  /\ outcome[t].event \in {"result_ok", "result_needs_human"} =>
       outcome[t].by = spawned[t] /\ spawned[t] = 1

\* Who can be in the way on config.lock, and what a complete mirror has.
Causes ==
  /\ configLock = "stale" => "kill" \in World
  /\ configLock = "agent" => \E s \in Task : originBranch[s] # {}
  /\ mirror = "complete" => mirrorBase # {}

WorktreeInv ==
  /\ MirrorInv /\ Histories /\ Causes /\ FailuresExplained
  /\ \A t \in Task : Staged(t) /\ Rooted(t) /\ Materialized(t) /\ RunOnce(t)
=============================================================================
