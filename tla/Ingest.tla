------------------------------- MODULE Ingest -------------------------------
(***************************************************************************)
(* internal/adapter/azuredevops and internal/task: one poll of the         *)
(* tracker, from the work items the query lists to the contracts that may  *)
(* be dispatched, and the pull request of a run, opened and found again.   *)
(***************************************************************************)
EXTENDS Config, SequencesExt

CONSTANT Fold     \* UPN -> the UPN its case folds to

EqualFold(u, v) == Fold[u] = Fold[v]

TrackerSystem == {"azure-devops", "jira"}
TaskType == {"dev-task", "story", "prd"}
PipelineState == {"queued", "in_progress", "in_review", "needs_human", "done", "failed"}
SchemaVersion == 1

RemitPathFaults(paths) ==
  {f \in {"remit.paths"} : paths = <<>>}
    \cup {f \in {"remit.paths[]"} :
            \E i \in DOMAIN paths : paths[i] = EmptyPath \/ Absolute(paths[i]) \/ Parent(paths[i])}

(* task.Validate: the fields at fault, all of them.                        *)
Validate(tc) ==
  {f \in {"schema_version"} : tc.schema_version # SchemaVersion}
    \cup (UNION {Required(f, tc[f]) : f \in {"id", "title", "acceptance", "role", "assigned_to"}})
    \cup OneOf("tracker_ref.system", tc.tracker_ref.system, TrackerSystem)
    \cup (UNION {Required(f, tc.tracker_ref[f]) : f \in {"org", "project", "work_item_id"}})
    \cup OneOf("type", tc.type, TaskType) \cup OneOf("state", tc.state, PipelineState)
    \cup (UNION {Required(f, tc.remit[f]) : f \in {"repo", "base_branch"}})
    \cup RemitPathFaults(tc.remit.paths)

\* A tag is what is left of it once trimmed: `repo:` and a key, which may be empty, or another tag.
RepoTag(key) == [repo |-> TRUE, key |-> key]
OtherTag == [repo |-> FALSE, key |-> ""]

\* The first tag that names a repo, or "".
repoKeyFromTags(tags) ==
  LET i == SelectInSeq(tags, LAMBDA t : t.repo /\ t.key # "")
  IN  IF i = 0 THEN "" ELSE tags[i].key

\* An adapter acts as one agent user in one org and project (New refuses an empty field).
Adapter(c, role, agentUserName) ==
  [ok |-> "" \notin {c.tracker.org, c.tracker.project, role, agentUserName},
   org |-> c.tracker.org, project |-> c.tracker.project,
   role |-> role, agentUserName |-> agentUserName, remits |-> c]

Contract(a, wi, remit) ==
  [id |-> wi.id,
   tracker_ref |-> [system |-> "azure-devops", org |-> a.org, project |-> a.project,
                    work_item_id |-> wi.id],
   type |-> "dev-task", title |-> wi.title, acceptance |-> wi.acceptance, state |-> "queued",
   role |-> a.role,
   remit |-> [repo |-> remit.repo, base_branch |-> remit.base_branch, paths |-> remit.paths],
   assigned_to |-> wi.assigned_to, schema_version |-> SchemaVersion]

\* The contract of an item, or nothing: every refusal is a skip.
mapContract(a, wi) ==
  LET key == repoKeyFromTags(wi.tags)
      remit == RemitDefaultsFor(a.remits, key)
  IN  IF ~EqualFold(wi.assigned_to, a.agentUserName) \/ key = "" \/ ~remit.ok THEN <<>>
      ELSE IF Validate(Contract(a, wi, remit)) # {} THEN <<>>
      ELSE <<Contract(a, wi, remit)>>

PollFailed == [err |-> TRUE, contracts |-> <<>>]

\* Mutant of Poll: an item that cannot be read is left out, and the rest goes on.
PollPartial(a, listed, listing, unreadable) ==
  IF ~listed THEN PollFailed
  ELSE [err |-> FALSE,
        contracts |-> FlattenSeq([i \in DOMAIN listing |->
                                    IF i \in unreadable THEN <<>> ELSE mapContract(a, listing[i])])]

(* Every listed item is read before any contract is returned; a query that *)
(* fails, or an item that cannot be read, fails the cycle.                 *)
Poll(a, listed, listing, unreadable) ==
  IF ~listed \/ unreadable # {} THEN PollFailed
  ELSE [err |-> FALSE,
        contracts |-> FlattenSeq([i \in DOMAIN listing |-> mapContract(a, listing[i])])]

----------------------------------------------------------------------------
(* The forge.  A pull request of a repo is [id, branch, base, createdBy,   *)
(* active, draft]; the server numbers them upwards, refuses a second       *)
(* active one of the same two branches, and lists them in any order.       *)

NoFinding == [err |-> FALSE, exists |-> FALSE, createdBy |-> "nobody"]
FindFailed == [err |-> TRUE, exists |-> FALSE, createdBy |-> "nobody"]

CreatePR(prs, at, branch, base, principal, reachable) ==
  IF \/ ~reachable
     \/ \E p \in ToSet(prs) : p.active /\ p.branch = branch /\ p.base = base
    THEN [err |-> TRUE, prs |-> prs]
    ELSE [err |-> FALSE,
          prs |-> InsertAt(prs, at, [id |-> Len(prs) + 1, branch |-> branch, base |-> base,
                                     createdBy |-> principal, active |-> TRUE, draft |-> TRUE])]

Listed(prs, branch) ==
  FoldLeft(LAMBDA value, p : IF p.active /\ p.branch = branch THEN Append(value, p) ELSE value,
           <<>>, prs)

\* Mutant of FindPR: the first of the answer.
FindPRFirst(prs, branch, reachable) ==
  LET value == Listed(prs, branch)
  IN  IF ~reachable THEN FindFailed
      ELSE IF value = <<>> THEN NoFinding
      ELSE [err |-> FALSE, exists |-> TRUE, createdBy |-> value[1].createdBy]

FindPR(prs, branch, reachable) ==
  LET value == Listed(prs, branch)
      newest == FoldLeft(LAMBDA pr, candidate : IF candidate.id > pr.id THEN candidate ELSE pr,
                         value[1], Tail(value))
  IN  IF ~reachable THEN FindFailed
      ELSE IF value = <<>> THEN NoFinding
      ELSE [err |-> FALSE, exists |-> TRUE, createdBy |-> newest.createdBy]
=============================================================================
