# A TLA+ model of mandat

mandat is a daemon that polls a tracker for work items assigned to an agent
user, runs a coding agent on each of them in a worktree of its own, opens a
draft PR, verifies the work against ground truth as a *different* identity, and
leaves every task in front of a human: `in-review` when all is well,
`needs-human` otherwise. This directory models the program as it is written,
model-checks it with TLC, and proves the results that matter most with TLAPS.

## The system

| Component (source) | State it keeps | Operations | What makes it correct |
|---|---|---|---|
| Orchestrator (`internal/orchestrator`) | none: a transition table | `Next` | a function of state and event; no automatic event leaves a state that belongs to a human |
| Dispatch daemon (`cmd/mandat/serve.go`) | goroutines, semaphore, wait group, the lists of a cycle | `runDispatchLoop`, `dispatchCycle`, `runTask`, `buildServeDeps` | at most one run per contract; nothing reaches `in-review` without evidence; admission, of one process; no slot leaks; drains and stops |
| Verifier (`internal/verify`) | none | `Verify`, `rerunGates` | fails closed; the first unmet check decides; gates that ran are reported |
| Journal store (`internal/journal`) | tables `tasks`, `journal`, `runs`, `results` | `UpsertTask`, `LoadTask`, `AppendEvent`, `RecordRun`, `StoreResult` | append-only journal that replays to the state column |
| Runner (`internal/runner`) | the agent process, the worktree's own git config | `Run`, `Resume` | the session is journaled before the child exists; the outcome is the result file's, never stdout's; the record holds the run's end |
| Workspace (`internal/workspace`) | mirrors, worktrees, per-mirror locks | `Provision`, `DiffInsideRemit`, `SharesMergeBase` | isolation between tasks that share a mirror; what the worktree shows outside the remit is caught, and nothing else is |
| Adapter (`internal/adapter/azuredevops`) | none (the tracker and the forge) | `Poll`, `CreatePR`, `FindPR`, `Comment`, `ApplyStatus` | consent is assignment; a poll is all or nothing; the newest active PR is probed |
| Identity broker (`internal/identity`) | token cache under one mutex | `Token` | one mint per miss; a role gets its own token, and it outlives an operation |
| Git credential helper (`cmd/mandat/gitcredential.go`) | none: a process per request | `get`, `store`, `erase` | as the broker, with an empty cache |
| Provisioning (`cmd/mandat/provision.go`, `internal/entra`) | the Entra directory | ensure-auth, ensure-blueprint, ensure-identity, ensure-role, plan | idempotent; announces its writes; converges after partial failures |
| Init (`cmd/mandat/init.go`, `internal/discovery`) | `config.yaml`, playbooks, unit | interview, flags, diff, writes, prefill | a field not touched keeps its value, as far as printing it bare allows; what was shown is what is written; green means servable |
| Config, contracts, role | none | `Load`, `Validate`, `Resolve` | rejects what the others rely on |
| Doctor | none | `buildChecks`, `runChecks` | green means that serve starts |
| Remit guard | none | the PreToolUse hook | denies exactly what resolves outside the worktree |

How they interact.  `serve` builds every plane and runs one loop.  A cycle calls
`Poll`, drops the contracts `LoadTask` finds, and launches one goroutine per
remaining contract, each behind a slot of a semaphore of size `dispatchLimit`;
it waits for all of them before the next tick.  A goroutine runs `runTask`:
store, workspace, store, runner (which writes the store itself), forge, store,
verifier (which calls the workspace, the gates and the forge as the Reviewer),
store.  The goroutines of a cycle share the store, the mirror, the broker, the
semaphore and the signal context.  The tracker, the forge and the agent are
other processes: what they do survives a crash of the daemon; the agent shares
the mirror's git config and object store with the provisions of its siblings,
and its git asks a credential-helper process for tokens.  Before any of that an
operator runs `provision` (which fills the directory the broker mints from),
`init` (which writes the configuration the rest loads) and `doctor`.

What is hard: two statements per transition that can be separated by a failure,
a SIGTERM or a crash; goroutines interleaving with each other and with the loop;
several git processes per provision on one config lock; calls whose error hides
that they took effect; facts read once and used later (assignment, `LoadTask`'s
answer, the result file, the Entra registry, the file a diff was shown of); a
pool with a ceiling; tokens that expire; files that are truncated before they
are filled; draining.  `PROJECT.json` lists these hazards by line, with the
properties that cover each.

## Modules

| Module | What it is |
|---|---|
| `Orchestrator` | `State`, `Event`, `table`, `Next` (`HasEdge` says whether `Next` errs) |
| `Verify` | `Verify`, `rerunGates` and the probe over outcomes of the checks |
| `Serve` | the daemon, the store and the world; extends the two above |
| `ServeProperties` | types, safety, action and liveness properties of `Serve` |
| `TaskRecord` | abstract specification: a state column and the journal that follows it |
| `MCServe` | instances of `Serve` for TLC |
| `Mirror` | `Provision` of several tasks over one bare mirror, each git process a step |
| `Runner` | `Supervisor.run` and the agent in a provisioned worktree; extends `Mirror` |
| `IsolatedWorktrees` | abstract specification: task branches nobody else changes |
| `WorktreeProperties` | the composition of `Mirror`, `Runner` and agents, and what it promises |
| `Broker`, `BrokerProperties`, `MCBroker` | `Token` and the credential helper |
| `Provisioning`, `ProvisioningProperties`, `MCProvisioning` | `mandat provision` against an Entra directory |
| `InitCommand`, `InitProperties`, `MCInit` | `mandat init` over a config that is edited in between |
| `Decision` | the frame of the deciding parts: a request, one call, its answer |
| `VerifyProperties` | `Verify` against a declarative reading of the four checks |
| `Remit`, `RemitProperties` | `pathInRemit`, `DiffInsideRemit`, `SharesMergeBase`, the hook |
| `Config` | `config.Load`'s validation, `RemitDefaultsFor`, `role.Resolve` |
| `Ingest`, `IngestProperties` | `Poll`, `task.Validate`, `CreatePR`, `FindPR`; extends `Config` |
| `Preflight`, `PreflightProperties` | `doctor`, and the wiring of `serve`; extends `Ingest` |
| `Stream` | the stream tail and the telemetry |
| `ConfigDiff` | the diff `init` shows |
| `Prefill` | the tenant picker and what discovery offers a fresh interview |
| `Decisions` | the deciding parts together: one request of any kind, answered once |
| `MCDecisions` | the requests of the deciding parts for TLC |
| `ServeInvariants`, `WorktreeInvariants` | the inductive strengthenings used by the proofs; those of `Broker`, `Provisioning` and `InitCommand` are in their `...Properties` |
| `ServeProofs` | theorems about the transition table, `Verify`, types, slots, budget and `in-review` |
| `ServeRecordProofs` | theorems about the record of a contract |
| `RecursionProofs` | what the folds and recursive functions of the deciding parts compute, for inputs of any length |
| `BrokerProofs`, `WorktreeProofs`, `ProvisioningProofs`, `InitProofs`, `DecisionProofs` | theorems about these components |

### How `Serve` corresponds to the code

*Steps.*  Every store statement, every external call and every operation on the
semaphore or the wait group is an action, in the order of the source.  A
goroutine's program counter `worker[t].pc` is the statement it is about to
execute, `worker[t].state` its local variable `state`, `worker[t].event` and
`err` what the runner or the verifier returned.

| Label | Action | Code |
|---|---|---|
| `persist`, `dispatch` | `Persist`, `JournalDispatch` | the dispatch transition of `runTask` |
| `provision` | `Provision` | `workspace.Provision`, as an outcome and what it leaves behind |
| `upsert`, `transition` | `TransitionUpsert`, `TransitionRowWrite` | the two statements of `transition` |
| `spawn`, `agent`, `running` | `JournalSpawn`, `StartAgent`, `AgentExits` | `Supervisor.run` up to `deriveOutcome` |
| `record`, `result` | `RecordRun`, `StoreResult` | the two rows of a run |
| `openpr`, `prrow` | `OpenPR`, `JournalPR` | `CreatePR` and its row |
| `verify`, `gaterow`, `errorrow`, `proberow` | `RunVerify` and the three rows | `Verifier.Verify` and what `runTask` journals of it |
| `hold` | `HoldComment` | the comment of `holdForHuman` |
| `release`, `exit` | `ReleaseSlot`, `WorkerDone` | the goroutine's two deferred calls, last first |

The loop is `Poll`, `Load` (one `LoadTask` each), `LoadDone`, `Launch` (one
contract each), `LaunchDone`, `Wait`, `Tick`, `Stop`.

*Data.*  A contract is a model value.  A journal row keeps its act, its acting
identity and its two states.  What the agent leaves in a worktree is the first
check it would fail (`Work`).  Run, result, agent and PR are counters: the
properties only ask how many.  `tasks[t] = "start"` stands for a row that does
not exist.

*Faults.*  `Faults` names those an instance may meet: `store` (a statement
fails), `load` (`LoadTask` fails although the row may exist), `forge`
(`CreatePR` errs, with or without having opened the PR), `setup` (directories
or git config before the spawn), `crash`, `sigterm`, `unassign`.  Polls,
provisions, spawns, probes and comments may fail in every instance: their errors
are ordinary outcomes that the code handles.  A cancelled context makes every
store write and every external call fail, which is what `ExecContext`,
`CommandContext` and HTTP requests do.

*Abstractions.*
- A statement that fails has written nothing.  A statement that lands while the
  context is being cancelled may be reported as failed; the store this leaves is
  the one of a SIGTERM that falls right after a successful statement, which is a
  behaviour of the model.
- Amounts are natural numbers; the code divides floats.  The rounding of
  fractions is not modelled.
- The tracker's status write and the dispatch and PR comments are best effort
  and nothing reads them back: they are left out.  The hold comment is kept.
- One daemon per VM and per database, as the code assumes (`workspace.go`).
- `inFlight` is the set of tasks whose agent process is alive.  An agent
  outlives a crash of its daemon, and may outlive a SIGTERM: what the cancelled
  context kills is the `systemd-run --wait` client, while the agent runs in a
  unit of its own (`workspace/spawn.go`).  It then ends by itself at any later
  time (`OrphanExits`).  What it still does to its worktree is not modelled,
  because no process ever looks at that worktree again.
- The events `human_requeue`, `human_abandon` and `human_ratify` are edges of
  the table with no handler in the program: no action raises them.
- `ServeAssumption` is what `config.validate` and the flags allow.

### How `Mirror` and `Runner` correspond to the code

*Steps.*  `pc[t]` is the git process (or lock operation) the provision of task
`t` is about to run: `Lock`, `Stat`, `Clone`, `TakeConfigLock` and `Heal` (twice:
`core.bare`, `extensions.worktreeConfig`), `Fetch`, `RevParse`, `WorktreeAdd`
under the mirror's mutex, `OverrideBare`, `SparseSet`, `ReadTree` after it.  A
plain `git config` is two steps, because `config.lock` is what siblings and
agents collide on.  Each may fail as git does, be cut off from the network or be
killed; `FailWith` is a `SetupError` with the deferred `Unlock`.  `rpc[t]` is
where `Supervisor.run` stands: `StartRun`, `Configure` (credential, author),
`JournalSession`, `Spawn`, `Derive`.  The agent commits, pushes, takes the shared
`config.lock` (`push -u`) and leaves a result file or none.  `Redispatch` is
`runTask` starting over for the same task.

*Data.*  A branch is the set of commits reachable from it.  `failure[t]` keeps
what a failed provision died of, which the code only prints: the properties ask
whether it was a sibling.  What git does is modelled from the comments of
`workspace.go` and from git's behaviour: an exclusive `config.lock` without
retry, a fetch that refuses a checked-out branch (of a non-bare repository; of
any linked worktree since 2.35), `worktree add -b` that refuses a leftover,
`core.bare` that leaks into linked worktrees before 2.35.

*Abstractions.*  Directories `MkdirAll` makes and the result's JSON are outcomes.
`Serve` keeps its own, coarser `Provision` and run: there one action with an
outcome, here its inside.

### How `Broker` corresponds to the code

`Acquire`, `Check`, `Exchange` (legs 1 and 2) and `Delegate` (leg 3 and the
`exp` claim) are the body of `Token`; a leg may fail in transport, at the
endpoint or in its JSON.  Daemon callers share one broker; a helper process has
its own, which dies with it (`Done`), and first resolves its secret and its
operation (`Invoke`, `ResolveClientSecret`, `CredentialHelper`).  `Pass` advances
the clock between any two steps.  `BrokerAssumption` has lifetimes above the skew
(Entra gives an hour, the skew is five minutes): with a shorter one `Token`
would hand out a token it would not reuse.

### How `Provisioning` corresponds to the code

A command is a process with a label, what it has read and what it has printed.
Every request is a step: `Get` reads (a token, an answer and its JSON, or an
error), `Post` writes (accepted and answered, accepted with an empty body,
accepted with the answer lost, refused).  `ListBlueprints`, `ListAgentIdentities`
and `ListAgentUsers` read one page each; `Decide` is what a command concludes from
them; then come `CreateBlueprint`, `CreateBlueprintPrincipal`,
`EnsureAgentIdentity`, `CreateAgentIdentity`, `CreateAgentUser` with its retry
over the propagation lag, and the three steps of `ensureADOGrant`, which never
aborts.  The world may kill a command, sign the operator out, delay propagation
and fail requests, until it calms down (`Calm`).  `overlapped` remembers that two
writing commands were in flight at once, which the program does not guard against
and the properties except.

### How `InitCommand` corresponds to the code

One variable is `config.yaml`, one the run.  A run is `initCmd` (defaults from
the file read raw, the environment over them, or flags), one prompt per step
(`Type`, `Keep`, `InputEnds`), `confirmUnit`, `validate`,
`validateADOBeforeWrite`, `writeConfig` (the diff), `confirmYesNo`, `Truncate`
and `Fill` (the two halves of `os.WriteFile`), `writePlaybooks`,
`writeSystemdUnit`, `finishInit`.  An answer is a value, the file holds texts,
and `Scalar` is what YAML reads in a text: a value, nothing, or a syntax error
that makes the whole file unreadable.  `render` prints every value bare (`%s`),
so the text of a value is the value itself, and need not read as it;
`reconstructPriorInput` and `Loads` go through `Scalar`.  Which check refuses
which class of field is a constant, one field per class.  `Edit` is a hand on
the files, which may write any text, `Kill` the end of the process at any step.

### How the deciding parts correspond to the code

A part without state of its own is a call: `Init` picks a request, one action
answers it, and properties are about the pair (`Decision`).  Strings keep only
what the code looks at: a path is a sequence of tokens or of segments, a
document a decoded value, a stream a sequence of lines with a length, a version
a sequence of numbers.  `Config`, `Ingest` and `Preflight` extend each other as
the packages import each other, so that a poll and a wiring are checked under
configurations that `Load` accepts or refuses.  What a run leaves is two things:
the fate of each path, as the worktree shows it against the base commit, and the
paths the task's branch changed, as committed and pushed.  They need not agree,
and `git diff --name-only <base>` reads the first only (`Remit`).

## Runs

| Run | Instance | Shows |
|---|---|---|
| `faults` | 1 contract, 2 gates, every fault but `load` | `TypeOK`, `ReviewCertified`, `AtMostOnce`, `JournalReplays`, `AgentAccountable`, `NoAutoRetry`, and that the store implements `TaskRecord` |
| `pool` | 3 contracts, pool 3, ceiling 12 over 5 (two slots), `--once`, crashes | `BudgetAdmission` (of the agents one process waits for, with survivors of earlier ones beside them), `SlotsAccounted`, `HoldCommentTrue` |
| `live` | 2 contracts, pool 1, no infrastructure fault | `EveryTaskSettles` |
| `stop` | 2 contracts, pool 1, SIGTERM | `SigtermStops` |
| `worktrees` | 2 tasks, git >= 2.35, network, kills, pushes with upstream, 1 second dispatch | `MirrorInv`, `FailuresExplained`, `RunsInItsOwnWorktree`, and that the branches implement `IsolatedWorktrees` |
| `broker` | 3 daemon callers of 2 roles, 1 helper process, clock to 3 | `BrokerInv`, `TokenIsRoles`, `TokenOutlivesUse`, `OneMintPerMiss` |
| `provision` | 2 operators, 1 role, pages of 2, 2 attempts, every fault | `TypeOK`, `SuccessIsProvisioned`, `EnsuresAreIdempotent`, `WritesAnnounced`, `RetriesConverge` |
| `init` | 5 prompted fields, one per class, texts that bare read as themselves, as another value or not at all, 2 runs and 1 edit between any steps | `UnchangedFieldsSurvive`, `WritesWhatItShowed`, `GreenIsServable` |
| `decisions` | every request of the nine deciding parts within its bounds | the twelve properties of those parts |

Bounds.

- `Serve`.  Goroutines of different contracts share only the semaphore, the wait
  group, the loop and the context: what a single contract can go through is
  exhausted by one contract (`faults`), and what contracts do to each other by
  three on two slots, one more than fits (`pool`).  One slot for two contracts is
  the tightest pool for liveness.  Two gates are the smallest list with a green
  one before a red one.  `MaxDispatch` bounds the dispatch rows of one task and
  only matters where `load` faults, or a cancelled context, let a known contract
  through.  `pool` and `stop` configure the Dev agent user as Reviewer and no
  gates, a misconfiguration the program accepts and the verifier refuses: it
  keeps verification to one outcome in instances that are about scheduling.
  `pool` is symmetric in the contracts (it has no temporal property).
- `worktrees`.  A collision needs two provisions; a fetch that matters, one
  commit of the base (`MaxAdvance`); a branch to disturb, one commit of the
  agent (`MaxCommits`); a leftover, one second dispatch (`MaxRetries`).  Tasks are
  interchangeable, and the refinement checked is a safety property symmetric in
  them.  The run stops when tasks have no dispatch left (deadlock is not
  checked).
- `broker`.  Two callers of one role race for one miss, a third asks for the
  other role, and the helper is another process; with a skew of 1 and lifetimes
  of 2 and 3 the clock passes through fresh, within the skew and expired.
- `provision`.  A page of two and up to three identities make a second page;
  two blueprints and three identities leave room for every duplicate the
  properties are about; two attempts are one retry.
- `init`.  One field per class of checks; two runs, because a re-run reads what
  the first one left, and one edit at any point.  Besides plain values the remit
  field meets one that YAML cuts (`docs #1`), one that is a syntax error (`*.md`)
  and one in quotes, in the file found, by hand, typed and by flag; the other
  fields go through the same printing and reading.  It ends after the runs
  (deadlock is not checked).
- `decisions`.  Paths are chosen so that one name is a proper prefix of another
  directory's, one is not ASCII and one is a control file, with every fate and
  every pairing git may take for a rename, under a branch that changed nothing,
  one path outside the remit, or everything; targets of the hook are all sequences
  of up to three of six segments; listings have up to two items over every
  assignee, tag list and missing title; forges have up to two pull requests in
  both orders before a third is opened; streams have up to four lines around a
  tail of three events and six bytes; documents up to four characters; the
  tenant list has a tenant of two accounts, one without a tenant, and one whose
  account has the tenant's own id.  Every behaviour is one call (deadlock is not
  checked).

Runs that end in a violation show a place where the program does something else
than the repository says:

| Run | The repository says | The program |
|---|---|---|
| `repoll` | re-polling stays idempotent (`serve.go` 529, AC-03) | any `LoadTask` error counts as "not dispatched": a settled task goes back to `queued` |
| `push` | a fetch never touches the task branches (`workspace.go` 379), so provisions against a warm mirror never produce a `SetupError` (US-0012 AC-12.2) | the playbook has the agent push its branch; from then on git >= 2.35 refuses to fetch into a branch that is checked out, and every later provision of the repository is held while that worktree exists.  An older git would reset the branch instead.  (The mirror setting that `clone --mirror` leaves makes git refuse `git push -u origin HEAD` as the playbook has it: the trace is of an agent that pushes with the setting overridden or unset) |
| `rename` | a run that touches a path outside the remit fails the diff check (AC-17, `workspace.go` 240) | `git diff --name-only` detects renames and lists a moved file under its new name alone: a removal outside the remit passes |

Met while modelling, and not given a run:

- Daemon.  After a crash or a SIGTERM and a restart, the agents that survived
  are not counted: the new semaphore is empty, and the agents in flight, and
  what they spend, can exceed `pool_size` and `max_usd_in_flight` (AC-12.8 of
  US-0012 has the ceiling bound the "total concurrent burn"; three agents under
  two slots are a state of the `pool` run).  No startup step requeues
  in-progress work (system design §8 says so); `max_usd_in_flight` does not cap
  the cost, because admission counts `max_usd_per_run` and the agent is given
  `--max-budget-usd`; a SIGTERM between the two statements of a transition loses
  its journal row (RFC-0001 §Journal has one per transition); a failed probe
  writes no row as the Reviewer; the PR is opened before verification (AC-28 has
  the reverse order); `holdForHuman` posts its comment although its transition
  may have failed; `--poll-interval 0` panics in `time.NewTicker`.
- Workspace.  git prints a name that is not ASCII quoted, so an edit of such a
  file inside the remit is reported as a violation; `sparse-checkout --no-cone`
  patterns match at any depth while `pathInRemit` anchors them, although its
  comment says that it mirrors them; `clone --mirror` sets
  `remote.origin.mirror`, with which `git push -u origin HEAD` as the playbook
  has it is refused; the diff is of the worktree, so what a run committed and
  pushed outside its remit and then removed or restored in the worktree passes,
  and is in the pull request (AC-16 speaks of the "post-run branch diff", AC-17
  of a run whose diff touches a path outside the remit); a killed `git config`
  leaves a `config.lock` that fails every later provision.
- Runner.  A line of stdout beyond 16 MiB ends the telemetry scan, and a result
  event after it is lost.
- Config.  An empty remit path loads and is then refused by `task.Validate` for
  every item; the comment at `config.go` 365-368 says that such paths are caught
  at load.  The adapter compares UPNs without case, `doctor` and the verifier
  exactly.
- Doctor.  Outside `agent-user-pair` mode a reviewer without a UPN is only a
  warning, and `serve` refuses to start.
- Init.  Values are printed without quotes and read back as YAML.  A re-run that
  changes nothing drops the quotes of a value, and where they were needed the
  value with them: a gate or path with ` #` in it is cut by the next re-run, and
  one with `: ` or a leading `*` becomes another value or leaves a file that no
  longer parses, contrary to AC-13.11 ("byte-identical") and to the comment at
  `init.go` 1261-1262 ("an untouched config round-trips byte-for-byte").
  `UnchangedFieldsSurvive` says which texts and values do survive.  Fields
  without a prompt (model tiers, skills, `max_usd_in_flight`, notifications,
  further repos and roles, further remit paths) are dropped by every re-run
  (AC-13.11 keeps what was not changed); a remit path that `config.Load`
  refuses, or a negative `MANDAT_POOL_SIZE`, is written and then refused
  (AC-13.2 validates before the write); flags are ignored by an interactive run
  and the existing file by a non-interactive one; `MANDAT_ENTRA_TENANT` alone
  switches the tenant picker and discovery off; a default kept with a blank line
  is not validated; one identity whose name contains both roles is offered for
  both; discovery reads one page of projects.
- Provisioning.  Two overlapping creates of a role leave an identity that can
  never get its user, because the name is taken; beyond one page of results
  ensures create duplicates; a blueprint's principal is not retried (the code
  says that it is completed by hand, `entra.go` 478-481).

## Fairness

`Serve`'s `FairSpec` assumes:

- weak fairness of the loop and of every goroutine: the Go scheduler runs what
  can run, and calls return.  HTTP clients have a 30 s timeout and an agent a
  budget (`--max-budget-usd`); git commands, gates and the agent's wall-clock
  time have no limit in the code, so that they return is an assumption on the
  environment (hazard, `serve.go` 571);
- strong fairness of a poll that succeeds: an outage of the tracker ends;
- strong fairness of the `ctx.Done()` case of the `select`: Go chooses among
  ready cases at random;
- weak fairness of `Restart`: the unit that `init` writes has
  `Restart=on-failure`.  `live` and `stop` do not rely on it.

Nothing is assumed of faults, of assignment, or of how a check turns out.
`EveryTaskSettles` is checked without infrastructure faults because with them it
is false: an error return of `runTask` strands the task (hazards, `serve.go` 154
and 189).

`Provisioning`'s `FairSpec` says of the world that it calms down, that
identities propagate and that a missing principal is completed by hand, and of
the operator that they sign in and run ensure-blueprint and ensure-role again
and again (strong fairness: a command can only begin when the former has ended).
A command's own steps are weakly fair: a process that is not killed goes on, and
its requests have a timeout.  Before the world calms down anything may fail any
number of times.

The other specifications are checked for safety and state no fairness.

## Proofs

A theorem holds for every value of the constants its module's assumptions allow:
any finite or infinite set of contracts, tasks, callers, operators or roles, any
pool, budget, gates and faults, any documents, listings, machines and paths.  The
assumptions are the named `ASSUME`s, which the runs evaluate, and the hypotheses
that single theorems state: `"load" \notin Faults`, `"store" \notin Faults` and
`ModernGit`.

Each component has one inductive invariant.  It says, for every label a process
may stand at, what the process has established and why nobody can have undone it;
the property itself is a consequence or one conjunct.  Where a module has many
actions, a first lemma sums up the effect of a step as a short disjunction
(`Does`, `Writes`, `Goes`), and the invariants are preserved by each disjunct.

**The daemon.**

- `TypeCorrect`, `SlotsAreAccounted`, `BudgetIsAdmitted` (module `ServeProofs`)
  follow from `SlotsInv`: the types, that the live goroutines are finitely many,
  and `SlotsAccounted` itself.  `TypeOK` alone is not inductive: that `sem` and
  `wg` do not fall below zero needs that they count the goroutines.
  `BudgetIsAdmitted` is about the agents that goroutines of one process wait for;
  it says nothing of the survivors of an earlier process, whose number nothing
  bounds.  It needs that a supervised agent holds a slot and that
  `dispatchLimit` times `MaxUSDPerRun` fits the ceiling, which is where the
  assumption that the ceiling admits one run is used.
- `ReviewIsCertified` (`ServeProofs`) is the main safety result.
  `ReviewCertified` says what is true when a task rests in `in-review`, which no
  step establishes by itself: the invariant carries `ControlInv` (the state
  column, the local variable and the event agree with the label, so that
  `in-review` is entered by one transition only) and `EvidenceInv` (each piece of
  evidence is there from the step that produces it for as long as the goroutine
  may still conclude).  Journal rows are only appended and the counters only
  grow, so evidence that exists stays; a crash forgets the goroutine and with it
  the obligation.  `load` faults do not weaken it: a second dispatch leaves
  `in-review` before it gathers new evidence.
- `VerifyFailsClosed`, `TableIsFunction`, `OnlyHumansLeaveRest` (`ServeProofs`)
  are about the verifier and the table alone; `ReviewIsCertified` rests on the
  first.
- `RecordsAreSound` and its consequences `ContractsRunOnce`,
  `AgentsAreAccountable`, `JournalsReplay`, `HumansAreNotOverruled`
  (`ServeRecordProofs`) assume that `LoadTask` does not err on a row that
  exists; the `repoll` run shows them false otherwise.  The heart is
  `Undispatched`: what `LoadTask` answered in a cycle is still true when the
  goroutine of that cycle writes its first row, because a cycle launches a
  contract once, waits for all it launched, and no other code writes the row.
  From it `Pristine` (an unknown contract has no trace anywhere), `Counted`
  (every counter is zero until the step that advances it), `Accountable` (the
  claim is journaled before anything runs on it), `Watched` (while an agent is
  in flight its task rests in-progress, and its goroutine waits for it or gives
  up) and `Replayable` (the last transition row names the state the goroutine
  carries) are inductive together.
- `HoldCommentsAreTrue` assumes besides that no store write fails: the code posts
  the comment although the write of the transition may have failed.
- `ServeImplementsTaskRecord`: `Persist` and `TransitionUpsert` are the abstract
  `Advance`, `JournalDispatch` and `TransitionRowWrite` its `Log`, and every
  other step stutters, crashes and restarts included.

**Worktrees** (`WorktreeProofs`).  `WorktreeInv` says of a provision at its label
what it has established of the shared repository (`Staged`), of its branch
(`Rooted`) and of its worktree (`Materialized`), and of a run that it is the only
one of its task (`RunOnce`); `Causes` says who can have left a lock behind, and
`Histories` what a branch can contain.  `TouchesAreSerialized`,
`FailuresAreExplained` and `RunsAreIsolated` follow.  `WorktreesImplementIsolation`
assumes `ModernGit`, a git that refuses to fetch into a branch that is checked
out; an older one resets it, which is the other half of the `push` finding.

**Broker** (`BrokerProofs`).  `BrokerInv`: the mutex is held exactly inside
`Token`; a miss stands from the check of the cache to the mint (nobody else can
fill the slot, and the clock makes nothing fresh again); what is returned was
fresh.  `MintsOncePerMiss`, `TokensAreTheRoles` and `TokensOutliveUse` follow.

**Provisioning** (`ProvisioningProofs`).  `SuccessInv` holds however requests are
lost, retried, delayed or overlap: what was listed still exists (Entra's lists
only grow), a command past the user has found or made it, and it aims at the
identity of its own role.  So `RolesAreProvisioned`.  `WritesAreAnnounced` is an
action property of the same invariant.  Idempotence needs more, and its premise:
while commands do not overlap, one at a time writes (`OneWriter`), and what it
decided on is still so when it writes (`Current`).

**Init** (`InitProofs`).  `InitInv` carries, through any prompts, refusals, kills
and edits, where the answers come from (`Defaulted`, `Asks`), what the diff was
made of (`Shown`), and what is on disk behind the run (`Behind`).
`GreenMeansServable`, `ReRunsPreserve` and `TheDiffIsTheWrite` follow, for any
fields, values and texts and whatever YAML reads in them: `ReRunsPreserve` does not
say that an untouched field survives, but exactly when it does.

**The deciding parts** (`DecisionProofs`).  Every call answers the request it was
asked with (`CallsAreAnswered`), so that each theorem is about one function and
all of its arguments.

- `FirstUnmetObligationDecides`, `GatesAreCounted`: any number of gates.
- `PollsAreExact`, `NoConsentIsLost`: any listing, registry and set of tags.  The
  second says that everything `task.Validate` asks of the contract of a consented
  item is implied by `config.Load`, the adapter's constructor and the tracker (an
  item has an id, and case folding makes no name empty), but for the empty path.
- `GuardIsExact`: any worktree and target.  What `Clean` leaves of an absolute
  path has no parent segment, so the relative path starts with ".." exactly when
  the worktree is not a prefix of the target.
- `GreenDoctorServes`: any machine, version and configuration; the comparison of
  versions is shown to agree with the order part by part.
- `OutsideRemitIsCaught`, `InsideRemitPasses`: any repository, fates, branch,
  pairing of renames and patterns.  They are about what the worktree shows; of the
  branch the first says only what follows when nothing it changed was undone in
  the worktree.  The properties speak of directories and names, the code
  of strings, so the heart is that the two readings agree: `MatchesBySegment`
  (`path.Match` matches a name when it matches it segment by segment) and
  `UnderBySegment` (a name has a directory's name and a slash as a prefix when its
  segments start with the directory's), both by induction on the lengths of two
  strings at once, and from them `CoversIs`.  The proof needed a premise that the
  bounded instances did not show: a pattern that itself holds a quotation mark can
  match what git prints of a quoted name without matching the name, so that
  `OutOfRemitCaught` excepts such patterns; `FirstMark` and `LastMark` show that no
  other pattern can do so.
- `NewestIsFound`: any list of pull requests, in any order.  `ListedAre` says what a
  query lists, `NewestIs` what the fold of `FindPR` settles on.
- `StreamsAreRecorded`: any stream.  `TailIs` finds the number of events
  `streamTail` keeps as the greatest that fits, `CostIs` the last result.
- `DiffsReplay`: any two documents.  `RowsReplay` goes through the table of rows
  place by place and says that what is left of it replays what is left of both
  documents and keeps as many lines as the table of lengths says; `LCSBounds`
  that no common subsequence has more.
- `PrefillsHangTogether`: any accounts, organizations, directories and answers.
  `TenantsAre` and `ChoiceIs` follow the tenant from the list of accounts to the
  prompt, `RepoIs` and `RoleIs` what is offered of it.

The functions behind these recur over sequences, over sets of places (the folds)
or over pairs of places (`Match`, `LCS`, `Rows`).  The induction theorems of the
library take operators as parameters, which the provers cannot instantiate, so
`RecursionProofs` works with sets and functions in their place: a recursion over a
bounded measure is a function `G` of tables, `RecursionExists` shows that it has a
fixed point (by a least counterexample, from the well-foundedness of the natural
numbers), `FoldLeftSteps` and `FoldRightSteps` unroll any fold into the sequence of
its intermediate values, and one lemma per fold of the modules (`ListedSteps`,
`BytesSteps`, ...) instantiates them.  `UpFrom`, `DownFrom` and `PairInduction` are
the inductions, over a set of numbers or of pairs of which the step is shown.

Each theorem about a part rests on what its module assumes of the requests: names
of paths are non-empty and end in no slash (`PathsAssumption`: git names files), the
ids of pull requests are given out in order (`PullRequestsAssumption`), lines have a
length (`StreamsAssumption`), accounts have an id of their own and the one logged in
has a tenant (`AccountsAssumption`), a clone URL is of one repository
(`OrgsAssumption`).

Only model-checked: liveness (`EveryTaskSettles`, `SigtermStops`,
`RetriesConverge`), which needs fairness and `ENABLED`.  Every safety invariant and
every action property of the passing runs is proved.

## Not modelled

- Argument dispatch and build information: no state and no decision.
- `Resume` has no caller in the program; `Comment` and `ApplyStatus` write what
  nothing reads back.
- The SQLite schema, its migrations and read-back encoding; HTTP and JSON
  encodings; YAML, but for what it reads in a value `init` printed; the argument
  vector, environment and prompt of the child; what the plan of `provision` and
  the labels of `init` print; logging.
- The field checks of `result.Parse`: a result file is valid or not.
- What old git (< 2.35) does to a pushed task branch: the `worktrees` run has
  the guard of current git (`ModernGit`), and without it the refinement of
  `IsolatedWorktrees` does not hold of pushed branches, which is the other half
  of the `push` finding.

## Plan

Built: every component but argument dispatch.  Next, in order:

1. `Serve` over `Mirror` and `Runner`: a refinement that shows the coarse
   `Provision` and run of `Serve` to be what their steps amount to.
2. A pool of git-credential processes and a daemon that share the endpoint's
   limits, should the code come to handle them.
