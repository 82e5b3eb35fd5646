------------------------------- MODULE Config -------------------------------
(***************************************************************************)
(* internal/config and internal/role: what config.Load accepts, and the    *)
(* two lookups the planes make in what it loaded.  A document is its       *)
(* decoded value; validation collects the name of every field at fault.    *)
(* A remit path is the sequence of its "/"-separated segments, so that an  *)
(* absolute path starts with "" and the empty path is <<"">>.              *)
(***************************************************************************)
EXTENDS Integers, Sequences, FiniteSets

TrackerKind == {"azure-devops", "jira"}
AuthMode == {"arc-managed-identity", "client-certificate"}
IdentityMode == {"service-principal", "agent-user-pair", "agent-identity"}
AutonomyCeiling == {"report", "draft-pr", "unattended"}
ModelTier == {"sonnet", "opus"}

DefaultInProgressState == "Doing"
DefaultPoolSize == 1

Required(field, value) == IF value = "" THEN {field} ELSE {}
OneOf(field, value, enum) == IF value \in enum THEN {} ELSE {field}

EmptyPath == <<"">>
Absolute(path) == Len(path) > 1 /\ path[1] = ""
Parent(path) == \E i \in DOMAIN path : path[i] = ".."

applyDefaults(c) ==
  [c EXCEPT !.tracker.in_progress = IF @ = "" THEN DefaultInProgressState ELSE @,
            !.runner.pool_size = IF @ = 0 THEN DefaultPoolSize ELSE @]

validateTracker(c) ==
  OneOf("tracker.kind", c.tracker.kind, TrackerKind)
    \cup Required("tracker.org", c.tracker.org) \cup Required("tracker.project", c.tracker.project)

validateAuth(c) == OneOf("auth.mode", c.auth.mode, AuthMode)

validateEntra(c) ==
  Required("entra.tenant", c.entra.tenant) \cup Required("entra.blueprint", c.entra.blueprint)
    \cup OneOf("entra.identity_mode", c.entra.identity_mode, IdentityMode)

\* Mutant of validateRepos: without the check on parent directories.
validateReposLoosely(c) ==
  {f \in {"repos"} : DOMAIN c.repos = {}}
    \cup UNION {LET rc == c.repos[name]
                IN  Required("repos.url", rc.url) \cup Required("repos.base_branch", rc.base_branch)
                      \cup {f \in {"repos.paths"} : rc.paths = <<>>}
                      \cup {f \in {"repos.paths[]"} : \E i \in DOMAIN rc.paths : Absolute(rc.paths[i])}
                : name \in DOMAIN c.repos}

validateRepos(c) ==
  {f \in {"repos"} : DOMAIN c.repos = {}}
    \cup UNION {LET rc == c.repos[name]
                IN  Required("repos.url", rc.url) \cup Required("repos.base_branch", rc.base_branch)
                      \cup {f \in {"repos.paths"} : rc.paths = <<>>}
                      \cup {f \in {"repos.paths[]"} :
                              \E i \in DOMAIN rc.paths : Absolute(rc.paths[i]) \/ Parent(rc.paths[i])}
                : name \in DOMAIN c.repos}

AgentUserFields(c, rc) ==
  IF c.entra.identity_mode # "agent-user-pair" THEN {}
  ELSE Required("roles.agent_user_id", rc.agent_user_id)
         \cup Required("roles.agent_user_name", rc.agent_user_name)

\* Mutant of validateRoles: the agent user is never required.
validateRolesUnpaired(c) ==
  UNION {Required("roles.agent_identity_id", c.roles[name].agent_identity_id)
           \cup OneOf("roles.autonomy_ceiling", c.roles[name].autonomy_ceiling, AutonomyCeiling)
         : name \in DOMAIN c.roles}

validateRoles(c) ==
  {f \in {"roles"} : DOMAIN c.roles = {}}
    \cup UNION {LET rc == c.roles[name]
                IN  Required("roles.agent_identity_id", rc.agent_identity_id)
                      \cup AgentUserFields(c, rc)
                      \cup OneOf("roles.autonomy_ceiling", rc.autonomy_ceiling, AutonomyCeiling)
                      \cup OneOf("roles.model_tier", rc.model_tier, ModelTier \cup {""})
                      \cup Required("roles.playbook", rc.playbook)
                : name \in DOMAIN c.roles}

validate(c) ==
  validateTracker(c) \cup validateAuth(c) \cup validateEntra(c) \cup validateRepos(c)
    \cup validateRoles(c)
    \cup {f \in {"runner.pool_size"} : c.runner.pool_size < 0}
    \cup {f \in {"budget.max_usd_per_run"} : c.budget.max_usd_per_run <= 0}
    \cup {f \in {"budget.max_usd_in_flight"} :
            c.budget.max_usd_in_flight # 0 /\ c.budget.max_usd_in_flight < c.budget.max_usd_per_run}

Load(document) ==
  LET c == applyDefaults(document) IN [errors |-> validate(c), config |-> c]

Loads(document) == Load(document).errors = {}

----------------------------------------------------------------------------
Unregistered == [ok |-> FALSE]

RemitDefaultsFor(c, repo) ==
  IF repo \notin DOMAIN c.repos THEN Unregistered
  ELSE [ok |-> TRUE, repo |-> repo, base_branch |-> c.repos[repo].base_branch,
        paths |-> c.repos[repo].paths]

UnknownRole == [ok |-> FALSE]

Resolve(c, name) ==
  IF name \notin DOMAIN c.roles THEN UnknownRole
  ELSE LET rc == c.roles[name]
       IN  [ok |-> TRUE, name |-> name, agent_user_name |-> rc.agent_user_name,
            autonomy_ceiling |-> rc.autonomy_ceiling, playbook |-> rc.playbook,
            model_tier |-> IF rc.model_tier = "" THEN "sonnet" ELSE rc.model_tier]
=============================================================================
