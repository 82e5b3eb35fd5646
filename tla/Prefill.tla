------------------------------ MODULE Prefill ------------------------------
(***************************************************************************)
(* What a fresh `mandat init` offers before anything is typed: the tenant, *)
(* then what its directory and its Azure DevOps organization hold, read    *)
(* with tokens pinned to one az account (init.go 1015-1260, 1539-1600;     *)
(* internal/discovery).                                                    *)
(*                                                                         *)
(* The directory and Azure DevOps are external: az's accounts with their   *)
(* tenants, the one it is logged in to, and what a token of a tenant sees. *)
(***************************************************************************)
EXTENDS Naturals, SequencesExt, Decision

CONSTANTS
  Accounts,       \* az's list of accounts, each [id, tenant]; a tenant has several or none
  LoggedIn,       \* the account a mint without a pin is made for
  Orgs,           \* tenant -> the organizations its token reaches
  Directory,      \* tenant -> its agent identities and agent users
  RowNumber,      \* text that reads as a number -> that number
  Overrides, Picks, Projects, Broken   \* what the operator may type, and which call fails

\* An account has an id of its own, and one is logged in to with its tenant.
ASSUME AccountsAssumption ==
  /\ Accounts \in Seq([id : STRING \ {""}, tenant : STRING])
  /\ \A i, j \in DOMAIN Accounts : Accounts[i].id = Accounts[j].id => i = j
  /\ \E i \in DOMAIN Accounts : Accounts[i].id = LoggedIn /\ Accounts[i].tenant # ""

ASSUME PicksAssumption == Picks \subseteq Seq(STRING)

Tenants == {Accounts[i].tenant : i \in DOMAIN Accounts} \ {""}
TenantOf(account) ==
  Accounts[SelectInSeq(Accounts, LAMBDA row : row.id = account)].tenant
Option(tenant, account) == [tenant |-> tenant, account |-> account]
Nobody == Option("", "")

\* The first account of each tenant.
listTenants ==
  FoldLeft(LAMBDA tenants, row :
             IF row.tenant = "" \/ \E i \in DOMAIN tenants : tenants[i].tenant = row.tenant
               THEN tenants
               ELSE Append(tenants, Option(row.tenant, row.id)),
           <<>>, Accounts)

OutOfRange(value, tenants) == value \in DOMAIN RowNumber /\ RowNumber[value] \notin DOMAIN tenants

\* Mutant of Picked: a typed id is an override, listed or not.
PickedByRow(value, tenants) ==
  IF value = "" THEN tenants[1]
  ELSE IF value \in DOMAIN RowNumber THEN tenants[RowNumber[value]] ELSE Option(value, "")

Picked(value, tenants) ==
  LET named == SelectInSeq(tenants, LAMBDA t : value \in {t.tenant, t.account})
  IN  IF value = "" THEN tenants[1]
      ELSE IF value \in DOMAIN RowNumber THEN tenants[RowNumber[value]]
      ELSE IF named # 0 THEN tenants[named] ELSE Option(value, "")

\* A number out of range asks again; input that ends is a blank line.
pickTenant(answers, tenants) ==
  LET i == SelectInSeq(answers, LAMBDA value : ~OutOfRange(value, tenants))
  IN  Picked(IF i = 0 THEN "" ELSE answers[i], tenants)

chooseTenant(r) ==
  IF r.override # "" THEN Option(r.override, "")
  ELSE IF r.broken = "az" \/ listTenants = <<>> THEN Nobody
  ELSE IF Len(listTenants) = 1 THEN listTenants[1]
  ELSE pickTenant(r.answers, listTenants)

ReposOf(org) ==
  UNION {{[project |-> org.projects[i].name, repo |-> org.projects[i].repos[k]]
          : k \in DOMAIN org.projects[i].repos} : i \in DOMAIN org.projects}

\* What a tenant's token reaches; a clone url is of one repository.
ASSUME OrgsAssumption ==
  \A tenant \in Tenants :
    /\ Orgs[tenant] \in Seq([name : STRING,
                            projects : Seq([name : STRING,
                                            repos : Seq([url : STRING, branch : STRING])])])
    /\ \A org \in ToSet(Orgs[tenant]) : \A x, y \in ReposOf(org) : x.repo.url = y.repo.url => x = y

ASSUME DirectoryAssumption ==
  \A tenant \in Tenants :
    Directory[tenant] \in [identities : Seq([id : STRING, names : SUBSET STRING]),
                          users : Seq([id : STRING, parent : STRING])]

\* The tenant a token minted with --subscription account (or with no pin) is of.
MintedFor(account) == TenantOf(IF account = "" THEN LoggedIn ELSE account)

NotDiscovered == [ok |-> FALSE]

(* The profile, the organizations (exactly one, or nothing), its projects  *)
(* and the repositories of each: a call that fails fails the whole.        *)
Discover(account, broken) ==
  LET orgs == Orgs[MintedFor(account)]
  IN  IF broken \in {"token", "profile", "accounts"} \/ Len(orgs) # 1
           \/ broken \in {"projects", "repositories"}
        THEN NotDiscovered
        ELSE [ok |-> TRUE, org |-> orgs[1]]

attemptDiscovery(option, broken) ==
  IF option.tenant = "" THEN NotDiscovered ELSE Discover(option.account, broken)

projectNames(projects) == [i \in DOMAIN projects |-> projects[i].name]

\* The first project of that name.
repoURLsForProject(org, project) ==
  LET i == SelectInSeq(org.projects, LAMBDA p : p.name = project)
  IN  IF i = 0 THEN <<>> ELSE [k \in DOMAIN org.projects[i].repos |-> org.projects[i].repos[k].url]

defaultBranchForRepoURL(org, url) ==
  LET repos == FlattenSeq([i \in DOMAIN org.projects |-> org.projects[i].repos])
      i == SelectInSeq(repos, LAMBDA repo : repo.url = url)
  IN  IF i = 0 THEN "" ELSE repos[i].branch

NoRole == [identity |-> "", user |-> ""]

\* `names` is the set of roles whose name the display name contains.
roleIdentity(registry, role) ==
  LET i == SelectInSeq(registry.identities, LAMBDA identity : role \in identity.names)
      id == registry.identities[i].id
      u == SelectInSeq(registry.users, LAMBDA user : user.parent # "" /\ user.parent = id)
  IN  IF i = 0 THEN NoRole
      ELSE [identity |-> id, user |-> IF u = 0 THEN "" ELSE registry.users[u].id]

Registry(option, broken) ==
  IF option.tenant = "" \/ broken = "graph" THEN [identities |-> <<>>, users |-> <<>>]
  ELSE Directory[MintedFor(option.account)]

resolvePrefill(r) ==
  LET option == chooseTenant(r)
  IN  [tenant |-> option.tenant, account |-> option.account,
       roles |-> [role \in {"dev", "reviewer"} |-> roleIdentity(Registry(option, r.broken), role)]]

\* What the prompts of a fresh install show in brackets; "" when there is nothing to offer.
Offered(options) == IF options = <<>> THEN "" ELSE options[1]
TypedOr(typed, offered) == IF typed = "" THEN offered ELSE typed

FreshInterview(r) ==
  LET prefill == resolvePrefill(r)
      found == attemptDiscovery(chooseTenant(r), r.broken)
      project == TypedOr(r.project, IF found.ok THEN Offered(projectNames(found.org.projects)) ELSE "")
      url == IF found.ok THEN Offered(repoURLsForProject(found.org, project)) ELSE ""
  IN  [prefill |-> prefill,
       org |-> IF found.ok THEN found.org.name ELSE "",
       project |-> project, url |-> url,
       branch |-> IF found.ok THEN defaultBranchForRepoURL(found.org, url) ELSE ""]

PrefillRequests ==
  [kind : {"prefill"}, override : Overrides, answers : Picks, project : Projects, broken : Broken]

PrefillPrompts == Decide("prefill", FreshInterview)

----------------------------------------------------------------------------
(***************************************************************************)
(* What init offers hangs together.  Every token was minted for the tenant *)
(* it offers, unless the operator named a tenant az does not list or       *)
(* passed one as an override (then it is az's active account's, as the     *)
(* help says); the organization, the repository and its branch, and the    *)
(* identity and the user of each role are of the one tenant the tokens     *)
(* are for, the repository is of the project answered, and the user is     *)
(* that identity's own (US-0015 AC-15.1 to AC-15.5).                       *)
(***************************************************************************)
PrefillConsistent ==
  Decided("prefill") =>
    LET p == Answer.prefill
        minted == MintedFor(p.account)
        orgs == ToSet(Orgs[minted])
        directory == Directory[minted]
    IN  /\ p.tenant \in Tenants /\ request.override = "" => minted = p.tenant
        /\ p.account # "" => minted = p.tenant
        /\ Answer.org # "" => \E o \in orgs : o.name = Answer.org
        /\ p.tenant = "" => /\ Answer.org = "" /\ Answer.url = "" /\ Answer.branch = ""
                            /\ \A role \in DOMAIN p.roles : p.roles[role] = NoRole
        /\ Answer.url # "" =>
             \E o \in orgs : \E x \in ReposOf(o) :
               /\ o.name = Answer.org /\ x.project = Answer.project
               /\ x.repo = [url |-> Answer.url, branch |-> Answer.branch]
        /\ \A role \in DOMAIN p.roles : p.roles[role] # NoRole =>
             /\ \E i \in DOMAIN directory.identities :
                  directory.identities[i].id = p.roles[role].identity
             /\ p.roles[role].user # "" =>
                  \E u \in DOMAIN directory.users :
                    directory.users[u] = [id |-> p.roles[role].user, parent |-> p.roles[role].identity]
=============================================================================
