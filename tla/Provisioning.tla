---------------------------- MODULE Provisioning ----------------------------
(***************************************************************************)
(* cmd/mandat/provision.go over internal/entra: operators run `mandat      *)
(* provision` against one Entra directory.  A command is a process that    *)
(* lists, decides and posts, each HTTP request a step of its own; it may   *)
(* be killed between two of them, and run again.                           *)
(*                                                                         *)
(* What Entra does is modelled from how the code uses it: it accepts an    *)
(* identity under a blueprint that has its principal, one agent user per   *)
(* identity and per userPrincipalName, and rejects (400) a user whose      *)
(* identity has not propagated yet.  It lists what it has, a page at a     *)
(* time, in any order.                                                     *)
(***************************************************************************)
EXTENDS Naturals, Sequences, FiniteSets

CONSTANTS
  Operator,       \* who runs commands
  Runs,           \* the commands each of them runs: a kind, and whether dry
  Role,           \* displayNames of the identities they ensure
  Other,          \* the displayName of what else the tenant holds
  World,          \* what the world may do until it calms down
  PageSize,       \* entries of the one page a list reads ($top=100)
  Attempts,       \* RetryPolicy.Attempts
  MaxBlueprints, MaxIdentities   \* bounds on what the directory accepts

\* A request fails, its answer is lost, its 2xx answer has no body, a new
\* identity propagates late, a command is killed, a session ends.
WorldEvent == {"outage", "lost", "blank", "lag", "kill", "signout"}
Kind == {"auth", "discover", "blueprint", "identity", "role"}

ASSUME ProvisioningAssumption ==
  /\ World \subseteq WorldEvent /\ Runs \in [Operator -> SUBSET (Kind \X BOOLEAN)] /\ Other \notin Role
  /\ PageSize \in Nat \ {0} /\ Attempts \in Nat \ {0}
  /\ MaxBlueprints \in Nat /\ MaxIdentities \in Nat

VARIABLES
  directory,    \* what Entra holds
  op,           \* the command each operator runs, or ran last
  world,        \* what the world may still do
  session,      \* whether the operator's az session is live
  overlapped    \* two writing commands were in flight at once

vars == <<directory, op, world, session, overlapped>>

----------------------------------------------------------------------------
(* The directory.  An identity, a user and a blueprint are named by their  *)
(* place in it; 0 is an empty id.                                          *)

NoId == 0
Ids(seq) == 1..Len(seq)

Label == {"idle", "blueprints", "identities", "users", "relist", "blueprint", "principal",
          "identity", "user", "resolve", "hasgrant", "grant"}
Write == {"blueprint", "principal", "identity", "user", "grant"}

Idle == [kind |-> "discover", role |-> Other, dry |-> TRUE, at |-> "idle",
         blueprints |-> {}, identities |-> {}, users |-> {},
         identity |-> NoId, user |-> NoId, attempt |-> 0, printed |-> {}, exit |-> "none"]

Running(o) == op[o].at # "idle"
Writing(o) == Running(o) /\ ~op[o].dry
At(o, label) == op[o].at = label

\* A command's next state; what it printed and read goes with its process.
Then(o, label) == [op[o] EXCEPT !.at = label]
Ended(o, exit) ==
  [Idle EXCEPT !.kind = op[o].kind, !.role = op[o].role, !.dry = op[o].dry, !.exit = exit]

Becomes(o, next) == op' = [op EXCEPT ![o] = next] /\ UNCHANGED <<world, session, overlapped>>

----------------------------------------------------------------------------
(* Requests.                                                               *)

\* do: a read fails for want of a token, an answer or its JSON.
Get(o, next) ==
  /\ UNCHANGED directory
  /\ \/ session[o] /\ Becomes(o, next)
     \/ /\ ~session[o] \/ "outage" \in world
        /\ Becomes(o, Ended(o, "error"))

\* What one list may return.
Page(ids) ==
  IF Cardinality(ids) <= PageSize THEN {ids}
  ELSE {page \in SUBSET ids : Cardinality(page) = PageSize}

\* doWrite: accepted or not, and the answer arrives, arrives empty, or does
\* not.  403 and every other error end the command alike, but for its hint.
Post(o, accepted, new, next, blank) ==
  \/ accepted /\ directory' = new /\ Becomes(o, next)
  \/ "blank" \in world /\ accepted /\ directory' = new /\ Becomes(o, blank)
  \/ "lost" \in world /\ accepted /\ directory' = new /\ Becomes(o, Ended(o, "error"))
  \/ /\ ~accepted \/ "outage" \in world
     /\ UNCHANGED directory /\ Becomes(o, Ended(o, "error"))

----------------------------------------------------------------------------
(* provision: flags, account, session, sponsors and the blueprint's secret *)
(* are resolved before the first request.                                  *)

\* ensure-auth: a device-code login when signed out, and nothing else.
EnsureAuth(o) ==
  /\ ~Running(o) /\ <<"auth", FALSE>> \in Runs[o]
  /\ \E exit \in {"ok", "error"} :
       /\ op' = [op EXCEPT ![o] = [Idle EXCEPT !.kind = "auth", !.exit = exit]]
       /\ session' = [session EXCEPT ![o] = @ \/ exit = "ok"]
       /\ exit = "error" => ~session[o]
  /\ UNCHANGED <<directory, world, overlapped>>

\* Mutant of Preview: the principal's call is not printed.
PreviewOne(kind) == IF kind = "blueprint" THEN {"blueprint"} ELSE {}

\* AC-14.7: ensure-blueprint prints its calls before it reads anything.
Preview(kind) == IF kind = "blueprint" THEN {"blueprint", "principal"} ELSE {}

Begin(o, kind, role, dry) ==
  /\ ~Running(o) /\ kind # "auth" /\ <<kind, dry>> \in Runs[o]
  /\ kind = "discover" => dry
  /\ \/ /\ session[o]
        /\ op' = [op EXCEPT ![o] = [Idle EXCEPT !.kind = kind, !.role = role, !.dry = dry,
                                    !.at = "blueprints", !.printed = Preview(kind)]]
        /\ overlapped' = (overlapped \/ (~dry /\ \E p \in Operator \ {o} : Writing(p)))
     \/ /\ op' = [op EXCEPT ![o] = [Idle EXCEPT !.kind = kind, !.role = role, !.dry = dry,
                                    !.exit = "error"]]
        /\ UNCHANGED overlapped
  /\ UNCHANGED <<directory, world, session>>

----------------------------------------------------------------------------
(* DiscoverRegistry: three lists, one page each.                           *)

\* EnsureBlueprint stops at the first list: any blueprint is the
\* installation's.
ListBlueprints(o) ==
  /\ At(o, "blueprints")
  /\ \E page \in Page(1..directory.blueprints) :
       Get(o, IF op[o].kind # "blueprint" THEN [Then(o, "identities") EXCEPT !.blueprints = page]
              ELSE IF op[o].dry \/ page # {} THEN Ended(o, "ok")
              ELSE Then(o, "blueprint"))

ListAgentIdentities(o) ==
  /\ At(o, "identities")
  /\ \E page \in Page(Ids(directory.names)) :
       Get(o, [Then(o, "users") EXCEPT !.identities = page])

\* Mutant of Named: a loose match, as the plan's roleProvisioned makes it.
NamedLoosely(o, page) == page

\* The identities of a list that carry the command's displayName.
Named(o, page) == {i \in page : directory.names[i] = op[o].role}

\* Mutant of Matching: an identity without its user counts as absent.
MatchingPaired(o, page, users) ==
  {i \in Named(o, page) : \E u \in users : directory.users[u].parent = i}

Matching(o, page, users) == Named(o, page)

\* Mutant of existingUserFor: no guard against an empty id.
existingUserForAny(id, users) == {u \in users : directory.users[u].parent = id}

existingUserFor(id, users) == {u \in users : id # NoId /\ directory.users[u].parent = id}

\* After the third list the command decides.
Decide(o, users) ==
  LET found == Matching(o, op[o].identities, users)
      print == [op[o] EXCEPT !.users = users, !.printed = @ \cup {"identity", "user"}] IN
  CASE op[o].kind = "discover" -> {Ended(o, "ok")}
    [] op[o].kind = "identity" /\ op[o].blueprints = {} -> {Ended(o, "error")}
    [] op[o].kind = "identity" /\ op[o].blueprints # {} ->
         IF op[o].dry THEN {Ended(o, "ok")}
         ELSE {[Then(o, "relist") EXCEPT !.printed = {"identity"}]}
    [] op[o].kind = "role" /\ (op[o].dry \/ found = {}) ->
         {[print EXCEPT !.at = IF op[o].dry THEN "resolve" ELSE "identity"]}
    [] OTHER -> {[print EXCEPT !.at = "user", !.identity = i] : i \in found}

ListAgentUsers(o) ==
  /\ At(o, "users")
  /\ \E users \in Page(Ids(directory.users)) : \E next \in Decide(o, users) : Get(o, next)

----------------------------------------------------------------------------
(* ensure-blueprint: the blueprint, then its principal.                    *)

CreateBlueprint(o) ==
  /\ At(o, "blueprint")
  /\ Post(o, session[o] /\ directory.blueprints < MaxBlueprints,
          [directory EXCEPT !.blueprints = @ + 1],
          [Then(o, "principal") EXCEPT !.identity = directory.blueprints + 1],
          Then(o, "principal"))

CreateBlueprintPrincipal(o) ==
  /\ At(o, "principal")
  /\ Post(o, session[o] /\ op[o].identity # NoId,
          [directory EXCEPT !.principals = @ \cup {op[o].identity}],
          Ended(o, "ok"), Ended(o, "ok"))

----------------------------------------------------------------------------
(* ensure-identity lists again, as the ensure itself does.                 *)

EnsureAgentIdentity(o) ==
  /\ At(o, "relist")
  /\ \E page \in Page(Ids(directory.names)) :
       Get(o, IF Matching(o, page, op[o].users) # {} THEN Ended(o, "ok") ELSE Then(o, "identity"))

\* ensure-role creates it as the blueprint the operator names, ensure-identity
\* under the first one it listed.
CreateAgentIdentity(o) ==
  LET id == Len(directory.names) + 1
      token == op[o].kind = "role" \/ session[o]   \* ensure-role has the blueprint's own
      owner == IF op[o].kind = "role" THEN directory.principals ELSE op[o].blueprints
      next(new) == IF op[o].kind = "identity" THEN Ended(o, "ok")
                   ELSE [Then(o, "user") EXCEPT !.identity = new] IN
  /\ At(o, "identity")
  /\ Post(o, token /\ owner \cap directory.principals # {} /\ id <= MaxIdentities,
          [directory EXCEPT !.names = Append(@, op[o].role),
                            !.propagated = IF "lag" \in world THEN @ ELSE @ \cup {id}],
          next(id), next(NoId))

----------------------------------------------------------------------------
(* ensure-role: the user of the identity, then the grant.                  *)

\* Entra takes one user per identity and per name, once the identity is seen.
UserAccepted(o) ==
  /\ op[o].identity \in directory.propagated
  /\ \A u \in Ids(directory.users) :
       directory.users[u].parent # op[o].identity /\ directory.users[u].name # op[o].role

\* Mutant of Retried: no bound on the attempts.
RetriedForever(o) == [op[o] EXCEPT !.attempt = @ + 1]

\* isPropagationLag: only a 400 or 404 is retried, after a pause.
Retried(o) ==
  IF op[o].attempt + 1 < Attempts THEN [op[o] EXCEPT !.attempt = @ + 1] ELSE Ended(o, "error")

\* The user of the registry read at the start, or a create.
CreateAgentUser(o) ==
  LET found == existingUserFor(op[o].identity, op[o].users)
      id == Len(directory.users) + 1
      created == [Then(o, "resolve") EXCEPT !.user = id] IN
  /\ At(o, "user")
  /\ \/ \E u \in found : Becomes(o, [Then(o, "resolve") EXCEPT !.user = u]) /\ UNCHANGED directory
     \/ found = {} /\ UserAccepted(o)
        /\ Post(o, TRUE,
                [directory EXCEPT !.users = Append(@, [parent |-> op[o].identity, name |-> op[o].role])],
                created, Then(o, "resolve"))
     \/ found = {} /\ ~UserAccepted(o) /\ UNCHANGED directory
        /\ (Becomes(o, Retried(o)) \/ ("outage" \in world /\ Becomes(o, Ended(o, "error"))))

\* ensureADOGrant never aborts: whatever fails, the command ends well.
ResolveServicePrincipalID(o) ==
  /\ At(o, "resolve") /\ UNCHANGED directory
  /\ \/ Becomes(o, IF op[o].dry THEN Ended(o, "ok")
                   ELSE [Then(o, "hasgrant") EXCEPT !.printed = @ \cup {"grant"}])
     \/ /\ ~session[o] \/ "outage" \in world
        /\ Becomes(o, Ended(o, "ok"))

\* An error of the lookup counts as "no grant".
HasOAuth2Grant(o) ==
  /\ At(o, "hasgrant") /\ UNCHANGED directory
  /\ \/ op[o].user \in directory.grants /\ Becomes(o, Ended(o, "ok"))
     \/ /\ op[o].user \notin directory.grants \/ ~session[o] \/ "outage" \in world
        /\ Becomes(o, Then(o, "grant"))

CreateOAuth2Grant(o) ==
  /\ At(o, "grant")
  /\ directory' \in {directory, [directory EXCEPT !.grants = @ \cup ({op[o].user} \ {NoId})]}
  /\ Becomes(o, Ended(o, "ok"))

EnsureADOGrant(o) == ResolveServicePrincipalID(o) \/ HasOAuth2Grant(o) \/ CreateOAuth2Grant(o)

----------------------------------------------------------------------------
(* The world.                                                              *)

Propagate ==
  \E i \in Ids(directory.names) \ directory.propagated :
    /\ directory' = [directory EXCEPT !.propagated = @ \cup {i}]
    /\ UNCHANGED <<op, world, session, overlapped>>

\* A principal that was not created is completed by hand (entra.go 478-481).
CompletePrincipal ==
  \E b \in (1..directory.blueprints) \ directory.principals :
    /\ \A o \in Operator : ~At(o, "principal")
    /\ directory' = [directory EXCEPT !.principals = @ \cup {b}]
    /\ UNCHANGED <<op, world, session, overlapped>>

Kill(o) == "kill" \in world /\ Running(o) /\ Becomes(o, Ended(o, "error")) /\ UNCHANGED directory

SignOut(o) ==
  /\ "signout" \in world /\ session[o] /\ session' = [session EXCEPT ![o] = FALSE]
  /\ UNCHANGED <<directory, op, world, overlapped>>

\* From here on nothing fails.
Calm ==
  /\ world # {} /\ world' = {}
  /\ UNCHANGED <<directory, op, session, overlapped>>

----------------------------------------------------------------------------
\* The tenant may hold identities, and a user without a parent, of others.
Init ==
  /\ \E others \in {0, PageSize}, b \in {0, 1} :
       directory = [blueprints |-> b, principals |-> 1..b,
                    names |-> [i \in 1..others |-> Other], propagated |-> 1..others,
                    users |-> <<[parent |-> NoId, name |-> Other]>>, grants |-> {}]
  /\ op = [o \in Operator |-> Idle]
  /\ world = World
  /\ session \in [Operator -> BOOLEAN]
  /\ overlapped = FALSE

Step(o) ==
  \/ ListBlueprints(o) \/ ListAgentIdentities(o) \/ ListAgentUsers(o)
  \/ CreateBlueprint(o) \/ CreateBlueprintPrincipal(o) \/ EnsureAgentIdentity(o)
  \/ CreateAgentIdentity(o) \/ CreateAgentUser(o) \/ EnsureADOGrant(o)

Command(o) ==
  \/ EnsureAuth(o)
  \/ \E kind \in Kind, role \in Role, dry \in BOOLEAN : Begin(o, kind, role, dry)
  \/ Step(o) \/ Kill(o) \/ SignOut(o)

Next == (\E o \in Operator : Command(o)) \/ Propagate \/ CompletePrincipal \/ Calm

Spec == Init /\ [][Next]_vars

(***************************************************************************)
(* The world calms down in the end: requests are answered, identities      *)
(* propagate, principals are completed.  An operator signs in and runs     *)
(* ensure-blueprint and ensure-role again and again.                       *)
(***************************************************************************)
Ensures(o, kind, role) == Begin(o, kind, role, FALSE) /\ Running(o)'

Fairness ==
  /\ WF_vars(Calm) /\ WF_vars(Propagate) /\ WF_vars(CompletePrincipal)
  /\ \A o \in Operator :
       /\ WF_vars(Step(o))
       /\ SF_vars(EnsureAuth(o) /\ session'[o])
       /\ \A role \in Role, kind \in {"blueprint", "role"} : SF_vars(Ensures(o, kind, role))

FairSpec == Spec /\ Fairness
=============================================================================
