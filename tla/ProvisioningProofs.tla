------------------------- MODULE ProvisioningProofs -------------------------
(***************************************************************************)
(* Theorems about `mandat provision`, for any operators, roles and         *)
(* commands, any page size and number of attempts, and a world that may    *)
(* fail in every way Provisioning lists.                                   *)
(***************************************************************************)
EXTENDS ProvisioningProperties, FiniteSetTheorems, TLAPS

(***************************************************************************)
(* Facts about the constants, the records and the lists.                   *)
(***************************************************************************)

LEMMA Constants ==
  PageSize \in Nat /\ PageSize > 0 /\ Attempts \in Nat /\ Attempts > 0 /\ Other \notin Role
BY ProvisioningAssumption DEF ProvisioningAssumption

Directories ==
  [blueprints : Nat, principals : SUBSET Nat, names : Seq(Role \cup {Other}),
   propagated : SUBSET Nat, users : Seq([parent : Nat, name : Role \cup {Other}]),
   grants : SUBSET Nat]

Commands ==
  [kind : Kind, role : Role \cup {Other}, dry : BOOLEAN, at : Label,
   blueprints : SUBSET Nat, identities : SUBSET Nat, users : SUBSET Nat,
   identity : Nat, user : Nat, attempt : 0..(Attempts - 1),
   printed : SUBSET Write, exit : {"none", "ok", "error"}]

LEMMA EntryOf ==
  ASSUME NEW S, NEW seq \in Seq(S), NEW i \in Ids(seq)
  PROVE  seq[i] \in S
BY DEF Ids

LEMMA Typed ==
  TypeOK <=> /\ directory \in Directories /\ op \in [Operator -> Commands]
             /\ world \in {World, {}} /\ session \in [Operator -> BOOLEAN] /\ overlapped \in BOOLEAN
BY DEF TypeOK, Directories, Commands

LEMMA IdleTyped == Idle \in Commands
BY Constants DEF Idle, Commands, Kind, Label, Write, NoId

\* How a command ends: it keeps its flags and forgets the rest.
LEMMA EndedIs ==
  ASSUME TypeOK, NEW o \in Operator, NEW exit \in {"ok", "error"}
  PROVE  /\ Ended(o, exit) \in Commands /\ Ended(o, exit).at = "idle"
         /\ Ended(o, exit).exit = exit /\ Ended(o, exit).kind = op[o].kind
         /\ Ended(o, exit).role = op[o].role /\ Ended(o, exit).dry = op[o].dry
         /\ Ended(o, exit).identities = {} /\ Ended(o, exit).users = {}
<1>1. op[o] \in Commands
  BY Typed
<1> QED
  BY <1>1, IdleTyped DEF Ended, Idle, Commands

\* A list that fits a page is read whole; a list that is not empty is not
\* read as empty.
LEMMA PageWhole ==
  ASSUME NEW n \in Nat, NEW page \in Page(1..n)
  PROVE  /\ page \subseteq 1..n
         /\ n <= PageSize => page = 1..n
         /\ page = {} => n = 0
<1>1. IsFiniteSet(1..n) /\ Cardinality(1..n) = n
  BY FS_Interval
<1>2. CASE n <= PageSize
  BY <1>1, <1>2 DEF Page
<1>3. CASE n > PageSize
  <2>1. page \subseteq 1..n /\ Cardinality(page) = PageSize
    BY <1>1, <1>3, Constants DEF Page
  <2>2. page # {}
    BY <2>1, Constants, FS_EmptySet
  <2>3. ~(n <= PageSize)
    BY <1>3, Constants
  <2> QED
    BY <2>1, <2>2, <2>3
<1> QED
  BY <1>2, <1>3, Constants

(***************************************************************************)
(* What a step of a command does to the directory, ...                     *)
(***************************************************************************)
Writes(o) ==
  \/ UNCHANGED directory
  \/ At(o, "blueprint") /\ directory' = [directory EXCEPT !.blueprints = @ + 1]
  \/ /\ At(o, "principal") /\ op[o].identity # NoId
     /\ directory' = [directory EXCEPT !.principals = @ \cup {op[o].identity}]
  \/ /\ At(o, "identity")
     /\ \E ids \in {directory.propagated, directory.propagated \cup {Len(directory.names) + 1}} :
          directory' = [directory EXCEPT !.names = Append(@, op[o].role), !.propagated = ids]
  \/ /\ At(o, "user") /\ UserAccepted(o)
     /\ directory' = [directory EXCEPT
                        !.users = Append(@, [parent |-> op[o].identity, name |-> op[o].role])]
  \/ /\ At(o, "grant")
     /\ directory' = [directory EXCEPT !.grants = @ \cup ({op[o].user} \ {NoId})]

(***************************************************************************)
(* ... and where it goes.                                                  *)
(***************************************************************************)
GoesOn(o, n) ==
  \/ /\ At(o, "blueprints") /\ op[o].kind # "blueprint"
     /\ \E page \in SUBSET Nat : n = [Then(o, "identities") EXCEPT !.blueprints = page]
  \/ /\ At(o, "blueprints") /\ op[o].kind = "blueprint" /\ ~op[o].dry
     /\ directory.blueprints = 0 /\ n = Then(o, "blueprint")
  \/ At(o, "blueprint") /\ \E id \in Nat : n = [Then(o, "principal") EXCEPT !.identity = id]
  \/ /\ At(o, "identities")
     /\ \E page \in Page(Ids(directory.names)) : n = [Then(o, "users") EXCEPT !.identities = page]
  \/ /\ At(o, "users") /\ op[o].kind = "identity" /\ ~op[o].dry
     /\ n = [Then(o, "relist") EXCEPT !.printed = {"identity"}]
  \/ /\ At(o, "users") /\ op[o].kind = "role"
     /\ \E users \in SUBSET Ids(directory.users) :
          LET print == [op[o] EXCEPT !.users = users, !.printed = @ \cup {"identity", "user"}] IN
          \/ op[o].dry /\ n = [print EXCEPT !.at = "resolve"]
          \/ ~op[o].dry /\ Named(o, op[o].identities) = {} /\ n = [print EXCEPT !.at = "identity"]
          \/ /\ ~op[o].dry
             /\ \E i \in Named(o, op[o].identities) : n = [print EXCEPT !.at = "user", !.identity = i]
  \/ /\ At(o, "relist") /\ n = Then(o, "identity")
     /\ \E page \in Page(Ids(directory.names)) : Named(o, page) = {}
  \/ /\ At(o, "identity") /\ op[o].kind = "role"
     /\ directory'.names = Append(directory.names, op[o].role)
     /\ \E id \in {NoId, Len(directory.names) + 1} : n = [Then(o, "user") EXCEPT !.identity = id]
  \/ At(o, "user") /\ op[o].attempt + 1 < Attempts /\ n = [op[o] EXCEPT !.attempt = @ + 1]
  \/ /\ At(o, "user") /\ Provisioned(op[o].role)'
     /\ \E u \in Nat : n = [Then(o, "resolve") EXCEPT !.user = u]
  \/ /\ At(o, "resolve") /\ ~op[o].dry
     /\ n = [Then(o, "hasgrant") EXCEPT !.printed = @ \cup {"grant"}]
  \/ At(o, "hasgrant") /\ n = Then(o, "grant")

Goes(o, n) ==
  \/ n = Ended(o, "error")
  \/ /\ n = Ended(o, "ok")
     /\ op[o].kind = "role" /\ ~op[o].dry => op[o].at \in {"resolve", "hasgrant", "grant"}
  \/ GoesOn(o, n)

Does(o) ==
  /\ Running(o) /\ Writes(o)
  /\ \E n : Goes(o, n) /\ op' = [op EXCEPT ![o] = n]
  /\ UNCHANGED <<world, session, overlapped>>

(***************************************************************************)
(* Every step of a command is one of those.                                *)
(***************************************************************************)

\* A request that only reads.
LEMMA GetDoes ==
  ASSUME TypeOK, NEW o \in Operator, Running(o), NEW n, Goes(o, n), Get(o, n)
  PROVE  Does(o)
BY DEF Get, Becomes, Does, Writes, Goes

\* A request that writes: the step went on only if the directory took it.
LEMMA PostDoes ==
  ASSUME TypeOK, NEW o \in Operator, Running(o), NEW accepted, NEW new, NEW next, NEW blank,
         accepted /\ directory' = new => Writes(o) /\ Goes(o, next) /\ Goes(o, blank),
         Post(o, accepted, new, next, blank)
  PROVE  Does(o)
<1>1. CASE accepted /\ directory' = new /\ (Becomes(o, next) \/ Becomes(o, blank))
  BY <1>1 DEF Becomes, Does
<1>2. CASE accepted /\ directory' = new /\ Becomes(o, Ended(o, "error"))
  BY <1>2 DEF Becomes, Does, Goes
<1>3. CASE UNCHANGED directory /\ Becomes(o, Ended(o, "error"))
  BY <1>3 DEF Becomes, Does, Goes, Writes
<1> QED
  BY <1>1, <1>2, <1>3 DEF Post

LEMMA ListBlueprintsDoes ==
  ASSUME TypeOK, Staged, NEW o \in Operator, ListBlueprints(o)
  PROVE  Does(o)
<1>1. At(o, "blueprints") /\ Running(o) /\ op[o] \in Commands /\ directory.blueprints \in Nat
  BY Typed DEF ListBlueprints, At, Running, Directories
<1>2. PICK page \in Page(1..directory.blueprints) :
        Get(o, IF op[o].kind # "blueprint" THEN [Then(o, "identities") EXCEPT !.blueprints = page]
               ELSE IF op[o].dry \/ page # {} THEN Ended(o, "ok")
               ELSE Then(o, "blueprint"))
  BY DEF ListBlueprints
<1>3. page \in SUBSET Nat /\ (page = {} => directory.blueprints = 0)
  BY <1>1, PageWhole
<1>4. CASE op[o].kind # "blueprint"
  <2>1. Goes(o, [Then(o, "identities") EXCEPT !.blueprints = page])
    BY <1>1, <1>3, <1>4 DEF Goes, GoesOn
  <2> QED
    BY <1>1, <1>2, <1>4, <2>1, GetDoes
<1>5. CASE op[o].kind = "blueprint" /\ (op[o].dry \/ page # {})
  <2>1. Goes(o, Ended(o, "ok"))
    BY <1>5 DEF Goes
  <2> QED
    BY <1>1, <1>2, <1>5, <2>1, GetDoes
<1>6. CASE op[o].kind = "blueprint" /\ ~(op[o].dry \/ page # {})
  <2>1. Goes(o, Then(o, "blueprint"))
    BY <1>1, <1>3, <1>6 DEF Goes, GoesOn
  <2> QED
    BY <1>1, <1>2, <1>6, <2>1, GetDoes
<1> QED
  BY <1>4, <1>5, <1>6

LEMMA ListAgentIdentitiesDoes ==
  ASSUME TypeOK, NEW o \in Operator, ListAgentIdentities(o)
  PROVE  Does(o)
<1>1. At(o, "identities") /\ Running(o)
  BY DEF ListAgentIdentities, At, Running
<1>2. PICK page \in Page(Ids(directory.names)) :
        Get(o, [Then(o, "users") EXCEPT !.identities = page])
  BY DEF ListAgentIdentities
<1>3. Goes(o, [Then(o, "users") EXCEPT !.identities = page])
  BY <1>1 DEF Goes, GoesOn
<1> QED
  BY <1>1, <1>2, <1>3, GetDoes

LEMMA ListAgentUsersDoes ==
  ASSUME TypeOK, Staged, NEW o \in Operator, ListAgentUsers(o)
  PROVE  Does(o)
<1>1. At(o, "users") /\ Running(o) /\ op[o] \in Commands
  BY Typed DEF ListAgentUsers, At, Running
<1>2. PICK users \in Page(Ids(directory.users)) : \E n \in Decide(o, users) : Get(o, n)
  BY DEF ListAgentUsers
<1>3. PICK n \in Decide(o, users) : Get(o, n)
  BY <1>2
<1>4. users \in SUBSET Ids(directory.users)
  <2>1. Len(directory.users) \in Nat
    BY Typed DEF Directories
  <2> QED
    BY <1>2, <2>1, PageWhole DEF Ids
<1>5. op[o].kind \in {"discover", "identity", "role"}
  BY <1>1 DEF Staged, StagedAs, Running, Commands, Kind, At
<1>6. CASE op[o].kind = "discover"
  <2>1. n = Ended(o, "ok")
    BY <1>3, <1>6 DEF Decide
  <2> QED
    BY <1>1, <1>3, <1>6, <2>1, GetDoes DEF Goes
<1>7. CASE op[o].kind = "identity"
  <2>1. \/ n \in {Ended(o, "error"), Ended(o, "ok")}
        \/ ~op[o].dry /\ n = [Then(o, "relist") EXCEPT !.printed = {"identity"}]
    BY <1>3, <1>7 DEF Decide
  <2>2. Goes(o, n)
    BY <1>1, <1>7, <2>1 DEF Goes, GoesOn
  <2> QED
    BY <1>1, <1>3, <2>2, GetDoes
<1>8. CASE op[o].kind = "role"
  <2> DEFINE print == [op[o] EXCEPT !.users = users, !.printed = @ \cup {"identity", "user"}]
  <2>1. \/ op[o].dry /\ n = [print EXCEPT !.at = "resolve"]
        \/ ~op[o].dry /\ Named(o, op[o].identities) = {} /\ n = [print EXCEPT !.at = "identity"]
        \/ /\ ~op[o].dry
           /\ \E i \in Named(o, op[o].identities) : n = [print EXCEPT !.at = "user", !.identity = i]
    BY <1>3, <1>8 DEF Decide, Matching
  <2>2. GoesOn(o, n)
    BY <1>1, <1>4, <1>8, <2>1 DEF GoesOn
  <2> QED
    BY <1>1, <1>3, <2>2, GetDoes DEF Goes
<1> QED
  BY <1>5, <1>6, <1>7, <1>8

LEMMA CreateBlueprintDoes ==
  ASSUME TypeOK, NEW o \in Operator, CreateBlueprint(o)
  PROVE  Does(o)
<1>1. At(o, "blueprint") /\ Running(o) /\ op[o] \in Commands /\ directory.blueprints \in Nat
  BY Typed DEF CreateBlueprint, At, Running, Directories
<1> DEFINE new == [directory EXCEPT !.blueprints = @ + 1]
           next == [Then(o, "principal") EXCEPT !.identity = directory.blueprints + 1]
<1>2. Goes(o, next)
  <2>1. directory.blueprints + 1 \in Nat
    BY <1>1
  <2> QED
    BY <1>1, <2>1 DEF Goes, GoesOn
<1>3. Goes(o, Then(o, "principal"))
  <2>1. op[o].identity \in Nat
    BY <1>1 DEF Commands
  <2>2. Then(o, "principal") = [Then(o, "principal") EXCEPT !.identity = op[o].identity]
    BY <1>1 DEF Then, Commands
  <2> QED
    BY <1>1, <2>1, <2>2 DEF Goes, GoesOn
<1>4. directory' = new => Writes(o)
  BY <1>1 DEF Writes
<1>5. Post(o, session[o] /\ directory.blueprints < MaxBlueprints, new, next, Then(o, "principal"))
  BY DEF CreateBlueprint
<1> QED
  BY <1>1, <1>2, <1>3, <1>4, <1>5, PostDoes

LEMMA CreateBlueprintPrincipalDoes ==
  ASSUME TypeOK, Staged, NEW o \in Operator, CreateBlueprintPrincipal(o)
  PROVE  Does(o)
<1>1. At(o, "principal") /\ Running(o) /\ op[o].kind = "blueprint"
  BY DEF CreateBlueprintPrincipal, At, Running, Staged, StagedAs
<1> DEFINE new == [directory EXCEPT !.principals = @ \cup {op[o].identity}]
           accepted == session[o] /\ op[o].identity # NoId
<1>2. Goes(o, Ended(o, "ok"))
  BY <1>1 DEF Goes
<1>3. accepted /\ directory' = new => Writes(o)
  BY <1>1 DEF Writes
<1>4. Post(o, accepted, new, Ended(o, "ok"), Ended(o, "ok"))
  BY DEF CreateBlueprintPrincipal
<1> QED
  BY <1>1, <1>2, <1>3, <1>4, PostDoes

LEMMA EnsureAgentIdentityDoes ==
  ASSUME TypeOK, Staged, NEW o \in Operator, EnsureAgentIdentity(o)
  PROVE  Does(o)
<1>1. At(o, "relist") /\ Running(o) /\ op[o].kind = "identity"
  BY DEF EnsureAgentIdentity, At, Running, Staged, StagedAs
<1>2. PICK page \in Page(Ids(directory.names)) :
        Get(o, IF Matching(o, page, op[o].users) # {} THEN Ended(o, "ok") ELSE Then(o, "identity"))
  BY DEF EnsureAgentIdentity
<1>3. CASE Named(o, page) # {}
  BY <1>1, <1>2, <1>3, GetDoes DEF Goes, Matching
<1>4. CASE Named(o, page) = {}
  <2>1. Goes(o, Then(o, "identity"))
    BY <1>1, <1>2, <1>4 DEF Goes, GoesOn
  <2> QED
    BY <1>1, <1>2, <1>4, <2>1, GetDoes DEF Matching
<1> QED
  BY <1>3, <1>4

LEMMA CreateAgentIdentityDoes ==
  ASSUME TypeOK, Staged, NEW o \in Operator, CreateAgentIdentity(o)
  PROVE  Does(o)
<1> DEFINE id == Len(directory.names) + 1
           token == op[o].kind = "role" \/ session[o]
           owner == IF op[o].kind = "role" THEN directory.principals ELSE op[o].blueprints
           accepted == token /\ owner \cap directory.principals # {} /\ id <= MaxIdentities
           new == [directory EXCEPT !.names = Append(@, op[o].role),
                                    !.propagated = IF "lag" \in world THEN @ ELSE @ \cup {id}]
           next(i) == IF op[o].kind = "identity" THEN Ended(o, "ok")
                      ELSE [Then(o, "user") EXCEPT !.identity = i]
<1>1. At(o, "identity") /\ Running(o) /\ op[o].kind \in {"identity", "role"}
  BY DEF CreateAgentIdentity, At, Running, Staged, StagedAs
<1>2. Post(o, accepted, new, next(id), next(NoId))
  BY DEF CreateAgentIdentity
<1>3. ASSUME accepted, directory' = new PROVE Writes(o)
  <2>1. \E ids \in {directory.propagated, directory.propagated \cup {id}} :
          directory' = [directory EXCEPT !.names = Append(@, op[o].role), !.propagated = ids]
    <3>1. CASE "lag" \in world
      BY <1>3, <3>1
    <3>2. CASE "lag" \notin world
      BY <1>3, <3>2
    <3> QED
      BY <3>1, <3>2
  <2> QED
    BY <1>1, <2>1 DEF Writes
<1>4. ASSUME accepted, directory' = new, NEW i \in {NoId, id} PROVE Goes(o, next(i))
  <2>1. CASE op[o].kind = "identity"
    BY <2>1 DEF Goes
  <2>2. CASE op[o].kind = "role"
    <3>1. directory'.names = Append(directory.names, op[o].role)
      BY <1>4, Typed DEF Directories
    <3> QED
      BY <1>1, <2>2, <3>1 DEF Goes, GoesOn
  <2> QED
    BY <1>1, <2>1, <2>2
<1>5. accepted /\ directory' = new => Writes(o) /\ Goes(o, next(id)) /\ Goes(o, next(NoId))
  BY <1>3, <1>4
<1> HIDE DEF accepted, new, next
<1> QED
  BY <1>1, <1>2, <1>5, PostDoes

\* A user of the identity: the role's, which makes it provisioned.
LEMMA UserProvisions ==
  ASSUME Listed, Parented, Aimed, NEW o \in Operator, At(o, "user"),
         NEW u \in existingUserFor(op[o].identity, op[o].users)
  PROVE  u \in Ids(directory.users) /\ directory.users[u].parent = op[o].identity
         /\ op[o].identity # NoId /\ directory.users[u].name = op[o].role
BY DEF Listed, Parented, Aimed, existingUserFor

LEMMA CreateAgentUserDoes ==
  ASSUME TypeOK, Staged, Listed, Parented, Aimed, NEW o \in Operator, CreateAgentUser(o)
  PROVE  Does(o)
<1> DEFINE found == existingUserFor(op[o].identity, op[o].users)
           id == Len(directory.users) + 1
           user == [parent |-> op[o].identity, name |-> op[o].role]
           new == [directory EXCEPT !.users = Append(@, user)]
<1>1. At(o, "user") /\ Running(o) /\ op[o] \in Commands /\ directory \in Directories
  BY Typed DEF CreateAgentUser, At, Running
<1>t. Len(directory.users) \in Nat /\ Ids(directory.users) = 1..Len(directory.users)
  BY <1>1 DEF Directories, Ids
<1>2. CASE \E u \in found : Becomes(o, [Then(o, "resolve") EXCEPT !.user = u]) /\ UNCHANGED directory
  <2>1. PICK u \in found : Becomes(o, [Then(o, "resolve") EXCEPT !.user = u]) /\ UNCHANGED directory
    BY <1>2
  <2>2. /\ u \in Ids(directory.users) /\ op[o].identity \in Ids(directory.names)
        /\ directory.names[op[o].identity] = op[o].role
        /\ directory.users[u].parent = op[o].identity /\ directory.users[u].name = op[o].role
    BY <1>1, UserProvisions DEF Aimed
  <2>3. directory.users[u] = user
    <3>1. directory.users[u] \in [parent : Nat, name : Role \cup {Other}]
      <4>1. directory.users \in Seq([parent : Nat, name : Role \cup {Other}])
        BY <1>1 DEF Directories
      <4> QED
        BY <2>2, <4>1, EntryOf
    <3> QED
      BY <2>2, <3>1
  <2>4. Provisioned(op[o].role)'
    <3>1. Provisioned(op[o].role)
      BY <2>2, <2>3 DEF Provisioned
    <3>2. op'[o].role = op[o].role
      BY <1>1, <2>1, Typed DEF Becomes, Then, Commands
    <3> QED
      BY <2>1, <3>1, <3>2 DEF Provisioned
  <2>5. Goes(o, [Then(o, "resolve") EXCEPT !.user = u])
    <3>1. u \in Nat
      BY <1>t, <2>2
    <3> QED
      BY <1>1, <2>4, <3>1 DEF Goes, GoesOn
  <2> QED
    BY <1>1, <2>1, <2>5 DEF Does, Becomes, Writes
<1>3. CASE /\ found = {} /\ UserAccepted(o)
           /\ Post(o, TRUE, new, [Then(o, "resolve") EXCEPT !.user = id], Then(o, "resolve"))
  <2>1. op[o].identity \in Ids(directory.names) /\ op[o].identity # NoId
        /\ directory.names[op[o].identity] = op[o].role
    <3>1. op[o].identity \in Ids(directory.names)
      BY <1>3 DEF UserAccepted, Parented
    <3>2. Len(directory.names) \in Nat
      BY <1>1 DEF Directories
    <3> QED
      BY <1>1, <3>1, <3>2 DEF Aimed, Ids, NoId
  <2>2. ASSUME directory' = new PROVE Writes(o)
    BY <1>1, <1>3, <2>2 DEF Writes
  <2>3. ASSUME directory' = new, NEW n, n.role = op[o].role, op' = [op EXCEPT ![o] = n]
        PROVE  Provisioned(op[o].role)'
    <3>1. /\ directory'.names = directory.names /\ directory'.users = Append(directory.users, user)
          /\ op'[o].role = op[o].role
      BY <1>1, <2>3, Typed DEF Directories
    <3>2. user \in [parent : Nat, name : Role \cup {Other}]
      BY <1>1 DEF Commands
    <3>3. id \in Ids(directory'.users) /\ directory'.users[id] = user
      BY <1>1, <3>1, <3>2 DEF Directories, Ids
    <3> QED
      BY <2>1, <3>1, <3>3 DEF Provisioned
  <2>4. ASSUME directory' = new, NEW u \in Nat, Becomes(o, [Then(o, "resolve") EXCEPT !.user = u])
        PROVE  Does(o)
    <3> DEFINE n == [Then(o, "resolve") EXCEPT !.user = u]
    <3>1. n.role = op[o].role
      BY <1>1 DEF Then, Commands
    <3>2. op' = [op EXCEPT ![o] = n] /\ UNCHANGED <<world, session, overlapped>>
      BY <2>4 DEF Becomes
    <3>3. Provisioned(op[o].role)'
      BY <2>3, <2>4, <3>1, <3>2
    <3>4. Goes(o, n)
      BY <1>1, <3>3 DEF Goes, GoesOn
    <3> QED
      BY <1>1, <2>2, <2>4, <3>2, <3>4 DEF Does
  <2>5. Then(o, "resolve") = [Then(o, "resolve") EXCEPT !.user = op[o].user] /\ op[o].user \in Nat
    BY <1>1 DEF Then, Commands
  <2>6. ASSUME Becomes(o, Ended(o, "error")), Writes(o) PROVE Does(o)
    BY <1>1, <2>6 DEF Becomes, Does, Goes
  <2>7. \/ directory' = new /\ \E u \in Nat : Becomes(o, [Then(o, "resolve") EXCEPT !.user = u])
        \/ directory' \in {new, directory} /\ Becomes(o, Ended(o, "error"))
    <3> DEFINE next(u) == [Then(o, "resolve") EXCEPT !.user = u]
    <3>1. id \in Nat
      BY <1>t
    <3>2. \/ directory' = new /\ (Becomes(o, next(id)) \/ Becomes(o, Then(o, "resolve")))
          \/ directory' \in {new, directory} /\ Becomes(o, Ended(o, "error"))
      BY <1>3 DEF Post
    <3>3. next(op[o].user) = Then(o, "resolve")
      BY <2>5
    <3> HIDE DEF next, new, id
    <3>4. \/ directory' = new /\ \E u \in Nat : Becomes(o, next(u))
          \/ directory' \in {new, directory} /\ Becomes(o, Ended(o, "error"))
      <4>1. Becomes(o, next(id)) \/ Becomes(o, Then(o, "resolve")) => \E u \in Nat : Becomes(o, next(u))
        BY <2>5, <3>1, <3>3
      <4> QED
        BY <3>2, <4>1
    <3> QED
      BY <3>4 DEF next
  <2> QED
    BY <2>2, <2>4, <2>6, <2>7 DEF Writes
<1>4. CASE /\ UNCHANGED directory
           /\ Becomes(o, Retried(o)) \/ Becomes(o, Ended(o, "error"))
  <2>1. Goes(o, Retried(o)) /\ Goes(o, Ended(o, "error"))
    BY <1>1 DEF Goes, GoesOn, Retried
  <2> QED
    BY <1>1, <1>4, <2>1 DEF Becomes, Does, Writes
<1> QED
  BY <1>2, <1>3, <1>4 DEF CreateAgentUser

LEMMA EnsureADOGrantDoes ==
  ASSUME TypeOK, Staged, NEW o \in Operator, EnsureADOGrant(o)
  PROVE  Does(o)
<1> SUFFICES ASSUME op[o].at \in {"resolve", "hasgrant", "grant"} PROVE Does(o)
  BY DEF EnsureADOGrant, ResolveServicePrincipalID, HasOAuth2Grant, CreateOAuth2Grant, At
<1>1. Running(o) /\ Goes(o, Ended(o, "ok"))
  BY DEF Running, Goes
<1>2. CASE ResolveServicePrincipalID(o)
  <2>1. ASSUME ~op[o].dry PROVE Goes(o, [Then(o, "hasgrant") EXCEPT !.printed = @ \cup {"grant"}])
    BY <1>2, <2>1 DEF ResolveServicePrincipalID, Goes, GoesOn
  <2>2. \/ Becomes(o, Ended(o, "ok"))
        \/ ~op[o].dry /\ Becomes(o, [Then(o, "hasgrant") EXCEPT !.printed = @ \cup {"grant"}])
    BY <1>2 DEF ResolveServicePrincipalID
  <2> QED
    BY <1>1, <1>2, <2>1, <2>2 DEF ResolveServicePrincipalID, Becomes, Does, Writes
<1>3. CASE HasOAuth2Grant(o)
  <2>1. Goes(o, Then(o, "grant"))
    BY <1>3 DEF HasOAuth2Grant, Goes, GoesOn
  <2> QED
    BY <1>1, <1>3, <2>1 DEF HasOAuth2Grant, Becomes, Does, Writes
<1>4. CASE CreateOAuth2Grant(o)
  BY <1>1, <1>4 DEF CreateOAuth2Grant, Becomes, Does, Writes
<1> QED
  BY <1>2, <1>3, <1>4 DEF EnsureADOGrant

LEMMA StepDoes ==
  ASSUME TypeOK, Staged, Listed, Parented, Aimed, NEW o \in Operator, Step(o) \/ Kill(o)
  PROVE  Does(o)
<1>1. CASE Kill(o)
  BY <1>1 DEF Kill, Becomes, Does, Writes, Goes
<1> QED
  BY <1>1, ListBlueprintsDoes, ListAgentIdentitiesDoes, ListAgentUsersDoes, CreateBlueprintDoes,
     CreateBlueprintPrincipalDoes, EnsureAgentIdentityDoes, CreateAgentIdentityDoes,
     CreateAgentUserDoes, EnsureADOGrantDoes DEF Step

(***************************************************************************)
(* Entra's lists only grow, and keep users and identities in step.         *)
(***************************************************************************)
Extends ==
  /\ directory' \in Directories
  /\ \A i \in Ids(directory.names) :
       i \in Ids(directory.names)' /\ directory'.names[i] = directory.names[i]
  /\ \A u \in Ids(directory.users) :
       u \in Ids(directory.users)' /\ directory'.users[u] = directory.users[u]
  /\ OnePage' => OnePage

LEMMA SameExtends ==
  ASSUME TypeOK, directory'.names = directory.names, directory'.users = directory.users,
         directory' \in Directories
  PROVE  Extends
BY DEF Extends, OnePage

LEMMA WritesExtend ==
  ASSUME TypeOK, NEW o \in Operator, Writes(o)
  PROVE  Extends
<1>1. directory \in Directories /\ op[o] \in Commands
  BY Typed
<1> DEFINE User == [parent : Nat, name : Role \cup {Other}]
           user == [parent |-> op[o].identity, name |-> op[o].role]
<1>2. user \in User /\ op[o].role \in Role \cup {Other} /\ op[o].identity \in Nat /\ op[o].user \in Nat
  BY <1>1 DEF Commands
<1>3. /\ directory.names \in Seq(Role \cup {Other}) /\ directory.users \in Seq(User)
      /\ Len(directory.names) \in Nat /\ Len(directory.users) \in Nat
  BY <1>1 DEF Directories
<1>4. CASE UNCHANGED directory
  BY <1>1, <1>4, SameExtends
<1>5. CASE directory' = [directory EXCEPT !.blueprints = @ + 1]
  <2>1. directory.blueprints + 1 \in Nat
    BY <1>1 DEF Directories
  <2>2. /\ directory' \in Directories
        /\ directory'.names = directory.names /\ directory'.users = directory.users
    BY <1>1, <1>5, <2>1 DEF Directories
  <2> QED
    BY <2>2, SameExtends
<1>6. CASE directory' = [directory EXCEPT !.principals = @ \cup {op[o].identity}]
  BY <1>1, <1>2, <1>6, SameExtends, ZenonT(40) DEF Directories
<1>7. CASE \E ids \in {directory.propagated, directory.propagated \cup {Len(directory.names) + 1}} :
             directory' = [directory EXCEPT !.names = Append(@, op[o].role), !.propagated = ids]
  <2>1. PICK ids \in {directory.propagated, directory.propagated \cup {Len(directory.names) + 1}} :
             directory' = [directory EXCEPT !.names = Append(@, op[o].role), !.propagated = ids]
    BY <1>7
  <2>2. ids \subseteq Nat
    BY <1>1, <1>3, SMTT(30) DEF Directories
  <2>3. /\ directory'.names = Append(directory.names, op[o].role)
        /\ directory'.users = directory.users
    BY <1>1, <2>1 DEF Directories
  <2>4. directory' \in Directories
    <3>1. Append(directory.names, op[o].role) \in Seq(Role \cup {Other})
      BY <1>2, <1>3
    <3> QED
      BY <1>1, <2>1, <2>2, <3>1 DEF Directories
  <2>5. /\ Ids(directory'.names) = Ids(directory.names) \cup {Len(directory.names) + 1}
        /\ \A i \in Ids(directory.names) : directory'.names[i] = directory.names[i]
        /\ Len(directory'.names) = Len(directory.names) + 1
    BY <1>2, <1>3, <2>3 DEF Ids
  <2>6. OnePage' => OnePage
    BY <1>3, <2>3, <2>5, Constants DEF OnePage
  <2> QED
    BY <2>3, <2>4, <2>5, <2>6 DEF Extends
<1>8. CASE directory' = [directory EXCEPT !.users = Append(@, user)]
  <2>1. directory'.names = directory.names /\ directory'.users = Append(directory.users, user)
    BY <1>1, <1>8 DEF Directories
  <2>2. directory' \in Directories
    <3>1. Append(directory.users, user) \in Seq(User)
      BY <1>2, <1>3
    <3> QED
      BY <1>1, <1>8, <3>1 DEF Directories
  <2>3. /\ Ids(directory'.users) = Ids(directory.users) \cup {Len(directory.users) + 1}
        /\ \A u \in Ids(directory.users) : directory'.users[u] = directory.users[u]
        /\ Len(directory'.users) = Len(directory.users) + 1
    <3> HIDE DEF user, User
    <3> QED
      BY <1>2, <1>3, <2>1 DEF Ids
  <2>4. OnePage' => OnePage
    BY <1>3, <2>1, <2>3, Constants DEF OnePage
  <2> QED
    BY <2>1, <2>2, <2>3, <2>4 DEF Extends
<1>9. CASE directory' = [directory EXCEPT !.grants = @ \cup ({op[o].user} \ {NoId})]
  BY <1>1, <1>2, <1>9, SameExtends DEF Directories
<1> QED
  BY <1>4, <1>5, <1>6, <1>7, <1>8, <1>9 DEF Writes

\* What is provisioned stays provisioned.
LEMMA ProvisionedStays ==
  ASSUME Extends, NEW role, Provisioned(role)
  PROVE  Provisioned(role)'
<1>1. PICK i \in Ids(directory.names), u \in Ids(directory.users) :
        directory.names[i] = role /\ directory.users[u] = [parent |-> i, name |-> role]
  BY DEF Provisioned
<1> QED
  BY <1>1 DEF Extends, Provisioned

LEMMA ParentedStep ==
  ASSUME TypeOK, Parented, Aimed, NEW o \in Operator, Writes(o)
  PROVE  Parented'
<1>1. directory \in Directories /\ op[o] \in Commands /\ Extends
  BY Typed, WritesExtend
<1> DEFINE User == [parent : Nat, name : Role \cup {Other}]
           user == [parent |-> op[o].identity, name |-> op[o].role]
<1>2. user \in User /\ op[o].role \in Role \cup {Other} /\ op[o].identity \in Nat /\ op[o].user \in Nat
  BY <1>1 DEF Commands
<1>3. /\ directory.names \in Seq(Role \cup {Other}) /\ directory.users \in Seq(User)
      /\ Len(directory.names) \in Nat /\ Len(directory.users) \in Nat
  BY <1>1 DEF Directories
<1>4. CASE /\ directory'.names = directory.names /\ directory'.users = directory.users
           /\ directory'.propagated = directory.propagated
  BY <1>4 DEF Parented
<1>5. CASE At(o, "identity") /\
           \E ids \in {directory.propagated, directory.propagated \cup {Len(directory.names) + 1}} :
             directory' = [directory EXCEPT !.names = Append(@, op[o].role), !.propagated = ids]
  <2>1. PICK ids \in {directory.propagated, directory.propagated \cup {Len(directory.names) + 1}} :
             directory' = [directory EXCEPT !.names = Append(@, op[o].role), !.propagated = ids]
    BY <1>5
  <2>2. /\ directory'.names = Append(directory.names, op[o].role)
        /\ directory'.users = directory.users /\ directory'.propagated = ids
    BY <1>1, <2>1 DEF Directories
  <2>3. Ids(directory'.names) = Ids(directory.names) \cup {Len(directory.names) + 1}
    BY <1>2, <1>3, <2>2 DEF Ids
  <2>4. directory'.propagated \subseteq Ids(directory'.names)
    BY <2>2, <2>3 DEF Parented
  <2>5. \A i \in Ids(directory.names) :
          i \in Ids(directory'.names) /\ directory'.names[i] = directory.names[i]
    BY <1>1 DEF Extends
  <2>6. \A u \in Ids(directory'.users) : directory'.users[u].parent # NoId =>
          /\ directory'.users[u].parent \in Ids(directory'.names)
          /\ directory'.users[u].name = directory'.names[directory'.users[u].parent]
    BY <2>2, <2>5 DEF Parented
  <2> QED
    BY <2>4, <2>6 DEF Parented
<1>6. CASE /\ At(o, "user") /\ UserAccepted(o)
           /\ directory' = [directory EXCEPT !.users = Append(@, user)]
  <2>1. /\ directory'.names = directory.names /\ directory'.users = Append(directory.users, user)
        /\ directory'.propagated = directory.propagated
    BY <1>1, <1>6 DEF Directories
  <2>2. /\ Ids(directory'.users) = Ids(directory.users) \cup {Len(directory.users) + 1}
        /\ directory'.users[Len(directory.users) + 1] = user
        /\ \A u \in Ids(directory.users) : directory'.users[u] = directory.users[u]
    <3> HIDE DEF user, User
    <3> QED
      BY <1>2, <1>3, <2>1 DEF Ids
  <2>3. op[o].identity # NoId =>
          op[o].identity \in Ids(directory.names) /\ directory.names[op[o].identity] = op[o].role
    BY <1>6 DEF Aimed
  <2>4. \A u \in Ids(directory'.users) : directory'.users[u].parent # NoId =>
          /\ directory'.users[u].parent \in Ids(directory.names)
          /\ directory'.users[u].name = directory.names[directory'.users[u].parent]
    BY <2>2, <2>3 DEF Parented
  <2> QED
    BY <2>1, <2>4 DEF Parented
<1>7. CASE \/ UNCHANGED directory
           \/ directory' = [directory EXCEPT !.blueprints = @ + 1]
           \/ directory' = [directory EXCEPT !.principals = @ \cup {op[o].identity}]
           \/ directory' = [directory EXCEPT !.grants = @ \cup ({op[o].user} \ {NoId})]
  BY <1>1, <1>4, <1>7 DEF Directories
<1> QED
  BY <1>5, <1>6, <1>7 DEF Writes

(***************************************************************************)
(* What is true of a command after a step of its own.                      *)
(***************************************************************************)

LEMMA UpdateTyped ==
  ASSUME NEW c \in Commands
  PROVE  /\ \A label \in Label : [c EXCEPT !.at = label] \in Commands
         /\ \A ids \in SUBSET Nat : /\ [c EXCEPT !.blueprints = ids] \in Commands
                                    /\ [c EXCEPT !.identities = ids] \in Commands
                                    /\ [c EXCEPT !.users = ids] \in Commands
         /\ \A id \in Nat : /\ [c EXCEPT !.identity = id] \in Commands
                            /\ [c EXCEPT !.user = id] \in Commands
         /\ \A calls \in SUBSET Write : [c EXCEPT !.printed = calls] \in Commands
BY DEF Commands

\* Where ensure-role goes from its last list.
LEMMA RoleDecides ==
  ASSUME TypeOK, NEW o \in Operator, NEW n, GoesOn(o, n), At(o, "users"), op[o].kind = "role"
  PROVE  /\ n \in Commands /\ n.kind = op[o].kind /\ n.role = op[o].role /\ n.dry = op[o].dry
         /\ {"identity", "user"} \subseteq n.printed /\ n.exit = op[o].exit
         /\ n.identities = op[o].identities /\ n.users \subseteq Ids(directory.users)
         /\ \/ n.at = "resolve" /\ n.dry
            \/ n.at = "identity" /\ ~n.dry /\ Named(o, op[o].identities) = {}
            \/ n.at = "user" /\ ~n.dry /\ n.identity \in Named(o, op[o].identities)
<1> DEFINE print(users) == [op[o] EXCEPT !.users = users, !.printed = @ \cup {"identity", "user"}]
<1>1. op[o] \in Commands /\ Len(directory.users) \in Nat
  BY Typed DEF Directories
<1>2. PICK users \in SUBSET Ids(directory.users) :
        \/ op[o].dry /\ n = [print(users) EXCEPT !.at = "resolve"]
        \/ ~op[o].dry /\ Named(o, op[o].identities) = {} /\ n = [print(users) EXCEPT !.at = "identity"]
        \/ /\ ~op[o].dry
           /\ \E i \in Named(o, op[o].identities) :
                n = [print(users) EXCEPT !.at = "user", !.identity = i]
  BY DEF GoesOn, At
<1>3. users \in SUBSET Nat /\ {"identity", "user"} \in SUBSET Write
  BY <1>1 DEF Ids, Write
<1>4. \A i \in Named(o, op[o].identities) : i \in Nat
  BY <1>1 DEF Named, Commands
<1>5. op[o].printed \cup {"identity", "user"} \in SUBSET Write
  BY <1>1, <1>3 DEF Commands
<1>6. /\ print(users) \in Commands
      /\ print(users).kind = op[o].kind /\ print(users).role = op[o].role
      /\ print(users).dry = op[o].dry /\ print(users).exit = op[o].exit
      /\ print(users).identities = op[o].identities /\ print(users).users = users
      /\ {"identity", "user"} \subseteq print(users).printed
  <2>1. print(users) \in Commands
    BY <1>1, <1>3, <1>5 DEF Commands
  <2> QED
    BY <1>1, <2>1 DEF Commands
<1>7. CASE op[o].dry /\ n = [print(users) EXCEPT !.at = "resolve"]
  <2> HIDE DEF print
  <2>1. n \in Commands
    BY <1>6, <1>7 DEF Commands, Label
  <2> QED
    BY <1>6, <1>7, <2>1 DEF Commands
<1>8. CASE ~op[o].dry /\ Named(o, op[o].identities) = {} /\ n = [print(users) EXCEPT !.at = "identity"]
  <2> HIDE DEF print
  <2>1. n \in Commands
    BY <1>6, <1>8 DEF Commands, Label
  <2> QED
    BY <1>6, <1>8, <2>1 DEF Commands
<1>9. CASE /\ ~op[o].dry
           /\ \E i \in Named(o, op[o].identities) :
                n = [print(users) EXCEPT !.at = "user", !.identity = i]
  <2>1. PICK i \in Named(o, op[o].identities) :
          n = [print(users) EXCEPT !.at = "user", !.identity = i]
    BY <1>9
  <2>2. i \in Nat
    BY <1>4
  <2> HIDE DEF print
  <2>3. n \in Commands
    BY <1>6, <2>1, <2>2 DEF Commands, Label
  <2> QED
    BY <1>6, <1>9, <2>1, <2>3 DEF Commands
<1> HIDE DEF print
<1> QED
  BY <1>2, <1>7, <1>8, <1>9

\* A command keeps its flags.
LEMMA GoesTyped ==
  ASSUME TypeOK, NEW o \in Operator, NEW n, Goes(o, n)
  PROVE  /\ n \in Commands
         /\ n.kind = op[o].kind /\ n.role = op[o].role /\ n.dry = op[o].dry
<1>1. op[o] \in Commands
  BY Typed
<1>2. Len(directory.names) \in Nat /\ Len(directory.users) \in Nat
  BY Typed DEF Directories
<1>3. CASE GoesOn(o, n)
  <2>1. \A page \in Page(Ids(directory.names)) : page \in SUBSET Nat
    BY <1>2, PageWhole DEF Ids
  <2>2. /\ \A users \in SUBSET Ids(directory.users) : users \in SUBSET Nat
        /\ Len(directory.names) + 1 \in Nat /\ NoId \in Nat
    BY <1>2 DEF Ids, NoId
  <2>4. \A i \in Named(o, op[o].identities) : i \in Nat
    BY <1>1 DEF Named, Commands
  <2>5. op[o].attempt + 1 < Attempts => op[o].attempt + 1 \in 0..(Attempts - 1)
    BY <1>1, Constants DEF Commands
  <2>6. \A label \in Label : Then(o, label) \in Commands
    BY <1>1 DEF Then, Commands
  <2>7. CASE At(o, "users") /\ op[o].kind = "role"
    BY <1>3, <2>7, RoleDecides
  <2>8. CASE At(o, "user") /\ op[o].attempt + 1 < Attempts /\ n = [op[o] EXCEPT !.attempt = @ + 1]
    BY <1>1, <2>5, <2>8 DEF Commands
  <2>9. CASE ~(At(o, "users") /\ op[o].kind = "role")
             /\ ~(n = [op[o] EXCEPT !.attempt = @ + 1] /\ At(o, "user") /\ op[o].attempt + 1 < Attempts)
    <3>1. \E label \in Label :
                 \/ n = Then(o, label)
                 \/ \E page \in SUBSET Nat : n = [Then(o, label) EXCEPT !.blueprints = page]
                 \/ \E page \in SUBSET Nat : n = [Then(o, label) EXCEPT !.identities = page]
                 \/ \E id \in Nat : n = [Then(o, label) EXCEPT !.identity = id]
                 \/ \E id \in Nat : n = [Then(o, label) EXCEPT !.user = id]
                 \/ n = [Then(o, label) EXCEPT !.printed = {"identity"}]
                 \/ n = [Then(o, label) EXCEPT !.printed = @ \cup {"grant"}]
      BY <1>3, <2>1, <2>2, <2>9, ZenonT(40) DEF GoesOn, Label
    <3>2. PICK label \in Label : \/ n = Then(o, label)
                 \/ \E page \in SUBSET Nat : n = [Then(o, label) EXCEPT !.blueprints = page]
                 \/ \E ids \in SUBSET Nat : n = [Then(o, label) EXCEPT !.identities = ids]
                 \/ \E id \in Nat : n = [Then(o, label) EXCEPT !.identity = id]
                 \/ \E user \in Nat : n = [Then(o, label) EXCEPT !.user = user]
                 \/ n = [Then(o, label) EXCEPT !.printed = {"identity"}]
                 \/ n = [Then(o, label) EXCEPT !.printed = @ \cup {"grant"}]
      BY <3>1
    <3>3. PICK c \in Commands : c = Then(o, label)
      BY <2>6
    <3>4. c.kind = op[o].kind /\ c.role = op[o].role /\ c.dry = op[o].dry
      BY <1>1, <3>3 DEF Then, Commands
    <3>5. {"identity"} \in SUBSET Write /\ c.printed \cup {"grant"} \in SUBSET Write
      BY DEF Commands, Write
    <3>6. n \in Commands
      BY <3>2, <3>3, <3>5, UpdateTyped
    <3>7. n.kind = c.kind /\ n.role = c.role /\ n.dry = c.dry
      BY <3>2, <3>3 DEF Commands
    <3> QED
      BY <3>4, <3>6, <3>7
  <2> QED
    BY <2>7, <2>8, <2>9
<1>4. CASE n \in {Ended(o, "error"), Ended(o, "ok")}
  BY <1>4, EndedIs
<1> QED
  BY <1>3, <1>4 DEF Goes

LEMMA GoesStaged ==
  ASSUME TypeOK, Staged, NEW o \in Operator, NEW n, Goes(o, n)
  PROVE  StagedAs(n)
<1>1. op[o] \in Commands /\ StagedAs(op[o])
  BY Typed DEF Staged
<1>2. CASE n \in {Ended(o, "error"), Ended(o, "ok")}
  BY <1>2, EndedIs DEF StagedAs
<1>3. CASE GoesOn(o, n)
  <2>1. op[o].exit = "none" /\ op[o].kind # "auth"
    BY <1>1, <1>3 DEF GoesOn, StagedAs, At
  <2>2. n.exit = op[o].exit
    BY <1>1, <1>3 DEF GoesOn, Then, Commands
  <2>3. n.kind = op[o].kind /\ n.dry = op[o].dry
    BY <1>3, GoesTyped DEF Goes
  <2>4. CASE op[o].at \in {"blueprints", "blueprint", "identities"}
    <3>1. /\ n.printed = op[o].printed
          /\ \/ n.at = "identities" /\ n.kind # "blueprint"
             \/ n.at = "blueprint" /\ op[o].at = "blueprints" /\ n.kind = "blueprint" /\ ~n.dry
             \/ n.at = "principal" /\ op[o].at = "blueprint"
             \/ n.at = "users" /\ op[o].at = "identities"
      BY <1>1, <1>3, <2>3, <2>4 DEF GoesOn, Then, Commands, At
    <3> QED
      BY <1>1, <2>1, <2>2, <2>3, <3>1 DEF StagedAs
  <2>5. CASE op[o].at = "users"
    <3>1. \/ n.at = "relist" /\ n.kind = "identity" /\ ~n.dry /\ n.printed = {"identity"}
          \/ /\ n.kind = "role" /\ {"identity", "user"} \subseteq n.printed
             /\ n.at = "resolve" \/ (n.at \in {"identity", "user"} /\ ~n.dry)
      <4>1. CASE n = [Then(o, "relist") EXCEPT !.printed = {"identity"}]
                 /\ op[o].kind = "identity" /\ ~op[o].dry
        BY <1>1, <2>3, <4>1 DEF Then, Commands
      <4>2. CASE op[o].kind = "role"
        BY <1>3, <2>5, <4>2, RoleDecides DEF At
      <4> QED
        BY <1>3, <2>5, <4>1, <4>2 DEF GoesOn, At
    <3> QED
      BY <2>1, <2>2, <2>3, <3>1 DEF StagedAs
  <2>6. CASE op[o].at \in {"relist", "identity", "user", "resolve", "hasgrant"}
    <3>1. /\ op[o].printed \subseteq n.printed
          /\ \/ n.at = "identity" /\ op[o].at = "relist"
             \/ n.at = "user" /\ op[o].at \in {"identity", "user"} /\ n.kind = "role"
             \/ n.at = "resolve" /\ op[o].at = "user"
             \/ n.at = "hasgrant" /\ op[o].at = "resolve" /\ ~n.dry /\ "grant" \in n.printed
             \/ n.at = "grant" /\ op[o].at = "hasgrant"
      <4>1. CASE op[o].at \in {"relist", "identity"}
        BY <1>1, <1>3, <2>3, <4>1 DEF GoesOn, Then, Commands, At
      <4>2. CASE op[o].at = "user"
        <5>1. CASE n = [op[o] EXCEPT !.attempt = @ + 1]
          BY <1>1, <4>2, <2>3, <2>6, <5>1 DEF Commands, StagedAs
        <5>2. CASE \E u \in Nat : n = [Then(o, "resolve") EXCEPT !.user = u]
          BY <1>1, <4>2, <2>3, <5>2 DEF Then, Commands
        <5> QED
          BY <1>3, <4>2, <5>1, <5>2 DEF GoesOn, At
      <4>3. CASE op[o].at \in {"resolve", "hasgrant"}
        <5>1. CASE n = [Then(o, "hasgrant") EXCEPT !.printed = @ \cup {"grant"}]
                   /\ op[o].at = "resolve" /\ ~op[o].dry
          BY <1>1, <2>3, <5>1 DEF Then, Commands
        <5>2. CASE n = Then(o, "grant") /\ op[o].at = "hasgrant"
          BY <1>1, <2>3, <5>2 DEF Then, Commands
        <5> QED
          BY <1>3, <4>3, <5>1, <5>2 DEF GoesOn, At
      <4> QED
        BY <2>6, <4>1, <4>2, <4>3
    <3> QED
      BY <1>1, <2>1, <2>2, <2>3, <3>1 DEF StagedAs
  <2> QED
    BY <1>3, <2>4, <2>5, <2>6 DEF GoesOn, At
<1> QED
  BY <1>2, <1>3 DEF Goes

LEMMA GoesListed ==
  ASSUME TypeOK, Listed, NEW o \in Operator, NEW n, Goes(o, n)
  PROVE  n.identities \subseteq Ids(directory.names) /\ n.users \subseteq Ids(directory.users)
<1>1. op[o] \in Commands
  BY Typed
<1>2. Len(directory.names) \in Nat
  BY Typed DEF Directories
<1>3. CASE n \in {Ended(o, "error"), Ended(o, "ok")}
  BY <1>3, EndedIs
<1>4. CASE GoesOn(o, n)
  <2>1. \A page \in Page(Ids(directory.names)) : page \subseteq Ids(directory.names)
    BY <1>2, PageWhole DEF Ids
  <2> QED
    BY <1>1, <1>4, <2>1, ZenonT(40) DEF GoesOn, Listed, Then, Commands
<1> QED
  BY <1>3, <1>4 DEF Goes

LEMMA GoesAimed ==
  ASSUME TypeOK, Listed, Aimed, NEW o \in Operator, NEW n, Goes(o, n), Writes(o),
         n.at = "user", n.identity # NoId
  PROVE  n.identity \in Ids(directory.names)' /\ directory'.names[n.identity] = op[o].role
<1>1. op[o] \in Commands /\ Extends
  BY Typed, WritesExtend
<1>2. GoesOn(o, n)
  BY EndedIs DEF Goes
<1>3. CASE At(o, "users")
  <2>1. n.identity \in Named(o, op[o].identities)
    <3>1. CASE op[o].kind = "role"
      BY <1>2, <1>3, <3>1, RoleDecides
    <3>2. CASE op[o].kind # "role"
      BY <1>1, <1>2, <1>3, <3>2 DEF GoesOn, At, Then, Commands
    <3> QED
      BY <3>1, <3>2
  <2> QED
    BY <1>1, <2>1 DEF Named, Listed, Extends
<1>4. CASE At(o, "identity")
  <2>1. directory'.names = Append(directory.names, op[o].role)
        /\ n.identity \in {NoId, Len(directory.names) + 1}
    BY <1>1, <1>2, <1>4 DEF GoesOn, At, Then, Commands
  <2>2. directory.names \in Seq(Role \cup {Other})
    BY Typed DEF Directories
  <2> QED
    BY <1>1, <2>1, <2>2 DEF Ids, Commands
<1>5. CASE At(o, "user")
  <2>1. n.identity = op[o].identity
    BY <1>1, <1>2, <1>5 DEF GoesOn, At, Then, Commands
  <2> QED
    BY <1>1, <1>5, <2>1 DEF Aimed, Extends
<1> QED
  BY <1>1, <1>2, <1>3, <1>4, <1>5 DEF GoesOn, Then, Commands, At

LEMMA GoesSettled ==
  ASSUME TypeOK, Staged, Settled, NEW o \in Operator, NEW n, Goes(o, n), Writes(o), Running(o),
         op' = [op EXCEPT ![o] = n], ~n.dry,
         \/ n.at \in {"resolve", "hasgrant", "grant"}
         \/ n.kind = "role" /\ n.exit = "ok"
  PROVE  Provisioned(n.role)'
<1>1. op[o] \in Commands /\ Extends /\ op[o].exit = "none"
  BY Typed, WritesExtend DEF Staged, StagedAs, Running
<1>2. n.kind = op[o].kind /\ n.role = op[o].role /\ n.dry = op[o].dry /\ op'[o] = n
  BY GoesTyped, Typed
<1>3. CASE op[o].at \in {"resolve", "hasgrant", "grant"}
  <2>1. PICK role : role = op[o].role
    OBVIOUS
  <2>2. Provisioned(role)
    BY <1>2, <1>3, <2>1 DEF Settled
  <2>3. Provisioned(role)'
    BY <1>1, <2>2, ProvisionedStays
  <2> QED
    BY <1>2, <2>1, <2>3 DEF Provisioned
<1>4. CASE op[o].at \notin {"resolve", "hasgrant", "grant"}
  <2>1. GoesOn(o, n)
    BY <1>2, <1>4, EndedIs DEF Goes
  <2>2. n.exit = "none"
    BY <1>1, <2>1 DEF GoesOn, Then, Commands
  <2>3. Provisioned(op[o].role)'
    BY <1>1, <1>2, <1>4, <2>1, <2>2 DEF GoesOn, Then, Commands, At
  <2> QED
    BY <1>2, <2>3 DEF Provisioned
<1> QED
  BY <1>3, <1>4

(***************************************************************************)
(* Every step of the system is a step of a command, the start of one, or   *)
(* the world's.                                                            *)
(***************************************************************************)
Starts(o) ==
  /\ ~Running(o) /\ UNCHANGED <<directory, world>>
  /\ session' \in [Operator -> BOOLEAN] /\ overlapped' \in BOOLEAN
  /\ \E n \in Commands :
       /\ op' = [op EXCEPT ![o] = n] /\ StagedAs(n) /\ n.at \in {"idle", "blueprints"}
       /\ n.identities = {} /\ n.users = {} /\ (n.exit = "ok" => n.kind = "auth")
       /\ ~overlapped' => /\ ~overlapped
                          /\ n.at # "idle" /\ ~n.dry => \A p \in Operator \ {o} : ~Writing(p)

Turns ==
  /\ directory' \in Directories /\ op' = op
  /\ directory'.names = directory.names /\ directory'.users = directory.users
  /\ directory'.blueprints = directory.blueprints
  /\ directory'.propagated \subseteq directory.propagated \cup Ids(directory.names)
  /\ world' \in {World, {}} /\ session' \in [Operator -> BOOLEAN] /\ overlapped' = overlapped

LEMMA CommandStarts ==
  ASSUME TypeOK, NEW o \in Operator,
         EnsureAuth(o) \/ \E kind \in Kind, role \in Role, dry \in BOOLEAN : Begin(o, kind, role, dry)
  PROVE  Starts(o)
<1>1. CASE EnsureAuth(o)
  <2>1. PICK exit \in {"ok", "error"} :
          /\ op' = [op EXCEPT ![o] = [Idle EXCEPT !.kind = "auth", !.exit = exit]]
          /\ session' = [session EXCEPT ![o] = @ \/ exit = "ok"]
    BY <1>1 DEF EnsureAuth
  <2> DEFINE n == [Idle EXCEPT !.kind = "auth", !.exit = exit]
  <2>2. n \in Commands /\ n.at = "idle" /\ n.identities = {} /\ n.users = {} /\ n.kind = "auth"
    BY IdleTyped DEF Idle, Commands, Kind
  <2>3. session' \in [Operator -> BOOLEAN]
    <3>1. (session[o] \/ exit = "ok") \in BOOLEAN
      OBVIOUS
    <3> QED
      BY <2>1, <3>1, Typed
  <2>4. StagedAs(n)
    BY <2>2 DEF StagedAs
  <2> HIDE DEF n
  <2>5. ~Running(o) /\ UNCHANGED <<directory, world, overlapped>> /\ overlapped \in BOOLEAN
    BY <1>1, Typed DEF EnsureAuth
  <2>6. op' = [op EXCEPT ![o] = n]
    BY <2>1 DEF n
  <2> QED
    BY <2>2, <2>3, <2>4, <2>5, <2>6 DEF Starts
<1>2. ASSUME NEW kind \in Kind, NEW role \in Role, NEW dry \in BOOLEAN, Begin(o, kind, role, dry)
      PROVE  Starts(o)
  <2>1. /\ ~Running(o) /\ kind # "auth" /\ UNCHANGED <<directory, world, session>>
        /\ session \in [Operator -> BOOLEAN] /\ overlapped \in BOOLEAN
    BY <1>2, Typed DEF Begin
  <2>2. CASE /\ op' = [op EXCEPT ![o] = [Idle EXCEPT !.kind = kind, !.role = role, !.dry = dry,
                                         !.at = "blueprints", !.printed = Preview(kind)]]
             /\ overlapped' = (overlapped \/ (~dry /\ \E p \in Operator \ {o} : Writing(p)))
    <3> DEFINE n == [Idle EXCEPT !.kind = kind, !.role = role, !.dry = dry,
                                 !.at = "blueprints", !.printed = Preview(kind)]
    <3>1. Preview(kind) \in SUBSET Write
      BY DEF Preview, Write
    <3>2. /\ n \in Commands /\ n.at = "blueprints" /\ n.identities = {} /\ n.users = {}
          /\ n.kind = kind /\ n.dry = dry /\ n.printed = Preview(kind) /\ n.exit = "none"
      BY <3>1, IdleTyped DEF Idle, Commands, Kind, Label
    <3>3. StagedAs(n)
      BY <2>1, <3>2 DEF StagedAs, Preview
    <3>4. op' = [op EXCEPT ![o] = n]
      BY <2>2
    <3> HIDE DEF n
    <3>5. overlapped' \in BOOLEAN
          /\ (~overlapped' => ~overlapped /\ (~n.dry => \A p \in Operator \ {o} : ~Writing(p)))
      <4>1. overlapped' <=> (overlapped \/ (~dry /\ \E p \in Operator \ {o} : Writing(p)))
        BY <2>2
      <4>2. overlapped' \in BOOLEAN
        BY <2>2, <2>1
      <4> QED
        BY <3>2, <4>1, <4>2
    <3> QED
      BY <2>1, <3>2, <3>3, <3>4, <3>5 DEF Starts
  <2>3. CASE /\ op' = [op EXCEPT ![o] = [Idle EXCEPT !.kind = kind, !.role = role, !.dry = dry,
                                         !.exit = "error"]]
             /\ UNCHANGED overlapped
    <3> DEFINE n == [Idle EXCEPT !.kind = kind, !.role = role, !.dry = dry, !.exit = "error"]
    <3>1. /\ n \in Commands /\ n.at = "idle" /\ n.identities = {} /\ n.users = {}
          /\ n.exit = "error"
      BY IdleTyped DEF Idle, Commands, Kind
    <3>2. StagedAs(n)
      BY <3>1 DEF StagedAs
    <3>3. op' = [op EXCEPT ![o] = n]
      BY <2>3
    <3> HIDE DEF n
    <3> QED
      BY <2>1, <2>3, <3>1, <3>2, <3>3 DEF Starts
  <2> QED
    BY <1>2, <2>2, <2>3 DEF Begin
<1> QED
  BY <1>1, <1>2

LEMMA NextMoves ==
  ASSUME TypeOK, Staged, Listed, Parented, Aimed, [Next]_vars
  PROVE  (\E o \in Operator : Does(o) \/ Starts(o)) \/ Turns
<1>1. directory \in Directories /\ session \in [Operator -> BOOLEAN] /\ world \in {World, {}}
  BY Typed
<1>2. ASSUME NEW o \in Operator, Command(o) PROVE Does(o) \/ Starts(o) \/ Turns
  <2>1. CASE SignOut(o)
    BY <1>1, <2>1 DEF SignOut, Turns
  <2> QED
    BY <1>2, <2>1, StepDoes, CommandStarts DEF Command
<1>3. CASE Propagate
  <2>1. PICK i \in Ids(directory.names) :
          directory' = [directory EXCEPT !.propagated = @ \cup {i}]
          /\ UNCHANGED <<op, world, session, overlapped>>
    BY <1>3 DEF Propagate
  <2>2. i \in Nat
    BY <1>1 DEF Directories, Ids
  <2> QED
    BY <1>1, <2>1, <2>2 DEF Turns, Directories
<1>4. CASE CompletePrincipal
  <2>1. PICK b \in 1..directory.blueprints :
          directory' = [directory EXCEPT !.principals = @ \cup {b}]
          /\ UNCHANGED <<op, world, session, overlapped>>
    BY <1>4 DEF CompletePrincipal
  <2>2. b \in Nat
    BY <1>1 DEF Directories
  <2> QED
    BY <1>1, <2>1, <2>2 DEF Turns, Directories
<1>5. CASE Calm \/ UNCHANGED vars
  BY <1>1, <1>5 DEF Calm, vars, Turns
<1> QED
  BY <1>2, <1>3, <1>4, <1>5 DEF Next

(***************************************************************************)
(* SuccessInv is inductive.                                                *)
(***************************************************************************)
LEMMA InitDirectory ==
  ASSUME Init
  PROVE  /\ directory \in Directories /\ directory.blueprints \in {0, 1}
         /\ \A i \in Ids(directory.names) : directory.names[i] = Other
         /\ directory.propagated \subseteq Ids(directory.names)
         /\ Ids(directory.users) = {1} /\ directory.users[1].parent = NoId
<1>1. PICK others \in {0, PageSize}, b \in {0, 1} :
        directory = [blueprints |-> b, principals |-> 1..b,
                     names |-> [i \in 1..others |-> Other], propagated |-> 1..others,
                     users |-> <<[parent |-> NoId, name |-> Other]>>, grants |-> {}]
  BY DEF Init
<1>2. others \in Nat /\ b \in Nat
  BY Constants
<1>3. [i \in 1..others |-> Other] \in Seq(Role \cup {Other}) /\ Len([i \in 1..others |-> Other]) = others
  BY <1>2
<1>4. <<[parent |-> NoId, name |-> Other]>> \in Seq([parent : Nat, name : Role \cup {Other}])
  BY DEF NoId
<1>5. directory \in Directories
  BY <1>1, <1>2, <1>3, <1>4 DEF Directories
<1> QED
  BY <1>1, <1>2, <1>3, <1>5 DEF Ids

LEMMA SuccessInit == Init => SuccessInv
<1> SUFFICES ASSUME Init PROVE SuccessInv
  OBVIOUS
<1>1. \A o \in Operator : op[o] = Idle
  BY DEF Init
<1>2. TypeOK
  BY InitDirectory, IdleTyped, Typed DEF Init
<1>3. Staged /\ Listed /\ Aimed /\ Settled /\ SuccessIsProvisioned
  BY <1>1 DEF Staged, StagedAs, Listed, Aimed, Settled, SuccessIsProvisioned, At, Idle
<1>4. Parented
  BY InitDirectory DEF Parented
<1> QED
  BY <1>2, <1>3, <1>4 DEF SuccessInv

LEMMA SuccessDoes ==
  ASSUME SuccessInv, NEW o \in Operator, Does(o)
  PROVE  SuccessInv'
<1> USE DEF SuccessInv
<1>1. PICK n : Goes(o, n) /\ op' = [op EXCEPT ![o] = n]
  BY DEF Does
<1>2. Writes(o) /\ Running(o) /\ Extends /\ UNCHANGED <<world, session, overlapped>>
  BY WritesExtend DEF Does
<1>3. /\ n \in Commands /\ op' \in [Operator -> Commands]
      /\ op'[o] = n /\ \A p \in Operator \ {o} : op'[p] = op[p]
  BY <1>1, GoesTyped, Typed
<1>4. TypeOK'
  BY <1>2, <1>3, Typed DEF Extends, TypeOK, Directories, Commands
<1>5. Staged'
  BY <1>1, <1>3, GoesStaged DEF Staged
<1>6. Listed'
  <2>1. n.identities \subseteq Ids(directory.names) /\ n.users \subseteq Ids(directory.users)
    BY <1>1, GoesListed
  <2> QED
    BY <1>2, <1>3, <2>1 DEF Listed, Extends
<1>7. Parented'
  BY <1>2, ParentedStep
<1>8. Aimed'
  <2>1. n.at = "user" /\ n.identity # NoId =>
          n.identity \in Ids(directory.names)' /\ directory'.names[n.identity] = n.role
    BY <1>1, <1>2, GoesAimed, GoesTyped
  <2> QED
    BY <1>2, <1>3, <2>1 DEF Aimed, At, Extends
<1>9. Settled' /\ SuccessIsProvisioned'
  <2>1. /\ n.at \in {"resolve", "hasgrant", "grant"} /\ ~n.dry => Provisioned(n.role)'
        /\ n.kind = "role" /\ ~n.dry /\ n.exit = "ok" => Provisioned(n.role)'
    BY <1>1, <1>2, GoesSettled
  <2>2. ASSUME NEW p \in Operator \ {o}, Provisioned(op[p].role) PROVE Provisioned(op[p].role)'
    <3>1. PICK role : role = op[p].role
      OBVIOUS
    <3>2. Provisioned(role)'
      BY <1>2, <2>2, <3>1, ProvisionedStays
    <3> QED
      BY <1>3, <3>1, <3>2 DEF Provisioned
  <2>3. Provisioned(n.role)' => Provisioned(op[o].role)'
    BY <1>3 DEF Provisioned
  <2>4. Settled'
    BY <1>3, <2>1, <2>2, <2>3 DEF Settled
  <2>5. SuccessIsProvisioned'
    BY <1>3, <2>1, <2>2, <2>3 DEF SuccessIsProvisioned
  <2> QED
    BY <2>4, <2>5
<1> QED
  BY <1>4, <1>5, <1>6, <1>7, <1>8, <1>9

LEMMA SuccessStarts ==
  ASSUME SuccessInv, NEW o \in Operator, Starts(o)
  PROVE  SuccessInv'
<1> USE DEF SuccessInv
<1>1. PICK n \in Commands :
        /\ op' = [op EXCEPT ![o] = n] /\ StagedAs(n) /\ n.at \in {"idle", "blueprints"}
        /\ n.identities = {} /\ n.users = {} /\ (n.exit = "ok" => n.kind = "auth")
  BY DEF Starts
<1>2. /\ op' \in [Operator -> Commands]
      /\ op'[o] = n /\ \A p \in Operator \ {o} : op'[p] = op[p]
  BY <1>1, Typed
<1>3. UNCHANGED directory
  BY DEF Starts
<1>4. TypeOK'
  BY <1>2, Typed DEF Starts, TypeOK, Directories, Commands
<1>5. Staged' /\ Listed' /\ Aimed' /\ Parented'
  BY <1>1, <1>2, <1>3 DEF Staged, Listed, Aimed, Parented, At
<1>6. ASSUME NEW p \in Operator \ {o} PROVE Provisioned(op[p].role)' <=> Provisioned(op[p].role)
  <2>1. op'[p] = op[p] /\ directory' = directory
    BY <1>2, <1>3
  <2> QED
    BY <2>1 DEF Provisioned
<1>7. Settled' /\ SuccessIsProvisioned'
  BY <1>1, <1>2, <1>6 DEF Settled, SuccessIsProvisioned
<1> QED
  BY <1>4, <1>5, <1>7

LEMMA SuccessTurns ==
  ASSUME SuccessInv, Turns
  PROVE  SuccessInv'
<1> USE DEF SuccessInv
<1>1. \A role : Provisioned(role)' <=> Provisioned(role)
  BY DEF Turns, Provisioned
<1>2. TypeOK'
  BY Typed DEF Turns, TypeOK, Directories, Commands
<1>3. Staged' /\ Listed' /\ Aimed' /\ Parented'
  BY DEF Turns, Staged, Listed, Aimed, Parented, At
<1>4. Settled' /\ SuccessIsProvisioned'
  <2>1. ASSUME NEW o \in Operator, Provisioned(op[o].role) PROVE Provisioned(op[o].role)'
    <3>1. op' = op /\ directory'.names = directory.names /\ directory'.users = directory.users
      BY DEF Turns
    <3> QED
      BY <2>1, <3>1 DEF Provisioned
  <2>2. Settled'
    BY <2>1 DEF Turns, Settled
  <2>3. SuccessIsProvisioned'
    BY <2>1 DEF Turns, SuccessIsProvisioned
  <2> QED
    BY <2>2, <2>3
<1> QED
  BY <1>2, <1>3, <1>4

LEMMA SuccessNext == SuccessInv /\ [Next]_vars => SuccessInv'
<1> SUFFICES ASSUME SuccessInv, [Next]_vars PROVE SuccessInv'
  OBVIOUS
<1>1. (\E o \in Operator : Does(o) \/ Starts(o)) \/ Turns
  BY NextMoves DEF SuccessInv
<1> QED
  BY <1>1, SuccessDoes, SuccessStarts, SuccessTurns

(***************************************************************************)
(* SuccessInv always holds, whatever fails and whoever overlaps: each      *)
(* command is where its kind can be, aims at the role's own identity, and  *)
(* past the user knows the role to be provisioned.                         *)
(***************************************************************************)
THEOREM SuccessMeansProvisioned == Spec => []SuccessInv
BY SuccessInit, SuccessNext, PTL DEF Spec

\* An ensure-role that reports success has provisioned its role (AC-14.3,
\* AC-14.5).
THEOREM RolesAreProvisioned == Spec => []SuccessIsProvisioned
<1>1. SuccessInv => SuccessIsProvisioned
  BY DEF SuccessInv
<1> QED
  BY <1>1, SuccessMeansProvisioned, PTL

(***************************************************************************)
(* A step of a command writes what the command has printed, and a dry run  *)
(* writes nothing.                                                         *)
(***************************************************************************)
LEMMA StepAnnounces ==
  ASSUME SuccessInv, NEW o \in Operator, Step(o), Issued # {}
  PROVE  ~op[o].dry /\ Issued \subseteq op[o].printed
<1>1. directory \in Directories /\ Writes(o) /\ StagedAs(op[o]) /\ op[o] \in Commands
  BY StepDoes, Typed DEF SuccessInv, Does, Staged
<1>2. ASSUME NEW w \in Issued PROVE ~op[o].dry /\ w \in op[o].printed
  <2>1. \/ At(o, "blueprint") /\ w = "blueprint"
        \/ At(o, "principal") /\ w = "principal"
        \/ At(o, "identity") /\ w = "identity"
        \/ At(o, "user") /\ w = "user"
        \/ At(o, "grant") /\ w = "grant"
    BY <1>1, <1>2 DEF Writes, Issued, Directories
  <2> QED
    BY <1>1, <2>1 DEF StagedAs, At
<1> QED
  BY <1>2

(***************************************************************************)
(* No step of a command changes the directory before the command has       *)
(* printed that call, and none of a dry run ever does (AC-14.6, AC-14.7).  *)
(***************************************************************************)
THEOREM WritesAreAnnounced == Spec => WritesAnnounced
<1>1. SuccessInv /\ [Next]_vars =>
        [\A o \in Operator :
           Step(o) /\ Issued # {} => ~op[o].dry /\ Issued \subseteq op[o].printed]_vars
  BY StepAnnounces
<1> QED
  BY <1>1, SuccessMeansProvisioned, PTL DEF Spec, WritesAnnounced

(***************************************************************************)
(* ProvisioningInv is inductive: as long as commands do not overlap, the   *)
(* one that writes still knows what the directory holds.                   *)
(***************************************************************************)
LEMMA ProvisioningInit == Init => ProvisioningInv
<1> SUFFICES ASSUME Init PROVE ProvisioningInv
  OBVIOUS
<1>1. \A o \in Operator : ~Writing(o)
  BY DEF Init, Writing, Running, Idle
<1>2. OneWriter /\ Current
  BY <1>1 DEF OneWriter, Current
<1>3. EnsuresAreIdempotent
  BY InitDirectory, Constants DEF EnsuresAreIdempotent
<1> QED
  BY <1>2, <1>3, SuccessInit DEF ProvisioningInv

\* The command that is not writing leaves the lists alone.
LEMMA OnlyWriters ==
  ASSUME TypeOK, Staged, NEW o \in Operator, Does(o), ~Writing(o)
  PROVE  /\ directory'.names = directory.names /\ directory'.users = directory.users
         /\ directory'.blueprints = directory.blueprints
<1>1. op[o].dry /\ StagedAs(op[o]) /\ Writes(o)
  BY DEF Writing, Does, Staged
<1> QED
  BY <1>1 DEF Writes, StagedAs, At

\* What a writing command reads and decides on, when nobody else writes.
LEMMA GoesCurrent ==
  ASSUME TypeOK, Staged, Current, ~overlapped, NEW o \in Operator, NEW n, Goes(o, n), Writes(o),
         Writing(o), op' = [op EXCEPT ![o] = n]
  PROVE  /\ n.at = "blueprint" => directory'.blueprints = 0
         /\ n.at = "users" /\ OnePage' => n.identities = Ids(directory.names)'
         /\ n.at = "identity" /\ OnePage' =>
              \A i \in Ids(directory.names)' : directory'.names[i] # n.role
<1>1. op[o] \in Commands /\ directory \in Directories /\ Extends /\ ~op[o].dry
  BY Typed, WritesExtend DEF Writing
<1>t. Len(directory.names) \in Nat /\ n.kind = op[o].kind /\ n.role = op[o].role /\ n.dry = op[o].dry
  BY <1>1, GoesTyped DEF Directories
<1>2. ASSUME n.at = "blueprint" PROVE directory'.blueprints = 0
  <2>1. At(o, "blueprints") /\ directory.blueprints = 0
    <3>1. GoesOn(o, n)
      BY <1>2, EndedIs DEF Goes
    <3>2. CASE At(o, "users") /\ op[o].kind = "role"
      BY <1>2, <3>1, <3>2, RoleDecides
    <3>3. CASE ~(At(o, "users") /\ op[o].kind = "role")
      BY <1>1, <1>2, <3>1, <3>3 DEF GoesOn, Then, Commands, At
    <3> QED
      BY <3>2, <3>3
  <2> QED
    BY <2>1 DEF Writes, At
<1>3. ASSUME n.at = "users", OnePage' PROVE n.identities = Ids(directory.names)'
  <2>1. At(o, "identities") /\ n.identities \in Page(Ids(directory.names))
    <3>1. GoesOn(o, n)
      BY <1>3, EndedIs DEF Goes
    <3>2. CASE At(o, "users") /\ op[o].kind = "role"
      BY <1>3, <3>1, <3>2, RoleDecides
    <3>3. CASE ~(At(o, "users") /\ op[o].kind = "role")
      BY <1>1, <1>3, <3>1, <3>3 DEF GoesOn, Then, Commands, At
    <3> QED
      BY <3>2, <3>3
  <2>2. UNCHANGED directory
    BY <2>1 DEF Writes, At
  <2>3. OnePage
    BY <1>1, <1>3 DEF Extends
  <2> QED
    BY <1>t, <2>1, <2>2, <2>3, PageWhole DEF Ids, OnePage
<1>4. ASSUME n.at = "identity", OnePage'
      PROVE  \A i \in Ids(directory.names)' : directory'.names[i] # n.role
  <2>1. GoesOn(o, n)
    BY <1>4, EndedIs DEF Goes
  <2>2. OnePage
    BY <1>1, <1>4 DEF Extends
  <2>3. CASE At(o, "users")
    <3>1. Named(o, op[o].identities) = {}
      <4>1. CASE op[o].kind = "role"
        BY <1>4, <2>1, <2>3, <4>1, RoleDecides
      <4>2. CASE op[o].kind # "role"
        BY <1>1, <1>4, <2>1, <2>3, <4>2 DEF GoesOn, Then, Commands, At
      <4> QED
        BY <4>1, <4>2
    <3>2. op[o].identities = Ids(directory.names)
      BY <2>2, <2>3 DEF Current
    <3>3. UNCHANGED directory
      BY <2>3 DEF Writes, At
    <3> QED
      BY <1>t, <3>1, <3>2, <3>3 DEF Named
  <2>4. CASE At(o, "relist")
    <3>1. PICK page \in Page(Ids(directory.names)) : Named(o, page) = {}
      BY <2>1, <2>4 DEF GoesOn, At
    <3>2. page = Ids(directory.names)
      BY <1>t, <2>2, PageWhole DEF Ids, OnePage
    <3>3. UNCHANGED directory
      BY <2>4 DEF Writes, At
    <3> QED
      BY <1>t, <3>1, <3>2, <3>3 DEF Named
  <2> QED
    BY <1>1, <1>4, <2>1, <2>3, <2>4 DEF GoesOn, Then, Commands, At
<1> QED
  BY <1>2, <1>3, <1>4

\* Whose write it is decides: a blueprint when there was none, an identity
\* when none had its name, a user when none had its parent.
LEMMA IdempotentWrites ==
  ASSUME TypeOK, Current, ~overlapped, EnsuresAreIdempotent, NEW o \in Operator,
         Writes(o), Writing(o), OnePage'
  PROVE  EnsuresAreIdempotent'
<1>1. directory \in Directories /\ op[o] \in Commands /\ OnePage
  BY Typed, WritesExtend DEF Extends
<1>2. /\ directory.blueprints <= 1
      /\ \A i, j \in Ids(directory.names) :
           directory.names[i] = directory.names[j] /\ directory.names[i] \in Role => i = j
      /\ \A u, v \in Ids(directory.users) :
           directory.users[u].parent = directory.users[v].parent => u = v
  BY <1>1 DEF EnsuresAreIdempotent
<1>3. CASE UNCHANGED <<directory.blueprints, directory.names, directory.users>>
  BY <1>2, <1>3 DEF EnsuresAreIdempotent
<1>4. CASE At(o, "blueprint") /\ directory' = [directory EXCEPT !.blueprints = @ + 1]
  <2>1. directory.blueprints = 0
    BY <1>4 DEF Current
  <2>2. /\ directory'.blueprints = 1 /\ directory'.names = directory.names
        /\ directory'.users = directory.users
    BY <1>1, <1>4, <2>1 DEF Directories
  <2> QED
    BY <1>2, <2>2 DEF EnsuresAreIdempotent
<1>5. CASE /\ At(o, "identity")
           /\ \E ids \in {directory.propagated, directory.propagated \cup {Len(directory.names) + 1}} :
                directory' = [directory EXCEPT !.names = Append(@, op[o].role), !.propagated = ids]
  <2>1. \A i \in Ids(directory.names) : directory.names[i] # op[o].role
    BY <1>1, <1>5 DEF Current
  <2>2. /\ directory'.names = Append(directory.names, op[o].role)
        /\ directory'.users = directory.users /\ directory'.blueprints = directory.blueprints
    BY <1>1, <1>5 DEF Directories
  <2>3. directory.names \in Seq(Role \cup {Other}) /\ op[o].role \in Role \cup {Other}
    BY <1>1 DEF Directories, Commands
  <2>4. \A i, j \in Ids(directory'.names) :
          directory'.names[i] = directory'.names[j] /\ directory'.names[i] \in Role => i = j
    <3>1. /\ Ids(directory'.names) = Ids(directory.names) \cup {Len(directory.names) + 1}
          /\ directory'.names[Len(directory.names) + 1] = op[o].role
          /\ \A i \in Ids(directory.names) : directory'.names[i] = directory.names[i]
      BY <2>2, <2>3 DEF Ids
    <3> QED
      BY <1>2, <2>1, <3>1
  <2> QED
    BY <1>2, <2>2, <2>4 DEF EnsuresAreIdempotent
<1>6. CASE /\ At(o, "user") /\ UserAccepted(o)
           /\ directory' = [directory EXCEPT
                              !.users = Append(@, [parent |-> op[o].identity, name |-> op[o].role])]
  <2> DEFINE User == [parent : Nat, name : Role \cup {Other}]
             user == [parent |-> op[o].identity, name |-> op[o].role]
  <2>1. \A u \in Ids(directory.users) : directory.users[u].parent # op[o].identity
    BY <1>6 DEF UserAccepted
  <2>2. /\ directory'.users = Append(directory.users, user)
        /\ directory'.names = directory.names /\ directory'.blueprints = directory.blueprints
    BY <1>1, <1>6 DEF Directories
  <2>3. directory.users \in Seq(User) /\ user \in User /\ user.parent = op[o].identity
    BY <1>1 DEF Directories, Commands
  <2>4. \A u, v \in Ids(directory'.users) :
          directory'.users[u].parent = directory'.users[v].parent => u = v
    <3> HIDE DEF user, User
    <3>1. /\ Ids(directory'.users) = Ids(directory.users) \cup {Len(directory.users) + 1}
          /\ directory'.users[Len(directory.users) + 1] = user
          /\ \A u \in Ids(directory.users) : directory'.users[u] = directory.users[u]
      BY <2>2, <2>3 DEF Ids
    <3> QED
      BY <1>2, <2>1, <2>3, <3>1
  <2> QED
    BY <1>2, <2>2, <2>4 DEF EnsuresAreIdempotent
<1>7. CASE \/ UNCHANGED directory
           \/ directory' = [directory EXCEPT !.principals = @ \cup {op[o].identity}]
           \/ directory' = [directory EXCEPT !.grants = @ \cup ({op[o].user} \ {NoId})]
  <2>1. UNCHANGED <<directory.blueprints, directory.names, directory.users>>
    BY <1>1, <1>7 DEF Directories
  <2> QED
    BY <1>3, <2>1
<1> QED
  BY <1>4, <1>5, <1>6, <1>7 DEF Writes

LEMMA ProvisioningDoes ==
  ASSUME ProvisioningInv, NEW o \in Operator, Does(o)
  PROVE  ProvisioningInv'
<1> USE DEF ProvisioningInv
<1>i. TypeOK /\ Staged
  BY DEF SuccessInv
<1>1. PICK n : Goes(o, n) /\ op' = [op EXCEPT ![o] = n]
  BY DEF Does
<1>2. Writes(o) /\ Running(o) /\ Extends /\ UNCHANGED overlapped
  BY <1>i, WritesExtend DEF Does
<1>3. /\ op'[o] = n /\ n.dry = op[o].dry /\ n.role = op[o].role
      /\ \A p \in Operator \ {o} : op'[p] = op[p]
  BY <1>i, <1>1, GoesTyped, Typed
<1>4. \A p \in Operator : Writing(p)' => Writing(p)
  BY <1>2, <1>3 DEF Writing, Running
<1>5. OneWriter'
  BY <1>2, <1>4 DEF OneWriter
<1>6. Current'
  <2> SUFFICES ASSUME ~overlapped, NEW p \in Operator, Writing(p)'
               PROVE  /\ At(p, "blueprint")' => directory'.blueprints = 0
                      /\ At(p, "users")' /\ OnePage' => op'[p].identities = Ids(directory.names)'
                      /\ At(p, "identity")' /\ OnePage' =>
                           \A i \in Ids(directory.names)' : directory'.names[i] # op'[p].role
    BY <1>2 DEF Current
  <2>1. CASE p = o
    <3>1. Writing(o)
      BY <1>4, <2>1
    <3>2. /\ n.at = "blueprint" => directory'.blueprints = 0
          /\ n.at = "users" /\ OnePage' => n.identities = Ids(directory.names)'
          /\ n.at = "identity" /\ OnePage' =>
               \A i \in Ids(directory.names)' : directory'.names[i] # n.role
      BY <1>i, <1>1, <1>2, <3>1, GoesCurrent
    <3> QED
      BY <1>3, <2>1, <3>2 DEF At
  <2>2. CASE p # o
    <3>1. Writing(p) /\ ~Writing(o)
      BY <1>4, <2>2 DEF OneWriter
    <3>2. /\ directory'.names = directory.names /\ directory'.users = directory.users
          /\ directory'.blueprints = directory.blueprints
      BY <1>i, <3>1, OnlyWriters
    <3>3. op'[p] = op[p] /\ (OnePage' <=> OnePage)
      BY <1>3, <2>2, <3>2 DEF OnePage
    <3>4. /\ At(p, "blueprint") => directory.blueprints = 0
          /\ At(p, "users") /\ OnePage => op[p].identities = Ids(directory.names)
          /\ At(p, "identity") /\ OnePage =>
               \A i \in Ids(directory.names) : directory.names[i] # op[p].role
      BY <3>1 DEF Current
    <3> QED
      BY <3>2, <3>3, <3>4 DEF At
  <2> QED
    BY <2>1, <2>2
<1>7. EnsuresAreIdempotent'
  <2> SUFFICES ASSUME ~overlapped, OnePage' PROVE EnsuresAreIdempotent'
    BY <1>2 DEF EnsuresAreIdempotent
  <2>1. CASE Writing(o)
    BY <1>i, <1>2, <2>1, IdempotentWrites
  <2>2. CASE ~Writing(o)
    BY <1>i, <1>2, <2>2, OnlyWriters DEF EnsuresAreIdempotent, Extends
  <2> QED
    BY <2>1, <2>2
<1> QED
  BY <1>5, <1>6, <1>7, SuccessDoes

LEMMA ProvisioningStarts ==
  ASSUME ProvisioningInv, NEW o \in Operator, Starts(o)
  PROVE  ProvisioningInv'
<1> USE DEF ProvisioningInv
<1>1. PICK n \in Commands :
        /\ op' = [op EXCEPT ![o] = n] /\ n.at \in {"idle", "blueprints"}
        /\ ~overlapped' => /\ ~overlapped
                           /\ n.at # "idle" /\ ~n.dry => \A p \in Operator \ {o} : ~Writing(p)
  BY DEF Starts
<1>2. op'[o] = n /\ \A p \in Operator \ {o} : op'[p] = op[p]
  BY <1>1, Typed DEF SuccessInv
<1>3. UNCHANGED directory
  BY DEF Starts
<1>4. OneWriter'
  BY <1>1, <1>2 DEF OneWriter, Writing, Running
<1>5. Current' /\ EnsuresAreIdempotent'
  BY <1>1, <1>2, <1>3 DEF Current, Writing, Running, At, EnsuresAreIdempotent, OnePage
<1> QED
  BY <1>4, <1>5, SuccessStarts

LEMMA ProvisioningNext == ProvisioningInv /\ [Next]_vars => ProvisioningInv'
<1> SUFFICES ASSUME ProvisioningInv, [Next]_vars PROVE ProvisioningInv'
  OBVIOUS
<1>1. (\E o \in Operator : Does(o) \/ Starts(o)) \/ Turns
  BY NextMoves DEF ProvisioningInv, SuccessInv
<1>2. CASE Turns
  BY <1>2, SuccessTurns
     DEF ProvisioningInv, Turns, OneWriter, Current, EnsuresAreIdempotent, OnePage, Writing,
         Running, At
<1> QED
  BY <1>1, <1>2, ProvisioningDoes, ProvisioningStarts

(***************************************************************************)
(* The whole of ProvisioningInv holds: what a command that writes has read *)
(* is still so, as long as writing commands do not overlap and a list fits *)
(* one page.                                                               *)
(***************************************************************************)
THEOREM ProvisioningIsSound == Spec => []ProvisioningInv
BY ProvisioningInit, ProvisioningNext, PTL DEF Spec

\* Every variable stays in its domain: an attempt never exceeds the policy's.
THEOREM ProvisioningTyped == Spec => []TypeOK
<1>1. ProvisioningInv => TypeOK
  BY DEF ProvisioningInv, SuccessInv
<1> QED
  BY <1>1, ProvisioningIsSound, PTL

(***************************************************************************)
(* So the ensures are idempotent, over kills, lost and empty answers and   *)
(* identities that propagate late: one blueprint, one identity per role,   *)
(* one user per identity (AC-14.2, AC-14.3).                               *)
(***************************************************************************)
THEOREM EnsuresRepeat == Spec => []EnsuresAreIdempotent
<1>1. ProvisioningInv => EnsuresAreIdempotent
  BY DEF ProvisioningInv
<1> QED
  BY <1>1, ProvisioningIsSound, PTL
=============================================================================
