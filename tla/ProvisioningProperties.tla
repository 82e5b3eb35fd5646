----------------------- MODULE ProvisioningProperties -----------------------
(***************************************************************************)
(* What an operator of `mandat provision` relies on.                       *)
(***************************************************************************)
EXTENDS Provisioning

\* Every variable ranges over its domain.
TypeOK ==
  /\ directory \in [blueprints : Nat, principals : SUBSET Nat, names : Seq(Role \cup {Other}),
                    propagated : SUBSET Nat,
                    users : Seq([parent : Nat, name : Role \cup {Other}]), grants : SUBSET Nat]
  /\ op \in [Operator -> [kind : Kind, role : Role \cup {Other}, dry : BOOLEAN, at : Label,
                          blueprints : SUBSET Nat, identities : SUBSET Nat, users : SUBSET Nat,
                          identity : Nat, user : Nat, attempt : 0..(Attempts - 1),
                          printed : SUBSET Write, exit : {"none", "ok", "error"}]]
  /\ world \in {World, {}} /\ session \in [Operator -> BOOLEAN] /\ overlapped \in BOOLEAN

Provisioned(role) ==
  \E i \in Ids(directory.names) :
    /\ directory.names[i] = role
    /\ \E u \in Ids(directory.users) : directory.users[u] = [parent |-> i, name |-> role]

(***************************************************************************)
(* An ensure-role that reports success has left the role's identity and    *)
(* the user parented to it, whoever else was provisioning, whichever       *)
(* answers were lost or empty and however late the identity propagated     *)
(* (AC-14.3, AC-14.5).                                                     *)
(***************************************************************************)
SuccessIsProvisioned ==
  \A o \in Operator :
    op[o].kind = "role" /\ ~op[o].dry /\ op[o].exit = "ok" => Provisioned(op[o].role)

(***************************************************************************)
(* As long as writing commands do not overlap and the tenant fits one      *)
(* page, the ensures are idempotent over kills, lost answers and partial   *)
(* failures: one blueprint, one identity per role and one user per         *)
(* identity (AC-14.2, AC-14.3).                                            *)
(***************************************************************************)
OnePage == Len(directory.names) <= PageSize /\ Len(directory.users) <= PageSize

EnsuresAreIdempotent ==
  ~overlapped /\ OnePage =>
    /\ directory.blueprints <= 1
    /\ \A i, j \in Ids(directory.names) :
         directory.names[i] = directory.names[j] /\ directory.names[i] \in Role => i = j
    /\ \A u, v \in Ids(directory.users) :
         directory.users[u].parent = directory.users[v].parent => u = v

(***************************************************************************)
(* A command only issues a write it has printed, and a dry run none        *)
(* (AC-14.6, AC-14.7).                                                     *)
(***************************************************************************)
Issued ==
  {w \in Write :
     \/ w = "blueprint" /\ directory'.blueprints # directory.blueprints
     \/ w = "principal" /\ directory'.principals # directory.principals
     \/ w = "identity" /\ directory'.names # directory.names
     \/ w = "user" /\ directory'.users # directory.users
     \/ w = "grant" /\ directory'.grants # directory.grants}

WritesAnnounced ==
  [][\A o \in Operator :
       Step(o) /\ Issued # {} => ~op[o].dry /\ Issued \subseteq op[o].printed]_vars

(***************************************************************************)
(* Commands that are run again converge: every role ends up provisioned,   *)
(* unless commands overlapped or the tenant outgrew the page a list reads  *)
(* (a second identity of the role's name then takes the lookup, and its    *)
(* user is refused for the name it shares).                                *)
(***************************************************************************)
RetriesConverge ==
  \A role \in Role : <>[](Provisioned(role) \/ overlapped \/ ~OnePage)

----------------------------------------------------------------------------
(* Why they hold: what a command knows at each of its stages.  The proofs  *)
(* are in ProvisioningProofs.                                              *)

\* Which command is at which stage, that no dry run reaches a write, and
\* that the write was printed before.
StagedAs(c) ==
  /\ c.at # "idle" => c.exit = "none" /\ c.kind # "auth"
  /\ c.at \in {"identities", "users"} => c.kind # "blueprint"
  /\ c.at \in {"blueprint", "principal"} =>
       c.kind = "blueprint" /\ ~c.dry /\ {"blueprint", "principal"} \subseteq c.printed
  /\ c.at = "blueprints" /\ c.kind = "blueprint" =>
       {"blueprint", "principal"} \subseteq c.printed
  /\ c.at = "relist" => c.kind = "identity"
  /\ c.at \in {"relist", "identity"} =>
       c.kind \in {"identity", "role"} /\ ~c.dry /\ "identity" \in c.printed
  /\ c.at \in {"user", "resolve", "hasgrant", "grant"} => c.kind = "role"
  /\ c.at = "identity" /\ c.kind = "role" => "user" \in c.printed
  /\ c.at = "user" => ~c.dry /\ "user" \in c.printed
  /\ c.at \in {"hasgrant", "grant"} => ~c.dry /\ "grant" \in c.printed

Staged == \A o \in Operator : StagedAs(op[o])

\* What a command listed still exists: Entra's lists only grow.
Listed ==
  \A o \in Operator : op[o].identities \subseteq Ids(directory.names)
                      /\ op[o].users \subseteq Ids(directory.users)

\* A user carries the displayName of the identity it is parented to.
Parented ==
  /\ directory.propagated \subseteq Ids(directory.names)
  /\ \A u \in Ids(directory.users) :
       directory.users[u].parent # NoId =>
         /\ directory.users[u].parent \in Ids(directory.names)
         /\ directory.users[u].name = directory.names[directory.users[u].parent]

\* A command that looks for the user has the role's identity, or an empty id.
Aimed ==
  \A o \in Operator :
    At(o, "user") /\ op[o].identity # NoId =>
      op[o].identity \in Ids(directory.names) /\ directory.names[op[o].identity] = op[o].role

\* A command that is past the user has found it, or made it.
Settled ==
  \A o \in Operator :
    op[o].at \in {"resolve", "hasgrant", "grant"} /\ ~op[o].dry => Provisioned(op[o].role)

SuccessInv == TypeOK /\ Staged /\ Listed /\ Parented /\ Aimed /\ Settled /\ SuccessIsProvisioned

\* As long as commands do not overlap, one at a time writes, ...
OneWriter == ~overlapped => \A o, p \in Operator : Writing(o) /\ Writing(p) => o = p

\* ... and what it read and decided on is still so when it writes.
Current ==
  ~overlapped => \A o \in Operator : Writing(o) =>
    /\ At(o, "blueprint") => directory.blueprints = 0
    /\ At(o, "users") /\ OnePage => op[o].identities = Ids(directory.names)
    /\ At(o, "identity") /\ OnePage => \A i \in Ids(directory.names) : directory.names[i] # op[o].role

ProvisioningInv == SuccessInv /\ OneWriter /\ Current /\ EnsuresAreIdempotent
=============================================================================
