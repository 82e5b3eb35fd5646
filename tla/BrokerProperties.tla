-------------------------- MODULE BrokerProperties --------------------------
(***************************************************************************)
(* What callers of the broker rely on.                                     *)
(***************************************************************************)
EXTENDS Broker

Tokens == [role : Roles, expiry : Nat]

\* Every variable ranges over its domain.
TypeOK ==
  /\ now \in Nat
  /\ cache \in [Process -> [Roles -> Tokens \cup {NoToken}]]
  /\ mu \in [Process -> Caller \cup {"free"}]
  /\ pc \in [Caller -> Label]
  /\ answer \in [Caller -> Tokens \cup {NoToken, Failed}]
  /\ since \in [Caller -> Nat]

(***************************************************************************)
(* The mutex of a broker is held exactly from Acquire to the return of     *)
(* Token, whichever leg fails (broker.go 160-161).                         *)
(***************************************************************************)
InToken(c) == pc[c] \in {"check", "exchange", "leg3"}

MutexHeld == \A c \in Caller : InToken(c) <=> mu[ProcessOf(c)] = c

(***************************************************************************)
(* A miss stays one: from the check of the cache to the mint, no other     *)
(* caller of the process can fill the slot, and the clock makes no token   *)
(* fresh again.                                                            *)
(***************************************************************************)
MissStands ==
  \A c \in Caller :
    pc[c] \in {"exchange", "leg3"} => ~Fresh(cache[ProcessOf(c)][RoleOf[c]])

(***************************************************************************)
(* A token that Token returned, cached or minted, had more than the skew   *)
(* left when it did.                                                       *)
(***************************************************************************)
ReturnedFresh ==
  \A c \in Caller :
    At(c, "return") /\ answer[c] \notin {NoToken, Failed}
      => since[c] + Skew < answer[c].expiry

\* The inductive invariant of BrokerProofs.
BrokerInv == TypeOK /\ MutexHeld /\ MissStands /\ ReturnedFresh

(***************************************************************************)
(* Concurrent callers of one process mint once per miss (broker.go         *)
(* 156-159): nobody is given a newly minted token while the cache of its   *)
(* process has a fresh one for its role.                                   *)
(***************************************************************************)
Minted(c) == At(c, "leg3") /\ At(c, "return")' /\ answer'[c] # Failed

OneMintPerMiss ==
  [][\A c \in Caller : Minted(c) => ~Fresh(cache[ProcessOf(c)][RoleOf[c]])]_vars

(***************************************************************************)
(* A caller is given the token of the role it asked for, out of the cache  *)
(* or the mint: never another role's, so that the Reviewer cannot act as   *)
(* the Dev agent user through a shared broker (ADR-0005).                  *)
(***************************************************************************)
TokenIsRoles ==
  /\ \A c \in Caller : answer[c] \in {NoToken, Failed} \/ answer[c].role = RoleOf[c]
  /\ \A p \in Process, r \in Roles : cache[p][r] = NoToken \/ cache[p][r].role = r

(***************************************************************************)
(* "A handed-out token never expires mid-operation" (broker.go 60-61): it  *)
(* outlives an operation of up to the skew that starts when Token returns, *)
(* whether it was cached or minted.                                        *)
(***************************************************************************)
TokenOutlivesUse ==
  \A c \in Caller :
    At(c, "return") /\ answer[c] \notin {NoToken, Failed} /\ now - since[c] <= Skew
      => now < answer[c].expiry
=============================================================================
