-------------------------- MODULE VerifyProperties --------------------------
(***************************************************************************)
(* Verify against a reference that knows nothing of its control flow: a    *)
(* completed run meets a sequence of obligations, and the first one that   *)
(* is not met decides.                                                     *)
(***************************************************************************)
EXTENDS Verify, Decision, FiniteSets

CONSTANTS
  Principal,     \* who can act as the probe, and who can be a PR's creator
  AssignedTo,    \* the Dev agent user
  MaxGates       \* bound on the configured gate commands

ASSUME VerifyAssumption ==
  /\ AssignedTo \in Principal
  /\ "nobody" \notin Principal
  /\ MaxGates \in Nat

VerifyRequests ==
  [kind     : {"verify"},
   identity : Principal,
   ancestry : CheckOutcome,
   diff     : CheckOutcome,
   gates    : UNION {[1..n -> GateOutcome] : n \in 0..MaxGates},
   pr       : {NoPR, ProbeError} \cup {FoundPR(p) : p \in Principal}]

VerifyRequest ==
  Decide("verify", LAMBDA r : Verdict(r.identity, AssignedTo, r.ancestry, r.diff, r.gates, r.pr))

----------------------------------------------------------------------------
(* The obligations of a request, in the order they are read; each names    *)
(* the event it raises, or "" when it cannot be decided at all.            *)

Obligation(met, decided, event) ==
  [met |-> met, event |-> IF decided THEN event ELSE ""]

Checked(outcome) ==
  Obligation(outcome = "pass", outcome # "error", "remit_violation")

Obligations(r) ==
  <<Obligation(r.identity # AssignedTo, FALSE, ""), Checked(r.ancestry), Checked(r.diff)>>
  \o [i \in DOMAIN r.gates |->
        Obligation(r.gates[i] = "zero", r.gates[i] # "unlaunched", "gate_red")]
  \o <<Obligation(r.pr.kind = "found" /\ r.pr.createdBy = AssignedTo,
                  r.pr.kind # "error", "probe_failed")>>

Unmet(r) == {i \in DOMAIN Obligations(r) : ~Obligations(r)[i].met}

(***************************************************************************)
(* The first unmet obligation decides the verdict, and nothing after it    *)
(* has been looked at; result_ok means that none is unmet (ADR-0003: the   *)
(* four checks in order, short-circuiting, failing closed).                *)
(***************************************************************************)
FirstUnmetDecides ==
  Decided("verify") =>
    IF Unmet(request) = {}
      THEN ~Answer.err /\ Answer.event = "result_ok"
      ELSE \E i \in Unmet(request) :
             /\ \A j \in Unmet(request) : i <= j
             /\ Answer.err <=> Obligations(request)[i].event = ""
             /\ ~Answer.err => Answer.event = Obligations(request)[i].event

(***************************************************************************)
(* Gates that did run are never dropped from the result, whatever check    *)
(* errs after them, and none is reported that did not run (AC-25): the     *)
(* results are those of the gates before the first unmet obligation, and   *)
(* of that gate itself when it exited red.                                 *)
(***************************************************************************)
Ended(r) ==
  {i \in DOMAIN r.gates :
     /\ \A j \in Unmet(r) : i + 3 <= j
     /\ r.gates[i] # "unlaunched"}

RanGatesReported ==
  Decided("verify") => Answer.ran = Cardinality(Ended(request))
=============================================================================
