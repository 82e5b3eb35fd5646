------------------------------- MODULE Verify -------------------------------
(***************************************************************************)
(* internal/verify: the four ground-truth checks of a completed run, in    *)
(* order and short-circuiting, and the event they derive.  A check has     *)
(* three outcomes, not two: it passes, it fails (a Verdict), or it could   *)
(* not be made (an operational error, which renders no verdict).           *)
(***************************************************************************)
EXTENDS Naturals, Sequences

CheckOutcome == {"pass", "violation", "error"}

\* What runGate returns for one command: exit status zero, another exit
\* status, or the shell could not be launched.
GateOutcome == {"zero", "nonzero", "unlaunched"}

\* FindPR's answer: a PR and its creator, no PR, or a transport error.
NoPR == [kind |-> "none", createdBy |-> "nobody"]
ProbeError == [kind |-> "error", createdBy |-> "nobody"]
FoundPR(creator) == [kind |-> "found", createdBy |-> creator]

VerdictOf(event, ran) == [err |-> FALSE, event |-> event, ran |-> ran]
ErrorWithoutResults(ran) == [err |-> TRUE, event |-> "result_invalid", ran |-> 0]   \* mutant
VerifyError(ran) == [err |-> TRUE, event |-> "result_invalid", ran |-> ran]

(* rerunGates stops at the first command that does not exit zero; `ran` is *)
(* how many results it has collected by then (a gate that could not be     *)
(* launched leaves none of its own).                                       *)
FirstBad(gates) ==
  CHOOSE i \in DOMAIN gates :
    /\ gates[i] # "zero"
    /\ \A j \in DOMAIN gates : j < i => gates[j] = "zero"

AllGreen(gates) == \A i \in DOMAIN gates : gates[i] = "zero"

rerunGates(gates) ==
  IF AllGreen(gates) THEN VerdictOf("result_ok", Len(gates))
  ELSE LET i == FirstBad(gates)
       IN  IF gates[i] = "unlaunched" THEN VerifyError(i - 1)
                                      ELSE VerdictOf("gate_red", i)

\* Mutant of Probe: any PR on the branch will do.
ProbeExistence(pr, assignedTo, ran) ==
  IF pr.kind = "error" THEN VerifyError(ran)
  ELSE VerdictOf(IF pr.kind = "found" THEN "result_ok" ELSE "probe_failed", ran)

(* The probe runs only when every gate is green.                           *)
Probe(pr, assignedTo, ran) ==
  IF pr.kind = "error" THEN VerifyError(ran)
  ELSE IF pr.kind = "found" /\ pr.createdBy = assignedTo
       THEN VerdictOf("result_ok", ran)
       ELSE VerdictOf("probe_failed", ran)

(* Verify: writer # scorer first, then ancestry, then the diff, both on    *)
(* the worktree as the agent left it, then the gates, then the probe.      *)
Verdict(identity, assignedTo, ancestry, diff, gates, pr) ==
  IF identity = assignedTo \/ ancestry = "error" THEN VerifyError(0)
  ELSE IF ancestry = "violation" THEN VerdictOf("remit_violation", 0)
  ELSE IF diff = "error" THEN VerifyError(0)
  ELSE IF diff = "violation" THEN VerdictOf("remit_violation", 0)
  ELSE LET g == rerunGates(gates)
       IN  IF g.err \/ g.event = "gate_red" THEN g
           ELSE Probe(pr, assignedTo, g.ran)
=============================================================================
