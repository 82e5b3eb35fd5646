--------------------------- MODULE DecisionProofs ---------------------------
(***************************************************************************)
(* Theorems about the calls that decide: for any gates, configurations,    *)
(* work items, machines and paths.  A call is made once, with a request of *)
(* its kind, and answers it; what a theorem says holds of every answer.    *)
(***************************************************************************)
EXTENDS RecursionProofs

(***************************************************************************)
(* Verify.                                                                 *)
(***************************************************************************)

\* The first gate that does not exit zero is one, when there is one.
LEMMA FirstBadIs ==
  ASSUME NEW n \in Nat, NEW gates \in [1..n -> GateOutcome], ~AllGreen(gates)
  PROVE  /\ FirstBad(gates) \in 1..n /\ gates[FirstBad(gates)] # "zero"
         /\ \A j \in 1..n : j < FirstBad(gates) => gates[j] = "zero"
<1> DEFINE bad == {i \in 1..n : gates[i] # "zero"}
<1>1. bad \in SUBSET Nat /\ bad # {}
  BY DEF AllGreen
<1>2. PICK i \in bad : \A j \in bad : i <= j
  BY <1>1, LeastNatural
<1>3. /\ i \in DOMAIN gates /\ gates[i] # "zero"
      /\ \A j \in DOMAIN gates : j < i => gates[j] = "zero"
  BY <1>2
<1> QED
  BY <1>3 DEF FirstBad

\* The obligations of a request with n gates, one by one.
Obliged == [met : BOOLEAN, event : {"", "remit_violation", "gate_red", "probe_failed"}]

\* They are the check of the identity, the two of the worktree, the gates, and the probe.
LEMMA ObligationsAre ==
  ASSUME NEW r \in VerifyRequests, NEW n \in Nat, r.gates \in [1..n -> GateOutcome]
  PROVE  /\ DOMAIN Obligations(r) = 1..(n + 4)
         /\ Obligations(r)[1] = Obligation(r.identity # AssignedTo, FALSE, "")
         /\ Obligations(r)[2] = Checked(r.ancestry)
         /\ Obligations(r)[3] = Checked(r.diff)
         /\ \A i \in 1..n : Obligations(r)[i + 3] =
              Obligation(r.gates[i] = "zero", r.gates[i] # "unlaunched", "gate_red")
         /\ Obligations(r)[n + 4] = Obligation(r.pr.kind = "found" /\ r.pr.createdBy = AssignedTo,
                                               r.pr.kind # "error", "probe_failed")
<1> DEFINE before == <<Obligation(r.identity # AssignedTo, FALSE, ""), Checked(r.ancestry),
                       Checked(r.diff)>>
           during == [i \in DOMAIN r.gates |->
                        Obligation(r.gates[i] = "zero", r.gates[i] # "unlaunched", "gate_red")]
           after == <<Obligation(r.pr.kind = "found" /\ r.pr.createdBy = AssignedTo,
                                 r.pr.kind # "error", "probe_failed")>>
<1>1. before \in Seq(Obliged) /\ Len(before) = 3
  BY DEF Obligation, Checked, Obliged
<1>2. during \in Seq(Obliged) /\ Len(during) = n
  <2>1. during \in [1..n -> Obliged]
    BY DEF Obligation, Obliged
  <2> QED
    BY <2>1
<1>3. after \in Seq(Obliged) /\ Len(after) = 1
  BY DEF Obligation, Obliged
<1>4. /\ before[1] = Obligation(r.identity # AssignedTo, FALSE, "")
      /\ before[2] = Checked(r.ancestry) /\ before[3] = Checked(r.diff)
      /\ \A i \in 1..n : during[i] =
           Obligation(r.gates[i] = "zero", r.gates[i] # "unlaunched", "gate_red")
      /\ after[1] = Obligation(r.pr.kind = "found" /\ r.pr.createdBy = AssignedTo,
                               r.pr.kind # "error", "probe_failed")
  OBVIOUS
<1>5. Obligations(r) = before \o during \o after
  BY DEF Obligations
<1> HIDE DEF before, during, after
<1>6. /\ before \o during \in Seq(Obliged) /\ Len(before \o during) = 3 + n
      /\ \A i \in 1..3 : (before \o during)[i] = before[i]
      /\ \A i \in 1..n : (before \o during)[3 + i] = during[i]
  <2>1. before \o during \in Seq(Obliged)
    BY <1>1, <1>2, Joined
  <2>2. Len(before \o during) = Len(before) + Len(during)
    BY <1>1, <1>2, Joined
  <2>3. \A i \in 1..Len(before) : (before \o during)[i] = before[i]
    BY <1>1, <1>2, Joined
  <2>4. \A i \in 1..Len(during) : (before \o during)[Len(before) + i] = during[i]
    <3>1. before \in Seq(Obliged) /\ during \in Seq(Obliged)
      BY <1>1, <1>2
    <3> QED
      BY <3>1, Joined
  <2> QED
    BY <1>1, <1>2, <2>1, <2>2, <2>3, <2>4
<1> DEFINE most == before \o during
<1>7. /\ most \in Seq(Obliged) /\ Len(most) = 3 + n
      /\ \A i \in 1..3 : most[i] = before[i]
      /\ \A i \in 1..n : most[3 + i] = during[i]
  BY <1>6
<1>8. Obligations(r) = most \o after
  BY <1>5
<1> HIDE DEF most
<1>9. /\ most \o after \in Seq(Obliged) /\ Len(most \o after) = (3 + n) + 1
      /\ \A i \in 1..(3 + n) : (most \o after)[i] = most[i]
      /\ \A i \in 1..1 : (most \o after)[(3 + n) + i] = after[i]
  <2>1. most \o after \in Seq(Obliged)
    BY <1>3, <1>7, Joined
  <2>2. Len(most \o after) = Len(most) + Len(after)
    BY <1>3, <1>7, Joined
  <2>3. \A i \in 1..Len(most) : (most \o after)[i] = most[i]
    BY <1>3, <1>7, Joined
  <2>4. \A i \in 1..Len(after) : (most \o after)[Len(most) + i] = after[i]
    <3>1. most \in Seq(Obliged) /\ after \in Seq(Obliged)
      BY <1>3, <1>7
    <3> QED
      BY <3>1, Joined
  <2> QED
    BY <1>3, <1>7, <2>1, <2>2, <2>3, <2>4
<1> DEFINE all == most \o after
<1>10. /\ all \in Seq(Obliged) /\ DOMAIN all = 1..(n + 4) /\ all[n + 4] = after[1]
       /\ \A i \in 1..(3 + n) : all[i] = most[i]
  BY <1>9
<1> HIDE DEF all
<1>11. all[1] = before[1] /\ all[2] = before[2] /\ all[3] = before[3]
  BY <1>7, <1>10
<1>12. \A i \in 1..n : all[i + 3] = during[i]
  BY <1>7, <1>10
<1>13. Obligations(r) = all
  BY <1>8 DEF all
<1> QED
  BY <1>4, <1>10, <1>11, <1>12, <1>13, ZenonT(40)

\* What it takes to leave one unmet.
LEMMA UnmetAre ==
  ASSUME NEW r \in VerifyRequests, NEW n \in Nat, r.gates \in [1..n -> GateOutcome]
  PROVE  \A i : i \in Unmet(r) <=>
                  \/ i = 1 /\ r.identity = AssignedTo
                  \/ i = 2 /\ r.ancestry # "pass"
                  \/ i = 3 /\ r.diff # "pass"
                  \/ i \in 4..(n + 3) /\ r.gates[i - 3] # "zero"
                  \/ i = n + 4 /\ ~(r.pr.kind = "found" /\ r.pr.createdBy = AssignedTo)
<1> DEFINE o == Obligations(r)
<1>1. /\ DOMAIN o = 1..(n + 4)
      /\ o[1].met <=> r.identity # AssignedTo
      /\ o[2].met <=> r.ancestry = "pass"
      /\ o[3].met <=> r.diff = "pass"
      /\ \A i \in 1..n : o[i + 3].met <=> r.gates[i] = "zero"
      /\ o[n + 4].met <=> r.pr.kind = "found" /\ r.pr.createdBy = AssignedTo
  <2>1. /\ DOMAIN o = 1..(n + 4)
        /\ o[1] = Obligation(r.identity # AssignedTo, FALSE, "")
        /\ o[2] = Checked(r.ancestry) /\ o[3] = Checked(r.diff)
        /\ \A i \in 1..n : o[i + 3] =
             Obligation(r.gates[i] = "zero", r.gates[i] # "unlaunched", "gate_red")
        /\ o[n + 4] = Obligation(r.pr.kind = "found" /\ r.pr.createdBy = AssignedTo,
                                 r.pr.kind # "error", "probe_failed")
    BY ObligationsAre
  <2> HIDE DEF o
  <2>2. Obligation(r.identity # AssignedTo, FALSE, "").met <=> r.identity # AssignedTo
    BY DEF Obligation
  <2>3. Checked(r.ancestry).met <=> r.ancestry = "pass"
    BY DEF Obligation, Checked
  <2>4. Checked(r.diff).met <=> r.diff = "pass"
    BY DEF Obligation, Checked
  <2>5. ASSUME NEW i \in 1..n PROVE o[i + 3].met <=> r.gates[i] = "zero"
    <3>1. Obligation(r.gates[i] = "zero", r.gates[i] # "unlaunched", "gate_red").met
            <=> r.gates[i] = "zero"
      BY DEF Obligation
    <3> QED
      BY <2>1, <3>1
  <2>6. Obligation(r.pr.kind = "found" /\ r.pr.createdBy = AssignedTo,
                   r.pr.kind # "error", "probe_failed").met
          <=> r.pr.kind = "found" /\ r.pr.createdBy = AssignedTo
    BY DEF Obligation
  <2> QED
    BY <2>1, <2>2, <2>3, <2>4, <2>5, <2>6
<1>2. \A i \in 4..(n + 3) : o[i].met <=> r.gates[i - 3] = "zero"
  <2> TAKE i \in 4..(n + 3)
  <2>1. i - 3 \in 1..n /\ (i - 3) + 3 = i
    OBVIOUS
  <2> QED
    BY <1>1, <2>1
<1>3. \A i : i \in Unmet(r) <=> i \in 1..(n + 4) /\ ~o[i].met
  BY <1>1 DEF Unmet
<1>4. 1..(n + 4) = {1, 2, 3, n + 4} \cup 4..(n + 3)
  OBVIOUS
<1> HIDE DEF o
<1> QED
  BY <1>1, <1>2, <1>3, <1>4

\* Verify's answer, by the first obligation that is not met.
VerdictFor(r) == Verdict(r.identity, AssignedTo, r.ancestry, r.diff, r.gates, r.pr)

Decides(r, k) ==
  /\ k \in Unmet(r) /\ \A j \in Unmet(r) : k <= j
  /\ VerdictFor(r).err <=> Obligations(r)[k].event = ""
  /\ ~VerdictFor(r).err => VerdictFor(r).event = Obligations(r)[k].event

\* Verify answers by the first obligation that is not met, and reports the gates run up to it.
LEMMA VerdictIs ==
  ASSUME NEW r \in VerifyRequests, NEW n \in Nat, r.gates \in [1..n -> GateOutcome]
  PROVE  \/ /\ Unmet(r) = {} /\ ~VerdictFor(r).err /\ VerdictFor(r).event = "result_ok"
            /\ VerdictFor(r).ran = n
         \/ \E k \in 1..3 : Decides(r, k) /\ VerdictFor(r).ran = 0
         \/ \E i \in 1..n : /\ Decides(r, i + 3)
                            /\ VerdictFor(r).ran = IF r.gates[i] = "unlaunched" THEN i - 1 ELSE i
         \/ Decides(r, n + 4) /\ VerdictFor(r).ran = n
<1> DEFINE v == VerdictFor(r)
           unmet == Unmet(r)
           event == [k \in 1..(n + 4) |-> Obligations(r)[k].event]
<1>1. /\ 1 \in unmet <=> r.identity = AssignedTo
      /\ 2 \in unmet <=> r.ancestry # "pass"
      /\ 3 \in unmet <=> r.diff # "pass"
      /\ \A i \in 1..n : i + 3 \in unmet <=> r.gates[i] # "zero"
      /\ n + 4 \in unmet <=> ~(r.pr.kind = "found" /\ r.pr.createdBy = AssignedTo)
      /\ unmet \subseteq 1..(n + 4)
  BY UnmetAre, SMTT(30)
<1>2. /\ event[1] = ""
      /\ r.ancestry = "error" => event[2] = ""
      /\ r.ancestry = "violation" => event[2] = "remit_violation"
      /\ r.diff = "error" => event[3] = ""
      /\ r.diff = "violation" => event[3] = "remit_violation"
      /\ \A i \in 1..n : event[i + 3] = IF r.gates[i] # "unlaunched" THEN "gate_red" ELSE ""
      /\ event[n + 4] = IF r.pr.kind # "error" THEN "probe_failed" ELSE ""
  <2> DEFINE o == Obligations(r)
  <2>1. /\ o[1] = Obligation(r.identity # AssignedTo, FALSE, "")
        /\ o[2] = Checked(r.ancestry) /\ o[3] = Checked(r.diff)
        /\ \A i \in 1..n : o[i + 3] =
             Obligation(r.gates[i] = "zero", r.gates[i] # "unlaunched", "gate_red")
        /\ o[n + 4] = Obligation(r.pr.kind = "found" /\ r.pr.createdBy = AssignedTo,
                                 r.pr.kind # "error", "probe_failed")
    BY ObligationsAre
  <2>2. /\ 1 \in 1..(n + 4) /\ 2 \in 1..(n + 4) /\ 3 \in 1..(n + 4) /\ n + 4 \in 1..(n + 4)
        /\ \A i \in 1..n : i + 3 \in 1..(n + 4)
    OBVIOUS
  <2> HIDE DEF o
  <2>3. event = [k \in 1..(n + 4) |-> o[k].event]
    BY DEF o
  <2>4. \A k \in 1..(n + 4) : event[k] = o[k].event
    BY <2>3
  <2> HIDE DEF event
  <2>5. Obligation(r.identity # AssignedTo, FALSE, "").event = ""
    BY DEF Obligation
  <2>6. /\ r.ancestry = "error" => Checked(r.ancestry).event = ""
        /\ r.ancestry = "violation" => Checked(r.ancestry).event = "remit_violation"
        /\ r.diff = "error" => Checked(r.diff).event = ""
        /\ r.diff = "violation" => Checked(r.diff).event = "remit_violation"
    BY DEF Obligation, Checked
  <2>7. ASSUME NEW i \in 1..n
        PROVE  event[i + 3] = IF r.gates[i] # "unlaunched" THEN "gate_red" ELSE ""
    <3>1. Obligation(r.gates[i] = "zero", r.gates[i] # "unlaunched", "gate_red").event
            = IF r.gates[i] # "unlaunched" THEN "gate_red" ELSE ""
      BY DEF Obligation
    <3>2. event[i + 3] = o[i + 3].event
      BY <2>2, <2>4
    <3>3. o[i + 3] = Obligation(r.gates[i] = "zero", r.gates[i] # "unlaunched", "gate_red")
      BY <2>1
    <3> QED
      BY <3>1, <3>2, <3>3, Zenon
  <2>8. Obligation(r.pr.kind = "found" /\ r.pr.createdBy = AssignedTo,
                   r.pr.kind # "error", "probe_failed").event
          = IF r.pr.kind # "error" THEN "probe_failed" ELSE ""
    BY DEF Obligation
  <2>9. event[1] = o[1].event /\ event[2] = o[2].event /\ event[3] = o[3].event
        /\ event[n + 4] = o[n + 4].event
    BY <2>2, <2>4
  <2>10. event[1] = "" /\ event[n + 4] = IF r.pr.kind # "error" THEN "probe_failed" ELSE ""
    <3>1. o[1] = Obligation(r.identity # AssignedTo, FALSE, "")
      BY <2>1
    <3>2. o[n + 4] = Obligation(r.pr.kind = "found" /\ r.pr.createdBy = AssignedTo,
                               r.pr.kind # "error", "probe_failed")
      BY <2>1
    <3>3. event[1] = ""
      BY <2>5, <2>9, <3>1, Zenon
    <3>4. event[n + 4] = IF r.pr.kind # "error" THEN "probe_failed" ELSE ""
      BY <2>8, <2>9, <3>2, Zenon
    <3> QED
      BY <3>3, <3>4
  <2>11. event[2] = Checked(r.ancestry).event /\ event[3] = Checked(r.diff).event
    BY <2>1, <2>9
  <2> QED
    BY <2>6, <2>7, <2>10, <2>11
<1>3. r.ancestry \in CheckOutcome /\ r.diff \in CheckOutcome
  BY DEF VerifyRequests
<1>4. \A k \in 1..(n + 4) : Decides(r, k) <=> /\ k \in unmet /\ \A j \in unmet : k <= j
                                              /\ v.err <=> event[k] = ""
                                              /\ ~v.err => v.event = event[k]
  BY DEF Decides
<1>5. Len(r.gates) = n /\ DOMAIN r.gates = 1..n
  OBVIOUS
<1>6. CASE r.identity = AssignedTo
  <2>1. v = VerifyError(0)
    BY <1>6 DEF Verdict, VerdictFor
  <2>2. v.err = TRUE /\ v.ran = 0
    BY <2>1 DEF VerifyError
  <2> HIDE DEF v, unmet, event
  <2>3. Decides(r, 1)
    <3>1. 1 \in unmet /\ 1 \in 1..(n + 4)
      BY <1>1, <1>6
    <3>2. \A j \in unmet : 1 <= j
      BY <1>1, <1>6
    <3>3. v.err <=> event[1] = ""
      BY <1>2, <1>3, <1>6, <2>2
    <3>4. ~v.err => v.event = event[1]
      BY <1>2, <1>3, <1>6, <2>2
    <3> QED
      BY <1>4, <3>1, <3>2, <3>3, <3>4
  <2> QED
    BY <2>2, <2>3 DEF v
<1>7. CASE r.identity # AssignedTo /\ r.ancestry # "pass"
  <2>1. v = IF r.ancestry = "error" THEN VerifyError(0) ELSE VerdictOf("remit_violation", 0)
    BY <1>3, <1>7 DEF Verdict, VerdictFor, CheckOutcome
  <2>2. /\ v.err <=> r.ancestry = "error"
        /\ ~v.err => v.event = "remit_violation"
        /\ v.ran = 0
    BY <2>1 DEF VerifyError, VerdictOf
  <2> HIDE DEF v, unmet, event
  <2>3. Decides(r, 2)
    <3>1. 2 \in unmet /\ 2 \in 1..(n + 4)
      BY <1>1, <1>7
    <3>2. \A j \in unmet : 2 <= j
      BY <1>1, <1>7
    <3>3. v.err <=> event[2] = ""
      BY <1>2, <1>3, <1>7, <2>2 DEF CheckOutcome
    <3>4. ~v.err => v.event = event[2]
      BY <1>2, <1>3, <1>7, <2>2 DEF CheckOutcome
    <3> QED
      BY <1>4, <3>1, <3>2, <3>3, <3>4
  <2> QED
    BY <2>2, <2>3 DEF v
<1>8. CASE r.identity # AssignedTo /\ r.ancestry = "pass" /\ r.diff # "pass"
  <2>1. v = IF r.diff = "error" THEN VerifyError(0) ELSE VerdictOf("remit_violation", 0)
    BY <1>3, <1>8 DEF Verdict, VerdictFor, CheckOutcome
  <2>2. /\ v.err <=> r.diff = "error"
        /\ ~v.err => v.event = "remit_violation"
        /\ v.ran = 0
    BY <2>1 DEF VerifyError, VerdictOf
  <2> HIDE DEF v, unmet, event
  <2>3. Decides(r, 3)
    <3>1. 3 \in unmet /\ 3 \in 1..(n + 4)
      BY <1>1, <1>8
    <3>2. \A j \in unmet : 3 <= j
      BY <1>1, <1>8
    <3>3. v.err <=> event[3] = ""
      BY <1>2, <1>3, <1>8, <2>2 DEF CheckOutcome
    <3>4. ~v.err => v.event = event[3]
      BY <1>2, <1>3, <1>8, <2>2 DEF CheckOutcome
    <3> QED
      BY <1>4, <3>1, <3>2, <3>3, <3>4
  <2> QED
    BY <2>2, <2>3 DEF v
<1>9. CASE r.identity # AssignedTo /\ r.ancestry = "pass" /\ r.diff = "pass" /\ ~AllGreen(r.gates)
  <2> DEFINE i == FirstBad(r.gates)
  <2>1. i \in 1..n /\ r.gates[i] # "zero" /\ \A j \in 1..n : j < i => r.gates[j] = "zero"
    BY <1>9, FirstBadIs
  <2>2. v = IF r.gates[i] = "unlaunched" THEN VerifyError(i - 1) ELSE VerdictOf("gate_red", i)
    BY <1>9 DEF Verdict, VerdictFor, rerunGates, VerifyError, VerdictOf
  <2> HIDE DEF i
  <2>3. /\ v.err <=> r.gates[i] = "unlaunched"
        /\ ~v.err => v.event = "gate_red"
        /\ v.ran = IF r.gates[i] = "unlaunched" THEN i - 1 ELSE i
    BY <2>2 DEF VerifyError, VerdictOf
  <2> HIDE DEF v, unmet, event
  <2>4. i + 3 \in unmet /\ i + 3 \in 1..(n + 4)
    BY <1>1, <2>1
  <2>5. ASSUME NEW j \in unmet PROVE i + 3 <= j
    <3>1. j \in 1..(n + 4) /\ j # 1 /\ j # 2 /\ j # 3
      BY <1>1, <1>9
    <3>2. CASE j = n + 4
      BY <2>1, <3>2
    <3>3. CASE j - 3 \in 1..n
      <4>1. (j - 3) + 3 = j
        BY <3>1
      <4>2. r.gates[j - 3] # "zero"
        BY <1>1, <3>3, <4>1
      <4>3. ~(j - 3 < i)
        BY <2>1, <3>3, <4>2
      <4> QED
        BY <2>1, <3>1, <4>3
    <3> QED
      BY <3>1, <3>2, <3>3
  <2>6. v.err <=> event[i + 3] = ""
    BY <1>2, <2>1, <2>3
  <2>7. ~v.err => v.event = event[i + 3]
    BY <1>2, <2>1, <2>3
  <2>8. Decides(r, i + 3)
    BY <1>4, <2>4, <2>5, <2>6, <2>7
  <2> QED
    BY <2>1, <2>3, <2>8 DEF v
<1>10. CASE r.identity # AssignedTo /\ r.ancestry = "pass" /\ r.diff = "pass" /\ AllGreen(r.gates)
  <2>1. v = Probe(r.pr, AssignedTo, n)
    BY <1>5, <1>10 DEF Verdict, VerdictFor, rerunGates, VerdictOf
  <2>2. \A i \in 1..n : r.gates[i] = "zero"
    BY <1>10 DEF AllGreen
  <2>3. unmet \subseteq {n + 4}
    <3> HIDE DEF unmet
    <3> SUFFICES ASSUME NEW j \in unmet, j # n + 4 PROVE FALSE
      OBVIOUS
    <3>1. j - 3 \in 1..n /\ (j - 3) + 3 = j
      BY <1>1, <1>10
    <3> QED
      BY <1>1, <2>2, <3>1
  <2>4. CASE r.pr.kind = "found" /\ r.pr.createdBy = AssignedTo
    <3>1. v = VerdictOf("result_ok", n)
      BY <2>1, <2>4 DEF Probe
    <3>2. ~v.err /\ v.event = "result_ok" /\ v.ran = n
      BY <3>1 DEF VerdictOf
    <3> HIDE DEF v, unmet
    <3>3. unmet = {}
      BY <1>1, <2>3, <2>4
    <3> QED
      BY <3>2, <3>3 DEF v, unmet
  <2>5. CASE ~(r.pr.kind = "found" /\ r.pr.createdBy = AssignedTo)
    <3>1. v = IF r.pr.kind = "error" THEN VerifyError(n) ELSE VerdictOf("probe_failed", n)
      BY <2>1, <2>5 DEF Probe
    <3>2. /\ v.err <=> r.pr.kind = "error"
          /\ ~v.err => v.event = "probe_failed"
          /\ v.ran = n
      BY <3>1 DEF VerifyError, VerdictOf
    <3> HIDE DEF v, unmet, event
    <3>3. Decides(r, n + 4)
      <4>1. n + 4 \in unmet /\ n + 4 \in 1..(n + 4) /\ \A j \in unmet : n + 4 <= j
        BY <1>1, <2>3, <2>5
      <4>2. v.err <=> event[n + 4] = ""
        BY <1>2, <3>2
      <4>3. ~v.err => v.event = event[n + 4]
        BY <1>2, <3>2
      <4> QED
        BY <1>4, <4>1, <4>2, <4>3
    <3> QED
      BY <3>2, <3>3 DEF v
  <2> QED
    BY <2>4, <2>5
<1> QED
  BY <1>3, <1>6, <1>7, <1>8, <1>9, <1>10

(***************************************************************************)
(* doctor and serve.                                                       *)
(***************************************************************************)

\* A version that compares as no older than the floor is none of the older ones.
LEMMA NoOlder ==
  ASSUME NEW version \in Seq(Nat), versionAtLeast(version, claudeVersionFloor)
  PROVE  ~Older(version)
<1> SUFFICES ASSUME Older(version) PROVE FALSE
  OBVIOUS
<1> DEFINE floor == claudeVersionFloor
           n == IF Len(version) < Len(floor) THEN Len(floor) ELSE Len(version)
           differs == [k \in 1..n |-> Part(version, k) # Part(floor, k)]
           places == {i \in 1..Len(differs) : differs[i]}
<1>1. Len(floor) = 3 /\ Len(version) \in Nat
  BY DEF claudeVersionFloor
<1>2. n \in Nat /\ n >= 3 /\ n >= Len(version)
  BY <1>1
<1> HIDE DEF n
<1>3. \A i : i \in places <=> i \in 1..n /\ Part(version, i) # Part(floor, i)
  <2>1. DOMAIN differs = 1..n /\ Len(differs) = n
    BY <1>2
  <2>2. \A i \in 1..n : differs[i] <=> Part(version, i) # Part(floor, i)
    OBVIOUS
  <2> HIDE DEF differs
  <2> QED
    BY <2>1, <2>2
<1> HIDE DEF places
<1>4. PICK i \in 1..3 : /\ Part(version, i) < floor[i]
                        /\ \A j \in 1..(i - 1) : Part(version, j) = floor[j]
  BY <1>1 DEF Older, claudeVersionFloor
<1>5. \A j \in 1..3 : Part(floor, j) = floor[j] /\ floor[j] \in Nat
  BY DEF Part, claudeVersionFloor
<1>6. Part(version, i) \in Nat
  <2>1. CASE i <= Len(version)
    BY <1>4, <2>1 DEF Part
  <2>2. CASE ~(i <= Len(version))
    BY <2>2 DEF Part
  <2> QED
    BY <2>1, <2>2
<1>7. i \in places
  <2>1. i \in 1..n
    <3>1. \A k \in 1..3 : k \in 1..n
      BY <1>2
    <3> QED
      BY <1>4, <3>1
  <2>2. Part(version, i) # Part(floor, i)
    BY <1>4, <1>5, <1>6
  <2> QED
    BY <1>3, <2>1, <2>2
<1>8. \A j \in places : i <= j
  BY <1>2, <1>3, <1>4, <1>5
<1>9. Min(places) = i
  <2>1. \A j \in places : j \in Int
    BY <1>3
  <2>2. Min(places) \in places /\ \A j \in places : Min(places) <= j
    BY <1>7, <1>8 DEF Min
  <2>3. i <= Min(places) /\ Min(places) <= i /\ Min(places) \in Int
    BY <1>7, <1>8, <2>1, <2>2
  <2> QED
    BY <2>3
<1>10. SelectInSeq(differs, LAMBDA d : d) = i
  BY <1>7, <1>9 DEF SelectInSeq, places
<1>11. compareVersion(version, floor) = -1
  BY <1>4, <1>5, <1>10 DEF compareVersion, n
<1> QED
  BY <1>11 DEF versionAtLeast

\* What doctor checks of a machine and a configuration that loads, when it is green.
LEMMA GreenChecks ==
  ASSUME NEW document, NEW role, NEW host \in Hosts, doctor(document, role, host) = 0
  PROVE  LET c == Load(document).config
         IN  /\ Loads(document)
             /\ \A k \in buildChecks(c, role, host) : k.required => k.ok
BY DEF doctor, runChecks

\* The user name of a role that loads, when the agents are agent-user pairs.
LEMMA PairsAreNamed ==
  ASSUME NEW c, validate(c) = {}, c.entra.identity_mode = "agent-user-pair",
         NEW role \in DOMAIN c.roles
  PROVE  c.roles[role].agent_user_name # ""
<1> DEFINE rc == c.roles[role]
<1> DEFINE faults(name) ==
             Required("roles.agent_identity_id", c.roles[name].agent_identity_id)
               \cup AgentUserFields(c, c.roles[name])
               \cup OneOf("roles.autonomy_ceiling", c.roles[name].autonomy_ceiling, AutonomyCeiling)
               \cup OneOf("roles.model_tier", c.roles[name].model_tier, ModelTier \cup {""})
               \cup Required("roles.playbook", c.roles[name].playbook)
<1>1. AgentUserFields(c, rc) \subseteq validateRoles(c)
  <2>1. UNION {faults(name) : name \in DOMAIN c.roles} \subseteq validateRoles(c)
    BY DEF validateRoles
  <2>2. AgentUserFields(c, rc) \subseteq faults(role)
    OBVIOUS
  <2> HIDE DEF faults
  <2> QED
    BY <2>1, <2>2
<1>2. validateRoles(c) = {}
  BY DEF validate
<1>3. Required("roles.agent_user_name", rc.agent_user_name) = {}
  BY <1>1, <1>2 DEF AgentUserFields
<1> QED
  BY <1>3 DEF Required

\* What a green doctor has seen of the machine, and what it means for the wiring of serve.
LEMMA GreenServes ==
  ASSUME NEW document, NEW role \in {"dev", "ba"}, NEW host \in Hosts,
         doctor(document, role, host) = 0
  PROVE  LET c == Load(document).config
         IN  /\ host.claude # <<>> /\ ~Older(host.claude)
             /\ c.entra.identity_mode = "agent-user-pair" =>
                  /\ serveStarts(document, role, host)
                  /\ reviewerIdentity(c) # c.roles[role].agent_user_name
<1> DEFINE c == Load(document).config
           r == Resolve(c, role)
<1>1. /\ Loads(document) /\ validate(c) = {}
      /\ \A k \in buildChecks(c, role, host) : k.required => k.ok
  BY GreenChecks DEF Loads, Load
<1>2. /\ host.claude \in Seq(Nat) /\ host.journal \in BOOLEAN
  BY HostsAssumption
<1> HIDE DEF c
<1>3. host.claude # <<>> /\ versionAtLeast(host.claude, claudeVersionFloor)
  BY <1>1 DEF buildChecks, claudeVersionCheck, Check
<1>4. ~Older(host.claude)
  BY <1>2, <1>3, NoOlder
<1>5. host.journal
  BY <1>1, <1>2 DEF buildChecks, sqliteCheck, Check
<1>6. r.ok /\ buildBroker(c, host) /\ newRoleAdapter(c, role, r.agent_user_name).ok
  BY <1>1 DEF buildChecks, trackerCheckFor, Check
<1>7. role \in DOMAIN c.roles /\ r.agent_user_name = c.roles[role].agent_user_name
  BY <1>6 DEF Resolve, UnknownRole
<1>8. c.tracker.org # "" /\ c.tracker.project # "" /\ c.roles[role].agent_user_name # ""
  BY <1>6, <1>7 DEF newRoleAdapter, Adapter
<1>9. ASSUME c.entra.identity_mode = "agent-user-pair"
      PROVE  serveStarts(document, role, host) /\ reviewerIdentity(c) # c.roles[role].agent_user_name
  <2>1. CASE "reviewer" \notin DOMAIN c.roles
    <3>1. buildReviewerProbe(c).ok
      BY <2>1 DEF buildReviewerProbe, ProbeStub
    <3>2. reviewerIdentity(c) = ""
      BY <2>1 DEF reviewerIdentity
    <3> QED
      BY <1>1, <1>5, <1>6, <1>8, <3>1, <3>2 DEF serveStarts, buildServeDeps, c
  <2>2. CASE "reviewer" \in DOMAIN c.roles
    <3>1. c.roles["reviewer"].agent_user_name # ""
      BY <1>1, <1>9, <2>2, PairsAreNamed
    <3>2. buildReviewerProbe(c).ok
      BY <1>8, <2>2, <3>1 DEF buildReviewerProbe, newRoleAdapter, Adapter
    <3>3. \A other \in DOMAIN c.roles \ {"reviewer"} :
            c.roles[other].agent_user_name # c.roles["reviewer"].agent_user_name
      BY <1>1, <2>2, <3>1 DEF buildChecks, reviewerIdentityCheck, Check
    <3>4. reviewerIdentity(c) # c.roles[role].agent_user_name
      BY <1>7, <2>2, <3>3 DEF reviewerIdentity
    <3> QED
      BY <1>1, <1>5, <1>6, <3>2, <3>4 DEF serveStarts, buildServeDeps, c
  <2> QED
    BY <2>1, <2>2
<1> QED
  BY <1>3, <1>4, <1>9 DEF c

(***************************************************************************)
(* One poll.                                                               *)
(***************************************************************************)

\* The repo of an item is the one its first tag of a repo names.
LEMMA RepoKeyIs ==
  ASSUME NEW wi \in WorkItem
  PROVE  /\ Named(wi) = {} => repoKeyFromTags(wi.tags) = ""
         /\ Named(wi) # {} => repoKeyFromTags(wi.tags) = RepoOf(wi) /\ RepoOf(wi) # ""
<1> DEFINE tags == wi.tags
           i == SelectInSeq(tags, LAMBDA t : t.repo /\ t.key # "")
<1>1. tags \in Seq(Tag) /\ DOMAIN tags = 1..Len(tags) /\ Len(tags) \in Nat
  <2>1. tags \in Seq(Tag)
    BY DEF WorkItem
  <2> QED
    BY <2>1, LenProperties
<1>2. Named(wi) = {j \in 1..Len(tags) : tags[j].repo /\ tags[j].key # ""}
  BY <1>1 DEF Named
<1>3. i = IF Named(wi) # {} THEN Min(Named(wi)) ELSE 0
  BY <1>2 DEF SelectInSeq
<1>4. repoKeyFromTags(tags) = IF i = 0 THEN "" ELSE tags[i].key
  BY DEF repoKeyFromTags
<1>5. CASE Named(wi) = {}
  BY <1>3, <1>4, <1>5
<1>6. CASE Named(wi) # {}
  <2>1. Named(wi) \in SUBSET Nat
    <3>1. 1..Len(tags) \subseteq Nat
      BY <1>1
    <3> QED
      BY <1>2, <3>1
  <2>2. \E m \in Named(wi) : \A n \in Named(wi) : m <= n
    BY <1>6, <2>1, LeastNatural
  <2>3. Min(Named(wi)) \in Named(wi)
    BY <2>2 DEF Min
  <2>4. i = Min(Named(wi)) /\ i # 0 /\ tags[i].key # ""
    <3>1. PICK first \in Named(wi) : first = Min(Named(wi))
      BY <2>3
    <3>2. first \in 1..Len(tags) /\ tags[first].key # ""
      BY <1>2
    <3>3. first # 0
      <4>1. \A n \in Nat : 0 \notin 1..n
        OBVIOUS
      <4>2. 0 \notin 1..Len(tags)
        BY <1>1, <4>1
      <4> QED
        BY <3>2, <4>2
    <3>4. i = first
      BY <1>3, <1>6, <3>1
    <3> HIDE DEF i
    <3> QED
      BY <3>1, <3>2, <3>3, <3>4
  <2>5. RepoOf(wi) = tags[Min(Named(wi))].key
    BY DEF RepoOf, Min
  <2> HIDE DEF i
  <2> QED
    BY <1>4, <1>6, <2>4, <2>5
<1> QED
  BY <1>5, <1>6

\* The contract of an item, under the configuration the poll runs with.
ContractOf(wi) ==
  Contract(DevAdapter(request.config), wi, RemitDefaultsFor(Load(request.config).config, RepoOf(wi)))

\* The fields of a contract, as the adapter fills them from an item and the registry.
LEMMA ContractIs ==
  ASSUME NEW wi, RepoOf(wi) \in DOMAIN Repos
  PROVE  /\ ContractOf(wi).id = wi.id /\ ContractOf(wi).state = "queued"
         /\ ContractOf(wi).title = wi.title /\ ContractOf(wi).acceptance = wi.acceptance
         /\ ContractOf(wi).assigned_to = wi.assigned_to
         /\ ContractOf(wi).remit = [repo |-> RepoOf(wi),
                                    base_branch |-> Repos[RepoOf(wi)].base_branch,
                                    paths |-> Repos[RepoOf(wi)].paths]
BY DEF ContractOf, Contract, RemitDefaultsFor, Repos

\* An item makes a contract when it is consented to and its contract is valid.
LEMMA Maps ==
  ASSUME NEW wi \in WorkItem
  PROVE  LET m == mapContract(DevAdapter(request.config), wi)
         IN  IF Consented(wi) /\ Validate(ContractOf(wi)) = {} THEN m = <<ContractOf(wi)>>
             ELSE m = <<>>
<1> DEFINE a == DevAdapter(request.config)
           key == repoKeyFromTags(wi.tags)
           remit == RemitDefaultsFor(a.remits, key)
           m == mapContract(a, wi)
<1>1. a.remits = Load(request.config).config /\ a.agentUserName = User
  BY DEF DevAdapter, Adapter, User
<1>2. m = IF ~EqualFold(wi.assigned_to, a.agentUserName) \/ key = "" \/ ~remit.ok THEN <<>>
          ELSE IF Validate(Contract(a, wi, remit)) # {} THEN <<>> ELSE <<Contract(a, wi, remit)>>
  BY DEF mapContract
<1>3. EqualFold(wi.assigned_to, a.agentUserName) <=> Fold[wi.assigned_to] = Fold[User]
  BY <1>1 DEF EqualFold
<1>4. remit.ok <=> key \in DOMAIN Repos
  BY <1>1 DEF RemitDefaultsFor, Unregistered, Repos
<1>5. CASE Named(wi) = {}
  BY <1>2, <1>5, RepoKeyIs DEF Consented
<1>6. CASE Named(wi) # {}
  <2>1. key = RepoOf(wi) /\ key # ""
    BY <1>6, RepoKeyIs
  <2>2. Contract(a, wi, remit) = ContractOf(wi)
    BY <1>1, <2>1 DEF ContractOf
  <2> HIDE DEF a, key, remit, m
  <2>3. CASE ~(Fold[wi.assigned_to] = Fold[User] /\ RepoOf(wi) \in DOMAIN Repos)
    BY <1>2, <1>3, <1>4, <2>1, <2>3 DEF Consented, a, m
  <2>4. CASE Fold[wi.assigned_to] = Fold[User] /\ RepoOf(wi) \in DOMAIN Repos
    <3>1. m = IF Validate(ContractOf(wi)) # {} THEN <<>> ELSE <<ContractOf(wi)>>
      BY <1>2, <1>3, <1>4, <2>1, <2>2, <2>4
    <3>2. Validate(ContractOf(wi)) = {} => wi.title # "" /\ wi.acceptance # ""
      <4>1. /\ Required("title", ContractOf(wi)["title"]) \subseteq Validate(ContractOf(wi))
            /\ Required("acceptance", ContractOf(wi)["acceptance"]) \subseteq Validate(ContractOf(wi))
        BY DEF Validate
      <4>2. ContractOf(wi).title = wi.title /\ ContractOf(wi).acceptance = wi.acceptance
        BY <2>4, ContractIs
      <4> QED
        BY <4>1, <4>2 DEF Required
    <3> QED
      BY <1>6, <2>4, <3>1, <3>2 DEF Consented, a, m
  <2> QED
    BY <2>3, <2>4
<1> QED
  BY <1>5, <1>6

\* What a configuration that loads says of each repo of the registry.
LEMMA ReposAreComplete ==
  ASSUME NEW c, validate(c) = {}, NEW repo \in DOMAIN c.repos
  PROVE  /\ c.repos[repo].base_branch # "" /\ c.repos[repo].paths # <<>>
         /\ \A i \in DOMAIN c.repos[repo].paths :
              ~Absolute(c.repos[repo].paths[i]) /\ ~Parent(c.repos[repo].paths[i])
<1> DEFINE faults(name) ==
             Required("repos.url", c.repos[name].url)
               \cup Required("repos.base_branch", c.repos[name].base_branch)
               \cup {f \in {"repos.paths"} : c.repos[name].paths = <<>>}
               \cup {f \in {"repos.paths[]"} :
                       \E i \in DOMAIN c.repos[name].paths :
                         Absolute(c.repos[name].paths[i]) \/ Parent(c.repos[name].paths[i])}
<1>1. UNION {faults(name) : name \in DOMAIN c.repos} \subseteq validateRepos(c)
  BY DEF validateRepos
<1>2. validateRepos(c) = {}
  BY DEF validate
<1>3. faults(repo) = {}
  <2> HIDE DEF faults
  <2> QED
    BY <1>1, <1>2
<1>4. Required("repos.base_branch", c.repos[repo].base_branch) = {}
  BY <1>3
<1>5. {f \in {"repos.paths"} : c.repos[repo].paths = <<>>} = {}
  BY <1>3
<1>6. {f \in {"repos.paths[]"} :
         \E i \in DOMAIN c.repos[repo].paths :
           Absolute(c.repos[repo].paths[i]) \/ Parent(c.repos[repo].paths[i])} = {}
  BY <1>3
<1> HIDE DEF faults
<1> QED
  BY <1>4, <1>5, <1>6 DEF Required

\* The contract of a consented item of a repo without an empty path is valid.
LEMMA ConsentIsValid ==
  ASSUME request \in PollRequests, Loads(request.config), DevAdapter(request.config).ok,
         NEW wi \in WorkItem, Consented(wi), ~HasEmptyPath(RepoOf(wi))
  PROVE  Validate(ContractOf(wi)) = {}
<1> DEFINE c == Load(request.config).config
           a == DevAdapter(request.config)
           repo == RepoOf(wi)
           paths == c.repos[repo].paths
           tc == ContractOf(wi)
<1>1. validate(c) = {} /\ request.config \in PollConfigs
  BY DEF Loads, Load, PollRequests
<1>2. repo \in DOMAIN c.repos /\ wi.title # "" /\ wi.acceptance # ""
      /\ Fold[wi.assigned_to] = Fold[User] /\ repo # ""
  BY RepoKeyIs DEF Consented, Repos
<1>3. /\ c.repos[repo].base_branch # "" /\ paths # <<>>
      /\ \A i \in DOMAIN paths : ~Absolute(paths[i]) /\ ~Parent(paths[i])
  BY <1>1, <1>2, ReposAreComplete
<1>4. \A i \in DOMAIN paths : paths[i] # EmptyPath
  BY DEF HasEmptyPath, Repos
<1>5. a.org # "" /\ a.project # "" /\ a.role = "dev" /\ User # ""
  BY DEF DevAdapter, Adapter, User
<1>6. wi.id # "" /\ wi.assigned_to # ""
  <2>1. wi.id # "" /\ wi.assigned_to \in DOMAIN Fold
    BY DEF WorkItem
  <2>2. User \in DOMAIN Fold
    BY <1>1, UsersAssumption DEF User
  <2> QED
    BY <1>2, <1>5, <2>1, <2>2, FoldAssumption
<1>7. tc = [id |-> wi.id,
            tracker_ref |-> [system |-> "azure-devops", org |-> a.org, project |-> a.project,
                             work_item_id |-> wi.id],
            type |-> "dev-task", title |-> wi.title, acceptance |-> wi.acceptance,
            state |-> "queued", role |-> a.role,
            remit |-> [repo |-> repo, base_branch |-> c.repos[repo].base_branch, paths |-> paths],
            assigned_to |-> wi.assigned_to, schema_version |-> SchemaVersion]
  BY <1>2 DEF ContractOf, Contract, RemitDefaultsFor
<1> HIDE DEF c, a, repo, paths, tc
<1>8. \A f \in {"id", "title", "acceptance", "role", "assigned_to"} : Required(f, tc[f]) = {}
  <2>1. /\ tc.id # "" /\ tc.title # "" /\ tc.acceptance # "" /\ tc.role # "" /\ tc.assigned_to # ""
    BY <1>2, <1>5, <1>6, <1>7
  <2>2. \A f \in {"id", "title", "acceptance", "role", "assigned_to"} : tc[f] # ""
    BY <2>1
  <2> QED
    BY <2>2 DEF Required
<1>9. \A f \in {"org", "project", "work_item_id"} : Required(f, tc.tracker_ref[f]) = {}
  <2> DEFINE ref == tc.tracker_ref
  <2>1. ref.org # "" /\ ref.project # "" /\ ref.work_item_id # ""
    BY <1>5, <1>6, <1>7
  <2>2. \A f \in {"org", "project", "work_item_id"} : ref[f] # ""
    <3> HIDE DEF ref
    <3> QED
      BY <2>1
  <2> QED
    BY <2>2 DEF Required
<1>10. \A f \in {"repo", "base_branch"} : Required(f, tc.remit[f]) = {}
  <2> DEFINE remit == tc.remit
  <2>1. remit.repo # "" /\ remit.base_branch # ""
    BY <1>2, <1>3, <1>7
  <2>2. \A f \in {"repo", "base_branch"} : remit[f] # ""
    <3> HIDE DEF remit
    <3> QED
      BY <2>1
  <2> QED
    BY <2>2 DEF Required
<1>11. RemitPathFaults(tc.remit.paths) = {}
  BY <1>3, <1>4, <1>7 DEF RemitPathFaults
<1>12. /\ OneOf("tracker_ref.system", tc.tracker_ref.system, TrackerSystem) = {}
       /\ OneOf("type", tc.type, TaskType) = {} /\ OneOf("state", tc.state, PipelineState) = {}
       /\ tc.schema_version = SchemaVersion
  BY <1>7 DEF OneOf, TrackerSystem, TaskType, PipelineState
<1>13. Validate(tc) = {}
  BY <1>8, <1>9, <1>10, <1>11, <1>12 DEF Validate
<1> QED
  BY <1>13 DEF tc

\* What a poll that reads every listed item returns.
Polls(listing, contracts) ==
  /\ DOMAIN contracts = 1..Len(contracts) /\ DOMAIN listing = 1..Len(listing)
  /\ \E of \in [1..Len(contracts) -> 1..Len(listing)] :
       /\ \A i, j \in 1..Len(contracts) : i < j => of[i] < of[j]
       /\ \A i \in 1..Len(contracts) :
            Consented(listing[of[i]]) /\ contracts[i] = ContractOf(listing[of[i]])
       /\ \A j \in 1..Len(listing) :
            Consented(listing[j]) /\ Validate(ContractOf(listing[j])) = {}
              => \E i \in 1..Len(contracts) : of[i] = j

PollAnswer(r) == Poll(DevAdapter(r.config), r.listed, r.listing, r.unreadable)

\* Poll fails as a whole, or answers with the contracts of the consented items, in order.
LEMMA PollIs ==
  ASSUME request \in PollRequests
  PROVE  IF ~request.listed \/ request.unreadable # {} THEN PollAnswer(request) = PollFailed
         ELSE ~PollAnswer(request).err /\ Polls(request.listing, PollAnswer(request).contracts)
<1> DEFINE listing == request.listing
           n == Len(listing)
           seqs == [i \in DOMAIN listing |-> mapContract(DevAdapter(request.config), listing[i])]
           S == {ContractOf(listing[i]) : i \in 1..n}
<1>1. listing \in Seq(WorkItem)
  BY ListingsAssumption DEF PollRequests
<1>2. n \in Nat /\ DOMAIN listing = 1..n /\ \A i \in 1..n : listing[i] \in WorkItem
  BY <1>1, LenProperties, ElementOfSeq
<1>3. \A i \in 1..n :
        seqs[i] = IF Consented(listing[i]) /\ Validate(ContractOf(listing[i])) = {}
                    THEN <<ContractOf(listing[i])>> ELSE <<>>
  <2> TAKE i \in 1..n
  <2>1. seqs[i] = mapContract(DevAdapter(request.config), listing[i])
    BY <1>2
  <2> HIDE DEF seqs
  <2> QED
    BY <1>2, <2>1, Maps
<1>4. DOMAIN seqs = 1..n /\ seqs = [i \in 1..n |-> seqs[i]]
  BY <1>2
<1> HIDE DEF seqs
<1>5. \A i \in 1..n : seqs[i] = <<>> \/ \E x \in S : seqs[i] = <<x>>
  BY <1>3
<1>6. seqs \in [1..n -> Seq(S)]
  <2>1. \A x \in S : <<x>> \in Seq(S)
    <3> HIDE DEF S
    <3> QED
      OBVIOUS
  <2>2. <<>> \in Seq(S)
    <3> HIDE DEF S
    <3> QED
      OBVIOUS
  <2>3. \A i \in 1..n : seqs[i] \in Seq(S)
    BY <1>5, <2>1, <2>2
  <2> HIDE DEF S
  <2> QED
    BY <1>4, <2>3
<1> HIDE DEF S
<1> DEFINE out == FlattenSeq(seqs)
<1>7. out \in Seq(S) /\ \E of : Gathers(seqs, n, out, of)
  BY <1>2, <1>5, <1>6, FlattenGathers
<1>8. PICK of : Gathers(seqs, n, out, of)
  BY <1>7
<1>9. DOMAIN out = 1..Len(out)
  BY <1>7, LenProperties
<1> HIDE DEF out, n, listing
<1>10. /\ of \in [1..Len(out) -> 1..n]
       /\ \A i, j \in 1..Len(out) : i < j => of[i] < of[j]
       /\ \A i \in 1..Len(out) : seqs[of[i]] = <<out[i]>>
       /\ \A j \in 1..n : seqs[j] # <<>> => \E i \in 1..Len(out) : of[i] = j
  BY <1>8 DEF Gathers
<1>11. \A i \in 1..Len(out) : Consented(listing[of[i]]) /\ out[i] = ContractOf(listing[of[i]])
  <2> TAKE i \in 1..Len(out)
  <2>1. of[i] \in 1..n /\ seqs[of[i]] = <<out[i]>>
    BY <1>10
  <2>2. <<out[i]>> # <<>>
    OBVIOUS
  <2>3. Consented(listing[of[i]]) /\ <<out[i]>> = <<ContractOf(listing[of[i]])>>
    BY <1>3, <2>1, <2>2
  <2> QED
    BY <2>3
<1>12. ASSUME NEW j \in 1..n, Consented(listing[j]), Validate(ContractOf(listing[j])) = {}
       PROVE  \E i \in 1..Len(out) : of[i] = j
  <2>1. seqs[j] = <<ContractOf(listing[j])>>
    BY <1>3, <1>12
  <2>2. <<ContractOf(listing[j])>> # <<>>
    OBVIOUS
  <2> QED
    BY <1>10, <2>1, <2>2
<1>13. Polls(listing, out)
  BY <1>2, <1>9, <1>10, <1>11, <1>12 DEF Polls, n
<1>14. PollAnswer(request) = IF ~request.listed \/ request.unreadable # {} THEN PollFailed
                             ELSE [err |-> FALSE, contracts |-> out]
  BY DEF PollAnswer, Poll, out, seqs, listing
<1> QED
  BY <1>13, <1>14 DEF listing

(***************************************************************************)
(* Every call: it was asked with a request of its kind, and what it has    *)
(* answered is the answer to it.                                           *)
(***************************************************************************)
PreflightAnswer(r) ==
  [doctor |-> doctor(r.config, r.role, r.host), starts |-> serveStarts(r.config, r.role, r.host)]

GuardAnswer(r) == remitGuardCmd(r.parse, r.input, r.worktree, Cwd)

TreeAnswer(r) == CheckWorktree(r.tree, r.patterns)

StreamAnswer(r) == [tail |-> streamTail(r.stdout), telemetry |-> parseTelemetry(r.stdout)]

DiffAnswer(r) == renderConfigDiff(r.old, r.new)

AnsweredAs(kind, Requests, Answers(_)) ==
  request.kind = kind => request \in Requests /\ (Pending \/ verdict = <<Answers(request)>>)

Answered ==
  /\ AnsweredAs("verify", VerifyRequests, VerdictFor)
  /\ AnsweredAs("remit", RemitRequests, TreeAnswer)
  /\ AnsweredAs("guard", GuardRequests, GuardAnswer)
  /\ AnsweredAs("poll", PollRequests, PollAnswer)
  /\ AnsweredAs("forge", ForgeRequests, ForgeAnswer)
  /\ AnsweredAs("preflight", PreflightRequests, PreflightAnswer)
  /\ AnsweredAs("stream", StreamRequests, StreamAnswer)
  /\ AnsweredAs("diff", DiffRequests, DiffAnswer)
  /\ AnsweredAs("prefill", PrefillRequests, FreshInterview)

\* At first there is a request of one kind and no answer, ...
LEMMA AskedOfAKind == Init => Answered
<1> SUFFICES ASSUME Init PROVE Answered
  OBVIOUS
<1>1. Pending
  BY DEF Init, Asked
<1>2. request \in VerifyRequests => request.kind = "verify"
  BY DEF VerifyRequests
<1>3. request \in RemitRequests => request.kind = "remit"
  BY TreesAre
<1>4. request \in GuardRequests => request.kind = "guard"
  BY DEF GuardRequests
<1>5. request \in PollRequests => request.kind = "poll"
  BY DEF PollRequests
<1>6. request \in ForgeRequests => request.kind = "forge"
  BY DEF ForgeRequests
<1>7. request \in PreflightRequests => request.kind = "preflight"
  BY DEF PreflightRequests
<1>8. request \in StreamRequests => request.kind = "stream"
  BY DEF StreamRequests
<1>9. request \in DiffRequests => request.kind = "diff"
  BY DEF DiffRequests
<1>10. request \in PrefillRequests => request.kind = "prefill"
  BY DEF PrefillRequests
<1>11. \/ request \in VerifyRequests \/ request \in RemitRequests \/ request \in GuardRequests
       \/ request \in PollRequests \/ request \in ForgeRequests \/ request \in PreflightRequests
       \/ request \in StreamRequests \/ request \in DiffRequests \/ request \in PrefillRequests
  BY DEF Init, Asked
<1> QED
  BY <1>1, <1>2, <1>3, <1>4, <1>5, <1>6, <1>7, <1>8, <1>9, <1>10, <1>11
     DEF Answered, AnsweredAs

\* ... and the one step there is answers it.
LEMMA AnswersOnce ==
  ASSUME Answered, [Next]_<<request, verdict>>
  PROVE  Answered'
<1>1. CASE UNCHANGED <<request, verdict>>
  BY <1>1 DEF Answered, AnsweredAs, Pending
<1>2. CASE VerifyRequest
  <2>1. request.kind = "verify" /\ request' = request /\ verdict' = <<VerdictFor(request)>>
    BY <1>2 DEF VerifyRequest, Decide, VerdictFor
  <2> QED
    BY <2>1 DEF Answered, AnsweredAs
<1>3. CASE CheckRemit
  <2>1. request.kind = "remit" /\ request' = request /\ verdict' = <<TreeAnswer(request)>>
    BY <1>3 DEF CheckRemit, Decide, TreeAnswer
  <2> QED
    BY <2>1 DEF Answered, AnsweredAs
<1>4. CASE GuardWrite
  <2>1. request.kind = "guard" /\ request' = request /\ verdict' = <<GuardAnswer(request)>>
    BY <1>4 DEF GuardWrite, Decide, GuardAnswer
  <2> QED
    BY <2>1 DEF Answered, AnsweredAs
<1>5. CASE PollTracker
  <2>1. request.kind = "poll" /\ request' = request /\ verdict' = <<PollAnswer(request)>>
    BY <1>5 DEF PollTracker, Decide, PollAnswer
  <2> QED
    BY <2>1 DEF Answered, AnsweredAs
<1>6. CASE ForgePR
  <2>1. request.kind = "forge" /\ request' = request /\ verdict' = <<ForgeAnswer(request)>>
    BY <1>6 DEF ForgePR, Decide, ForgeAnswer
  <2> QED
    BY <2>1 DEF Answered, AnsweredAs
<1>7. CASE PreflightCheck
  <2>1. request.kind = "preflight" /\ request' = request /\ verdict' = <<PreflightAnswer(request)>>
    BY <1>7 DEF PreflightCheck, Decide, PreflightAnswer
  <2> QED
    BY <2>1 DEF Answered, AnsweredAs
<1>8. CASE RecordStream
  <2>1. request.kind = "stream" /\ request' = request /\ verdict' = <<StreamAnswer(request)>>
    BY <1>8 DEF RecordStream, Decide, StreamAnswer
  <2> QED
    BY <2>1 DEF Answered, AnsweredAs
<1>9. CASE ShowDiff
  <2>1. request.kind = "diff" /\ request' = request /\ verdict' = <<DiffAnswer(request)>>
    BY <1>9 DEF ShowDiff, Decide, DiffAnswer
  <2> QED
    BY <2>1 DEF Answered, AnsweredAs
<1>10. CASE PrefillPrompts
  <2>1. request.kind = "prefill" /\ request' = request /\ verdict' = <<FreshInterview(request)>>
    BY <1>10 DEF PrefillPrompts, Decide, FreshInterview
  <2> QED
    BY <2>1 DEF Answered, AnsweredAs
<1> QED
  BY <1>1, <1>2, <1>3, <1>4, <1>5, <1>6, <1>7, <1>8, <1>9, <1>10 DEF Next

\* Every answer is the one to its request.
THEOREM CallsAreAnswered == Spec => []Answered
<1>1. Answered /\ [Next]_<<request, verdict>> => Answered'
  BY AnswersOnce
<1> QED
  BY <1>1, AskedOfAKind, PTL DEF Spec

\* So what was decided is the answer of its kind.
LEMMA AnswerIs ==
  ASSUME Answered
  PROVE  /\ Decided("verify") => request \in VerifyRequests /\ Answer = VerdictFor(request)
         /\ Decided("remit") => request \in RemitRequests /\ Answer = TreeAnswer(request)
         /\ Decided("guard") => request \in GuardRequests /\ Answer = GuardAnswer(request)
         /\ Decided("poll") => request \in PollRequests /\ Answer = PollAnswer(request)
         /\ Decided("forge") => request \in ForgeRequests /\ Answer = ForgeAnswer(request)
         /\ Decided("preflight") => request \in PreflightRequests /\ Answer = PreflightAnswer(request)
         /\ Decided("stream") => request \in StreamRequests /\ Answer = StreamAnswer(request)
         /\ Decided("diff") => request \in DiffRequests /\ Answer = DiffAnswer(request)
         /\ Decided("prefill") => request \in PrefillRequests /\ Answer = FreshInterview(request)
BY DEF Answered, AnsweredAs, Decided, Answer

\* The gates of a request are a sequence of outcomes.
LEMMA GatesOf ==
  ASSUME NEW r \in VerifyRequests
  PROVE  \E n \in Nat : r.gates \in [1..n -> GateOutcome]
BY VerifyAssumption DEF VerifyRequests

(***************************************************************************)
(* A verified run met every obligation, and one that is not is condemned   *)
(* by the first it left unmet, however many gates there are (RFC-0001      *)
(* AC-15 to AC-20; verify.go).                                             *)
(***************************************************************************)
THEOREM FirstUnmetObligationDecides == Spec => []FirstUnmetDecides
<1>1. ASSUME Answered PROVE FirstUnmetDecides
  <2> SUFFICES ASSUME Decided("verify") PROVE FirstUnmetDecides
    BY DEF FirstUnmetDecides
  <2>1. request \in VerifyRequests /\ Answer = VerdictFor(request)
    BY <1>1, AnswerIs
  <2>2. PICK n \in Nat : request.gates \in [1..n -> GateOutcome]
    BY <2>1, GatesOf
  <2>3. \/ Unmet(request) = {} /\ ~Answer.err /\ Answer.event = "result_ok"
        \/ \E k : Decides(request, k)
    BY <2>1, <2>2, VerdictIs
  <2> QED
    BY <2>1, <2>3 DEF FirstUnmetDecides, Decides
<1> QED
  BY <1>1, CallsAreAnswered, PTL

\* The gates that ran to an end are the first ones, as many as the answer reports.
LEMMA EndedAre ==
  ASSUME NEW r \in VerifyRequests
  PROVE  VerdictFor(r).ran \in Nat /\ Ended(r) = 1..VerdictFor(r).ran
<1>1. PICK n \in Nat : r.gates \in [1..n -> GateOutcome]
  BY GatesOf
<1> DEFINE ran == VerdictFor(r).ran
<1>2. \A i : i \in Ended(r) <=> /\ i \in 1..n /\ r.gates[i] # "unlaunched"
                                /\ \A j \in Unmet(r) : i + 3 <= j
  BY <1>1 DEF Ended
<1>3. \A i \in 1..n : i + 3 \in Unmet(r) <=> r.gates[i] # "zero"
  BY <1>1, UnmetAre, SMTT(30)
<1>4. \/ Unmet(r) = {} /\ ran = n
      \/ \E k \in 1..3 : k \in Unmet(r) /\ ran = 0
      \/ \E i \in 1..n : /\ i + 3 \in Unmet(r) /\ \A j \in Unmet(r) : i + 3 <= j
                         /\ ran = IF r.gates[i] = "unlaunched" THEN i - 1 ELSE i
      \/ n + 4 \in Unmet(r) /\ (\A j \in Unmet(r) : n + 4 <= j) /\ ran = n
  BY <1>1, VerdictIs DEF Decides
<1> HIDE DEF ran
<1>5. CASE Unmet(r) = {} /\ ran = n
  BY <1>2, <1>3, <1>5 DEF ran
<1>6. CASE \E k \in 1..3 : k \in Unmet(r) /\ ran = 0
  BY <1>2, <1>6 DEF ran
<1>7. CASE \E i \in 1..n : /\ i + 3 \in Unmet(r) /\ \A j \in Unmet(r) : i + 3 <= j
                           /\ ran = IF r.gates[i] = "unlaunched" THEN i - 1 ELSE i
  <2>1. PICK i \in 1..n : /\ i + 3 \in Unmet(r) /\ \A j \in Unmet(r) : i + 3 <= j
                          /\ ran = IF r.gates[i] = "unlaunched" THEN i - 1 ELSE i
    BY <1>7
  <2>2. \A j \in 1..n : j < i => r.gates[j] = "zero"
    BY <1>3, <2>1
  <2>3. \A j \in 1..n : (\A k \in Unmet(r) : j + 3 <= k) <=> j <= i
    <3> TAKE j \in 1..n
    <3>1. CASE j <= i
      <4>1. \A k \in Unmet(r) : k \in Int
        BY <1>1, UnmetAre
      <4> QED
        BY <2>1, <3>1, <4>1
    <3>2. CASE ~(j <= i)
      BY <2>1, <3>2
    <3> QED
      BY <3>1, <3>2
  <2>4. \A j : j \in Ended(r) <=> j \in 1..n /\ r.gates[j] # "unlaunched" /\ j <= i
    BY <1>2, <2>3
  <2>5. \A j : j \in Ended(r) <=> j \in 1..ran
    BY <2>1, <2>2, <2>4
  <2>6. ran \in Nat
    BY <2>1
  <2> QED
    BY <2>5, <2>6 DEF ran
<1>8. CASE n + 4 \in Unmet(r) /\ (\A j \in Unmet(r) : n + 4 <= j) /\ ran = n
  <2>1. \A j \in Unmet(r) : j \in Int
    BY <1>1, UnmetAre
  <2>2. \A i \in 1..n : r.gates[i] = "zero"
    BY <1>3, <1>8
  <2>3. \A i \in 1..n : \A j \in Unmet(r) : i + 3 <= j
    BY <1>8, <2>1
  <2> QED
    BY <1>2, <1>8, <2>2, <2>3 DEF ran
<1> QED
  BY <1>4, <1>5, <1>6, <1>7, <1>8

(***************************************************************************)
(* The answer reports every gate that was run to an end, and no other,     *)
(* also when it is an error (RFC-0001 AC-18; gates.go).                    *)
(***************************************************************************)
THEOREM GatesAreCounted == Spec => []RanGatesReported
<1>1. ASSUME Answered PROVE RanGatesReported
  <2> SUFFICES ASSUME Decided("verify") PROVE Answer.ran = Cardinality(Ended(request))
    BY DEF RanGatesReported
  <2>1. request \in VerifyRequests /\ Answer = VerdictFor(request)
    BY <1>1, AnswerIs
  <2>2. Answer.ran \in Nat /\ Ended(request) = 1..Answer.ran
    BY <2>1, EndedAre
  <2>3. Cardinality(1..Answer.ran) = Answer.ran
    BY <2>2, FS_Interval
  <2> QED
    BY <2>2, <2>3
<1> QED
  BY <1>1, CallsAreAnswered, PTL

(***************************************************************************)
(* A green doctor is a promise about serve, for any machine, version of    *)
(* the CLI and configuration (doctor.go 52-100, 195-218; serve.go 636-643, *)
(* 724-738).                                                               *)
(***************************************************************************)
THEOREM GreenDoctorServes == Spec => []DoctorGreenServes
<1>1. ASSUME Answered PROVE DoctorGreenServes
  <2> SUFFICES ASSUME Decided("preflight"), Answer.doctor = 0 PROVE DoctorGreenServes
    BY DEF DoctorGreenServes
  <2>1. request \in PreflightRequests /\ Answer = PreflightAnswer(request)
    BY <1>1, AnswerIs
  <2>2. /\ request.role \in {"dev", "ba"} /\ request.host \in Hosts
        /\ doctor(request.config, request.role, request.host) = 0
        /\ Answer.starts = serveStarts(request.config, request.role, request.host)
    BY <2>1 DEF PreflightRequests, PreflightAnswer
  <2> QED
    BY <2>2, GreenServes DEF DoctorGreenServes
<1> QED
  BY <1>1, CallsAreAnswered, PTL

(***************************************************************************)
(* A poll is all or nothing, and the contracts it returns are those of     *)
(* consented items, for any registry and any listing (poll.go 28-143;      *)
(* RFC-0001 AC-07, AC-08).                                                 *)
(***************************************************************************)
THEOREM PollsAreExact == Spec => []PollExact
<1>1. ASSUME Answered PROVE PollExact
  <2> SUFFICES ASSUME Polled PROVE PollExact
    BY DEF PollExact
  <2>1. request \in PollRequests /\ Answer = PollAnswer(request)
    BY <1>1, AnswerIs DEF Polled
  <2>2. CASE ~request.listed \/ request.unreadable # {}
    BY <2>1, <2>2, PollIs DEF PollExact, PollFailed
  <2>3. CASE ~(~request.listed \/ request.unreadable # {})
    <3> DEFINE contracts == Answer.contracts
               listing == request.listing
    <3>1. ~Answer.err /\ Polls(listing, contracts)
      BY <2>1, <2>3, PollIs
    <3> HIDE DEF contracts, listing
    <3>2. /\ DOMAIN contracts = 1..Len(contracts) /\ DOMAIN listing = 1..Len(listing)
          /\ \E of \in [DOMAIN contracts -> DOMAIN listing] :
               /\ \A i, j \in DOMAIN contracts : i < j => of[i] < of[j]
               /\ \A i \in DOMAIN contracts :
                    Consented(listing[of[i]]) /\ contracts[i] = ContractOf(listing[of[i]])
      BY <3>1 DEF Polls
    <3>3. PICK of \in [DOMAIN contracts -> DOMAIN listing] :
            /\ \A i, j \in DOMAIN contracts : i < j => of[i] < of[j]
            /\ \A i \in DOMAIN contracts :
                 Consented(listing[of[i]]) /\ contracts[i] = ContractOf(listing[of[i]])
      BY <3>2
    <3>4. \A i \in DOMAIN of :
            LET tc == contracts[i]
                wi == listing[of[i]]
            IN  /\ Consented(wi) /\ tc.id = wi.id /\ tc.state = "queued"
                /\ tc.assigned_to = wi.assigned_to
                /\ tc.remit = [repo |-> RepoOf(wi), base_branch |-> Repos[RepoOf(wi)].base_branch,
                               paths |-> Repos[RepoOf(wi)].paths]
      <4> TAKE i \in DOMAIN of
      <4> DEFINE wi == listing[of[i]]
      <4>1. Consented(wi) /\ contracts[i] = ContractOf(wi)
        BY <3>3
      <4> HIDE DEF wi
      <4>2. RepoOf(wi) \in DOMAIN Repos
        BY <4>1 DEF Consented
      <4>3. /\ contracts[i].id = wi.id /\ contracts[i].state = "queued"
            /\ contracts[i].assigned_to = wi.assigned_to
            /\ contracts[i].remit = [repo |-> RepoOf(wi),
                                     base_branch |-> Repos[RepoOf(wi)].base_branch,
                                     paths |-> Repos[RepoOf(wi)].paths]
        BY <4>1, <4>2, ContractIs
      <4> QED
        BY <4>1, <4>3 DEF wi
    <3>5. \A i, j \in DOMAIN of : i < j => of[i] < of[j]
      BY <3>3
    <3> QED
      BY <2>3, <3>1, <3>3, <3>4, <3>5 DEF PollExact, contracts, listing
  <2> QED
    BY <2>2, <2>3
<1> QED
  BY <1>1, CallsAreAnswered, PTL

(***************************************************************************)
(* Under a configuration that loads no consented item is skipped over its  *)
(* remit, but for an empty path, which config.Load lets through            *)
(* (config.go 365-368).                                                    *)
(***************************************************************************)
THEOREM NoConsentIsLost == Spec => []LoadedRemitsDispatch
<1>1. ASSUME Answered PROVE LoadedRemitsDispatch
  <2> DEFINE contracts == Answer.contracts
             listing == request.listing
  <2> SUFFICES ASSUME Polled, ~Answer.err, NEW i \in DOMAIN listing,
                      Consented(listing[i]), ~HasEmptyPath(RepoOf(listing[i]))
               PROVE  \E j \in DOMAIN contracts : contracts[j].id = listing[i].id
    BY DEF LoadedRemitsDispatch
  <2>1. request \in PollRequests /\ Answer = PollAnswer(request)
    BY <1>1, AnswerIs DEF Polled
  <2>2. ~(~request.listed \/ request.unreadable # {}) /\ Polls(listing, contracts)
    <3>1. PollFailed.err
      BY DEF PollFailed
    <3> QED
      BY <2>1, <3>1, PollIs
  <2>3. listing \in Seq(WorkItem) /\ listing[i] \in WorkItem
    <3>1. listing \in Seq(WorkItem)
      BY <2>1, ListingsAssumption DEF PollRequests
    <3> HIDE DEF listing
    <3> QED
      BY <3>1, ElementOfSeq, LenProperties
  <2>4. Validate(ContractOf(listing[i])) = {}
    BY <2>1, <2>3, ConsentIsValid DEF Polled
  <2> HIDE DEF contracts, listing
  <2>5. PICK j \in DOMAIN contracts : contracts[j] = ContractOf(listing[i])
    BY <2>2, <2>4 DEF Polls
  <2>6. contracts[j].id = listing[i].id
    BY <2>5, ContractIs DEF Consented
  <2> QED
    BY <2>6
<1> QED
  BY <1>1, CallsAreAnswered, PTL

(***************************************************************************)
(* The hook's lexical test: a clean path has no parent segment, so that    *)
(* the relative path of one from another starts with ".." when, and only   *)
(* when, the other is not a prefix of it.                                  *)
(***************************************************************************)
\* The segments of a path; the provers do not know the two literals for strings.
Segment == STRING \cup {"..", "home"}

Cleaned == {q \in Seq(Segment) : \A i \in 1..Len(q) : q[i] # ".."}

\* One more segment taken in leaves a clean path.
LEMMA ElementCleans ==
  ASSUME NEW done \in Cleaned, NEW s \in Segment
  PROVE  Element(done, s) \in Cleaned
<1>1. done \in Seq(Segment) /\ Len(done) \in Nat /\ \A i \in 1..Len(done) : done[i] # ".."
  BY LenProperties DEF Cleaned
<1>2. CASE s = "."
  BY <1>2 DEF Element
<1>3. CASE s = ".." /\ done = <<>>
  BY <1>3 DEF Element
<1>4. CASE s = ".." /\ done # <<>>
  <2>1. Len(done) # 0
    BY <1>1, <1>4, EmptySeq
  <2> DEFINE front == SubSeq(done, 1, Len(done) - 1)
  <2>2. front \in Seq(Segment) /\ Len(front) = Len(done) - 1
        /\ \A i \in 1..Len(front) : front[i] = done[i]
    <3> DEFINE m == Len(done) - 1
    <3>1. 1 \in Int /\ m \in Nat /\ m - 1 + 1 = m /\ (1 <= m \/ m = 0)
      <4>1. PICK l \in Nat : l = Len(done) /\ l # 0
        BY <1>1, <2>1
      <4>2. l - 1 \in Nat /\ (l - 1) - 1 + 1 = l - 1 /\ (1 <= l - 1 \/ l - 1 = 0)
        BY <4>1
      <4>3. m = l - 1
        BY <4>1
      <4> HIDE DEF m
      <4> QED
        BY <4>2, <4>3
    <3>2. \A i \in 1..m : i \in 1..Len(done) /\ done[i] \in Segment /\ 1 + i - 1 = i
      <4>1. \A i \in 1..m : i \in 1..Len(done) /\ 1 + i - 1 = i
        BY <1>1, <2>1
      <4> QED
        BY <1>1, <4>1, ElementOfSeq
    <3>3. front = SubSeq(done, 1, m)
      OBVIOUS
    <3> HIDE DEF m, front
    <3>4. /\ SubSeq(done, 1, m) \in Seq(Segment)
          /\ Len(SubSeq(done, 1, m)) = IF 1 <= m THEN m - 1 + 1 ELSE 0
          /\ \A i \in 1..m - 1 + 1 : SubSeq(done, 1, m)[i] = done[1 + i - 1]
      BY <3>1, <3>2, SubSeqProperties
    <3>5. Len(front) = m
      BY <3>1, <3>3, <3>4
    <3> QED
      BY <3>1, <3>2, <3>3, <3>4, <3>5 DEF m
  <2>3. Element(done, s) = front
    BY <1>4 DEF Element, Front
  <2> HIDE DEF front
  <2>4. \A i \in 1..Len(front) : i \in 1..Len(done)
    BY <1>1, <2>1, <2>2
  <2> QED
    BY <1>1, <2>2, <2>3, <2>4 DEF Cleaned
<1>5. CASE s # "." /\ s # ".."
  <2> DEFINE t == Append(done, s)
  <2>1. t \in Seq(Segment) /\ Len(t) = Len(done) + 1 /\ t[Len(done) + 1] = s
        /\ \A i \in 1..Len(done) : t[i] = done[i]
    BY <1>1, AppendProperties
  <2>2. Element(done, s) = t
    BY <1>5 DEF Element
  <2> HIDE DEF t
  <2>3. \A i \in 1..Len(t) : i = Len(done) + 1 \/ i \in 1..Len(done)
    BY <1>1, <2>1
  <2>4. \A i \in 1..Len(t) : t[i] # ".."
    BY <1>1, <1>5, <2>1, <2>3
  <2> QED
    BY <2>1, <2>2, <2>4 DEF Cleaned
<1> QED
  BY <1>2, <1>3, <1>4, <1>5

\* The recursive function of Clean's fold, on the subsets of the first k places.
CleanBody(segs, k, f) ==
  [s \in SUBSET (1..k) |-> IF s = {} THEN <<>> ELSE Element(f[s \ {Max(s)}], segs[Max(s)])]

\* The recursive function of Clean has a solution.
LEMMA CleanExists ==
  ASSUME NEW segs, NEW n \in Nat
  PROVE  \E f : f = CleanBody(segs, n, f)
<1> DEFINE bad == {k \in Nat : ~\E f : f = CleanBody(segs, k, f)}
<1> SUFFICES ASSUME bad # {} PROVE FALSE
  OBVIOUS
<1>1. PICK k \in bad : \A j \in bad : k <= j
  <2>1. bad \in SUBSET Nat
    OBVIOUS
  <2> HIDE DEF bad
  <2> QED
    BY <2>1, LeastNatural
<1>2. k \in Nat /\ ~\E f : f = CleanBody(segs, k, f)
  BY <1>1
<1>3. CASE k = 0
  <2> DEFINE f == [s \in SUBSET (1..0) |-> <<>>]
  <2>1. \A s \in SUBSET (1..0) : s = {}
    OBVIOUS
  <2>2. f = CleanBody(segs, 0, f)
    BY <2>1 DEF CleanBody
  <2> QED
    BY <1>2, <1>3, <2>2
<1>4. CASE k # 0
  <2>1. k - 1 \in Nat /\ k - 1 \notin bad
    <3>1. k - 1 \in Nat /\ ~(k <= k - 1)
      BY <1>2, <1>4
    <3> HIDE DEF bad
    <3> QED
      BY <1>1, <3>1
  <2>2. PICK f : f = CleanBody(segs, k - 1, f)
    BY <2>1
  <2> DEFINE g == [s \in SUBSET (1..k) |->
                     IF k \in s THEN Element(f[s \ {k}], segs[k]) ELSE f[s]]
  <2>3. \A s \in SUBSET (1..(k - 1)) :
          f[s] = IF s = {} THEN <<>> ELSE Element(f[s \ {Max(s)}], segs[Max(s)])
    BY <2>2 DEF CleanBody
  <2>4. \A s \in SUBSET (1..k) :
          g[s] = IF k \in s THEN Element(f[s \ {k}], segs[k]) ELSE f[s]
    OBVIOUS
  <2>5. g = [s \in SUBSET (1..k) |-> g[s]]
    OBVIOUS
  <2> HIDE DEF g, bad
  <2>6. ASSUME NEW s \in SUBSET (1..k)
        PROVE  g[s] = IF s = {} THEN <<>> ELSE Element(g[s \ {Max(s)}], segs[Max(s)])
    <3>1. CASE k \in s
      <4>1. s # {} /\ Max(s) = k
        BY <1>2, <3>1, GreatestIs
      <4>2. s \ {k} \in SUBSET (1..k) /\ k \notin s \ {k}
        OBVIOUS
      <4>3. g[s \ {k}] = f[s \ {k}]
        BY <2>4, <4>2
      <4> QED
        BY <2>4, <3>1, <4>1, <4>3
    <3>2. CASE k \notin s
      <4>1. s \in SUBSET (1..(k - 1)) /\ g[s] = f[s]
        <5>1. \A i \in 1..k : i # k => i \in 1..(k - 1)
          BY <1>2
        <5> QED
          BY <2>4, <3>2, <5>1
      <4>2. CASE s = {}
        BY <2>3, <4>1, <4>2
      <4>3. CASE s # {}
        <5>1. s \ {Max(s)} \in SUBSET (1..k) /\ k \notin s \ {Max(s)}
          BY <3>2
        <5>2. g[s \ {Max(s)}] = f[s \ {Max(s)}]
          BY <2>4, <5>1
        <5> QED
          BY <2>3, <4>1, <4>3, <5>2
      <4> QED
        BY <4>2, <4>3
    <3> QED
      BY <3>1, <3>2
  <2>7. g = CleanBody(segs, k, g)
    BY <2>5, <2>6 DEF CleanBody
  <2> QED
    BY <1>2, <2>7
<1> QED
  BY <1>3, <1>4

\* What Clean leaves of a path has no parent segment.
LEMMA CleanIs ==
  ASSUME NEW segs \in Seq(Segment)
  PROVE  Clean(segs) \in Cleaned
<1> DEFINE n == Len(segs)
           f == CHOOSE f : f = CleanBody(segs, n, f)
<1>1. n \in Nat /\ DOMAIN segs = 1..n /\ \A i \in 1..n : segs[i] \in Segment
  BY LenProperties, ElementOfSeq
<1>2. Clean(segs) = f[1..n]
  BY <1>1 DEF Clean, FoldLeft, MapThenFoldSet, CleanBody
<1>3. f = CleanBody(segs, n, f)
  <2> HIDE DEF n
  <2> QED
    BY <1>1, CleanExists
<1> HIDE DEF f, n
<1>4. \A s \in SUBSET (1..n) :
        f[s] = IF s = {} THEN <<>> ELSE Element(f[s \ {Max(s)}], segs[Max(s)])
  BY <1>3 DEF CleanBody
<1> DEFINE bad == {k \in 0..n : \E s \in SUBSET (1..k) : f[s] \notin Cleaned}
<1>5. ASSUME bad # {} PROVE FALSE
  <2>1. PICK k \in bad : \A j \in bad : k <= j
    <3>1. bad \in SUBSET Nat
      BY <1>1
    <3> HIDE DEF bad
    <3> QED
      BY <1>5, <3>1, LeastNatural
  <2>2. k \in 0..n
    BY <2>1
  <2>3. PICK s \in SUBSET (1..k) : f[s] \notin Cleaned
    BY <2>1
  <2>4. s \in SUBSET (1..n)
    BY <1>1, <2>2
  <2>5. CASE s = {}
    <3>1. f[s] = <<>>
      BY <1>4, <2>4, <2>5
    <3>2. <<>> \in Cleaned
      BY DEF Cleaned
    <3> QED
      BY <2>3, <3>1, <3>2
  <2>6. CASE s # {} /\ k \notin s
    <3>1. k # 0
      <4>1. 1..0 = {}
        OBVIOUS
      <4> QED
        BY <2>3, <2>6, <4>1
    <3>2. s \in SUBSET (1..(k - 1)) /\ k - 1 \in 0..n
      <4>1. \A i \in 1..k : i # k => i \in 1..(k - 1)
        BY <2>2
      <4> QED
        BY <1>1, <2>2, <2>6, <3>1, <4>1
    <3>3. k - 1 \in bad
      BY <2>3, <3>2
    <3> HIDE DEF bad
    <3> QED
      BY <1>1, <2>1, <2>2, <3>3
  <2>7. CASE k \in s
    <3>1. Max(s) = k /\ s # {} /\ k # 0
      BY <2>2, <2>7, GreatestIs
    <3>2. s \ {k} \in SUBSET (1..(k - 1)) /\ k - 1 \in 0..n /\ k \in 1..n
      <4>1. \A i \in 1..k : i # k => i \in 1..(k - 1)
        BY <2>2
      <4> QED
        BY <1>1, <2>2, <3>1, <4>1
    <3>3. f[s \ {k}] \in Cleaned
      <4>1. k - 1 \notin bad
        <5> HIDE DEF bad
        <5> QED
          BY <1>1, <2>1, <2>2
      <4> QED
        BY <3>2, <4>1
    <3>4. f[s] = Element(f[s \ {k}], segs[k])
      BY <1>4, <2>4, <3>1
    <3> QED
      BY <1>1, <2>3, <3>2, <3>3, <3>4, ElementCleans
  <2> QED
    BY <2>5, <2>6, <2>7
<1>6. n \in 0..n
  BY <1>1
<1>7. f[1..n] \in Cleaned
  BY <1>5, <1>6
<1> QED
  BY <1>2, <1>7

\* The longest common prefix of two sequences is one, and no common prefix is longer.
LEMMA LongestIs ==
  ASSUME NEW base \in Seq(Segment), NEW target \in Seq(Segment)
  PROVE  LET longest == LongestCommonPrefix({base, target})
         IN  /\ \E l \in 0..Len(base) : \/ longest = SubSeq(base, 1, l)
                                        \/ longest = SubSeq(target, 1, l)
             /\ Len(longest) \in 0..Len(base)
             /\ IsPrefix(longest, base) /\ IsPrefix(longest, target)
             /\ \A other \in CommonPrefixes({base, target}) : Len(other) <= Len(longest)
<1> DEFINE common == CommonPrefixes({base, target})
           longest == LongestCommonPrefix({base, target})
           n == Len(base)
<1>1. n \in Nat /\ Len(target) \in Nat
  BY LenProperties
<1>2. \A p : p \in common <=> /\ \/ \E l \in 0..n : p = SubSeq(base, 1, l)
                                 \/ \E l \in 0..Len(target) : p = SubSeq(target, 1, l)
                              /\ IsPrefix(p, base) /\ IsPrefix(p, target)
  BY DEF CommonPrefixes, Prefixes
<1>3. \A l \in 0..n : Len(SubSeq(base, 1, l)) = l
  BY <1>1
<1>4. \A l \in 0..Len(target) : Len(SubSeq(target, 1, l)) = l
  BY <1>1
<1> HIDE DEF common
<1>5. ASSUME NEW p \in common
      PROVE  /\ Len(p) \in 0..n
             /\ \E l \in 0..n : p = SubSeq(base, 1, l) \/ p = SubSeq(target, 1, l)
  <2>1. Len(p) <= n
    BY <1>2 DEF IsPrefix
  <2>2. CASE \E l \in 0..n : p = SubSeq(base, 1, l)
    BY <1>3, <2>2
  <2>3. CASE \E l \in 0..Len(target) : p = SubSeq(target, 1, l)
    <3>1. PICK l \in 0..Len(target) : p = SubSeq(target, 1, l)
      BY <2>3
    <3>2. Len(p) = l
      BY <1>4, <3>1
    <3> HIDE DEF n
    <3>3. l \in 0..n
      BY <1>1, <2>1, <3>2
    <3> QED
      BY <3>1, <3>2, <3>3
  <2> QED
    BY <1>2, <2>2, <2>3
<1>6. <<>> \in common
  <2>1. 0 \in 0..n /\ SubSeq(base, 1, 0) = <<>> /\ SubSeq(target, 1, 0) = <<>>
    BY <1>1, SubSeqEmpty
  <2>2. IsPrefix(<<>>, base) /\ IsPrefix(<<>>, target)
    <3>1. Len(<<>>) = 0
      OBVIOUS
    <3>2. SubSeq(<<>>, 1, 0) = <<>>
      BY SubSeqEmpty
    <3> QED
      BY <1>1, <2>1, <3>1, <3>2 DEF IsPrefix
  <2> QED
    BY <1>2, <2>1, <2>2
<1> DEFINE gaps == {n - Len(p) : p \in common}
<1>7. gaps \in SUBSET Nat /\ gaps # {}
  <2>1. \A p \in common : n - Len(p) \in Nat
    <3> HIDE DEF n
    <3> QED
      BY <1>1, <1>5
  <2> QED
    BY <1>6, <2>1
<1>8. PICK g \in gaps : \A h \in gaps : g <= h
  <2> HIDE DEF gaps
  <2> QED
    BY <1>7, LeastNatural
<1>9. PICK m \in common : g = n - Len(m)
  BY <1>8
<1>10. \A p \in common : Len(p) <= Len(m)
  <2> TAKE p \in common
  <2>1. n - Len(m) <= n - Len(p)
    BY <1>8, <1>9
  <2> HIDE DEF n, gaps
  <2>2. Len(m) \in Int /\ Len(p) \in Int
    BY <1>1, <1>5
  <2> QED
    BY <1>1, <2>1, <2>2
<1>11. longest \in common /\ \A p \in common : Len(p) <= Len(longest)
  BY <1>10 DEF LongestCommonPrefix, common
<1> HIDE DEF longest
<1>12. IsPrefix(longest, base) /\ IsPrefix(longest, target)
  BY <1>2, <1>11
<1>13. Len(longest) \in 0..n
       /\ \E l \in 0..n : longest = SubSeq(base, 1, l) \/ longest = SubSeq(target, 1, l)
  BY <1>5, <1>11
<1> QED
  BY <1>11, <1>12, <1>13 DEF common, longest

\* The way from one clean path to another starts with ".." when the one is no prefix of the other.
LEMMA EscapesWhenOutside ==
  ASSUME NEW base \in Cleaned, NEW target \in Cleaned
  PROVE  Escapes(Rel(base, target)) <=> ~IsPrefix(base, target)
<1> DEFINE longest == LongestCommonPrefix({base, target})
           shared == Len(longest)
           up == [i \in 1..(Len(base) - shared) |-> ".."]
           down == SubSeq(target, shared + 1, Len(target))
<1>1. /\ base \in Seq(Segment) /\ target \in Seq(Segment)
      /\ Len(base) \in Nat /\ Len(target) \in Nat
      /\ \A i \in 1..Len(target) : target[i] # ".." /\ target[i] \in Segment
  BY LenProperties, ElementOfSeq DEF Cleaned
<1>2. /\ shared \in 0..Len(base) /\ IsPrefix(longest, base) /\ IsPrefix(longest, target)
      /\ \A other \in CommonPrefixes({base, target}) : Len(other) <= shared
  BY <1>1, LongestIs
<1>3. Rel(base, target) = up \o down
  BY DEF Rel
<1> HIDE DEF longest
<1>4. shared <= Len(target)
  BY <1>2 DEF IsPrefix
<1> HIDE DEF shared
<1>5. shared \in Nat /\ shared <= Len(base)
  BY <1>1, <1>2
<1>6. up \in Seq(Segment) /\ Len(up) = Len(base) - shared /\ \A i \in 1..Len(up) : up[i] = ".."
  <2>1. Len(base) - shared \in Nat
    BY <1>1, <1>5
  <2> DEFINE d == Len(base) - shared
  <2>2. up = [i \in 1..d |-> ".."]
    OBVIOUS
  <2> HIDE DEF d, up
  <2>3. d \in Nat
    BY <2>1 DEF d
  <2>4. ".." \in Segment
    BY DEF Segment
  <2>5. up \in Seq(Segment) /\ Len(up) = d
    BY <2>2, <2>3, <2>4
  <2>6. \A i \in 1..d : up[i] = ".."
    BY <2>2
  <2> QED
    BY <2>5, <2>6 DEF d
<1>7. /\ down \in Seq(Segment) /\ Len(down) = Len(target) - shared
      /\ \A i \in 1..Len(down) : down[i] # ".."
  <2> DEFINE m == shared + 1
             n == Len(target)
  <2>1. m \in Int /\ n \in Int /\ (m <= n \/ n - shared = 0) /\ n - m + 1 = n - shared
    BY <1>1, <1>4, <1>5
  <2>2. \A i \in m..n : i \in 1..n
    BY <1>1, <1>5
  <2>3. \A i \in m..n : target[i] \in Segment
    BY <1>1, <2>2
  <2> HIDE DEF m, n
  <2>4. /\ SubSeq(target, m, n) \in Seq(Segment)
        /\ Len(SubSeq(target, m, n)) = IF m <= n THEN n - m + 1 ELSE 0
        /\ \A i \in 1..n - m + 1 : SubSeq(target, m, n)[i] = target[m + i - 1]
    BY <2>1, <2>3, SubSeqProperties
  <2>5. down = SubSeq(target, m, n)
    BY DEF m, n
  <2> HIDE DEF down
  <2>6. Len(down) = n - shared
    BY <2>1, <2>4, <2>5
  <2>7. \A i \in 1..(n - shared) : m + i - 1 \in 1..n
    BY <1>1, <1>4, <1>5 DEF m, n
  <2>8. \A i \in 1..(n - shared) : down[i] # ".."
    BY <1>1, <2>1, <2>4, <2>5, <2>7 DEF n
  <2> QED
    BY <2>4, <2>5, <2>6, <2>8 DEF n
<1> HIDE DEF up, down
<1>8. Escapes(Rel(base, target)) <=> Len(base) # shared
  <2> DEFINE rel == up \o down
  <2>1. rel \in Seq(Segment) /\ Len(rel) = Len(up) + Len(down)
    BY <1>6, <1>7, Joined
  <2>2. \A i \in 1..Len(up) : rel[i] = up[i]
    BY <1>6, <1>7, Joined
  <2>3. \A i \in 1..Len(down) : rel[Len(up) + i] = down[i]
    BY <1>6, <1>7, Joined
  <2>4. Escapes(Rel(base, target)) <=> rel # <<>> /\ rel[1] = ".."
    BY <1>3 DEF Escapes
  <2> HIDE DEF rel
  <2>5. CASE Len(base) # shared
    <3>1. 1 \in 1..Len(up) /\ Len(rel) # 0
      BY <1>1, <1>4, <1>5, <1>6, <1>7, <2>1, <2>5
    <3>2. rel[1] = ".." /\ rel # <<>>
      BY <1>6, <2>2, <3>1
    <3> QED
      BY <2>4, <2>5, <3>2
  <2>6. CASE Len(base) = shared
    <3>1. Len(up) = 0 /\ Len(rel) = Len(down)
      BY <1>1, <1>4, <1>5, <1>6, <1>7, <2>1, <2>6
    <3>2. rel # <<>> => 1 \in 1..Len(down)
      <4>1. Len(rel) \in Nat /\ (rel # <<>> => Len(rel) # 0)
        BY <2>1, EmptySeq, LenProperties
      <4> QED
        BY <3>1, <4>1
    <3>3. rel # <<>> => rel[1] # ".."
      <4>1. 0 + 1 = 1
        OBVIOUS
      <4> QED
        BY <1>7, <2>3, <3>1, <3>2, <4>1
    <3> QED
      BY <2>4, <2>6, <3>3
  <2> QED
    BY <2>5, <2>6
<1>9. IsPrefix(base, target) => Len(base) = shared
  <2> SUFFICES ASSUME IsPrefix(base, target) PROVE Len(base) = shared
    OBVIOUS
  <2>1. SubSeq(base, 1, Len(base)) = base
    BY <1>1
  <2>2. IsPrefix(base, base)
    BY <1>1 DEF IsPrefix
  <2>3. Len(base) \in 0..Len(base)
    BY <1>1
  <2>4. base \in CommonPrefixes({base, target})
    BY <2>1, <2>2, <2>3 DEF CommonPrefixes, Prefixes
  <2> QED
    BY <1>1, <1>2, <1>5, <2>4
<1>10. Len(base) = shared => IsPrefix(base, target)
  <2> SUFFICES ASSUME Len(base) = shared PROVE IsPrefix(base, target)
    OBVIOUS
  <2>1. SubSeq(base, 1, Len(base)) = base
    BY <1>1
  <2>2. SubSeq(longest, 1, shared) = SubSeq(base, 1, shared)
    BY <1>2 DEF IsPrefix, shared
  <2>3. SubSeq(longest, 1, shared) = SubSeq(target, 1, shared)
    BY <1>2 DEF IsPrefix, shared
  <2> QED
    BY <1>4, <2>1, <2>2, <2>3 DEF IsPrefix
<1> QED
  BY <1>8, <1>9, <1>10

(***************************************************************************)
(* The hook denies exactly the writes that leave the worktree, for any     *)
(* worktree and any target (remitguard.go 41-95, ADR-0006).                *)
(***************************************************************************)
THEOREM GuardIsExact == Spec => []GuardStopsOutside
<1>1. ASSUME Answered PROVE GuardStopsOutside
  <2> SUFFICES ASSUME Decided("guard") PROVE GuardStopsOutside
    BY DEF GuardStopsOutside
  <2> DEFINE r == request
             tree == Abs(r.worktree, Cwd)
             file == Abs(r.input.file_path, tree)
  <2>1. r \in GuardRequests /\ Answer = GuardAnswer(r)
    BY <1>1, AnswerIs
  <2>2. /\ r.parse \in BOOLEAN /\ r.worktree \in Worktrees
        /\ r.input.decodes \in BOOLEAN /\ r.input.file_path \in Targets
    BY <2>1 DEF GuardRequests, Input
  <2>3. /\ r.worktree.segments \in Seq(Segment) /\ r.input.file_path.segments \in Seq(Segment)
    <3>1. ASSUME NEW q \in Seq(STRING) PROVE q \in Seq(Segment)
      <4>1. \A i \in 1..Len(q) : q[i] \in STRING
        BY ElementOfSeq
      <4> QED
        BY <4>1 DEF Segment
    <3>2. /\ r.worktree.segments \in Seq(STRING) /\ r.input.file_path.segments \in Seq(STRING)
      BY <2>2, TargetsAssumption
    <3> QED
      BY <3>1, <3>2
  <2>4. tree \in Cleaned
    <3>1. Cwd \in Seq(Segment)
      <4>1. "home" \in Segment
        BY DEF Segment
      <4> QED
        BY <4>1 DEF Cwd
    <3>2. Cwd \o r.worktree.segments \in Seq(Segment)
      BY <2>3, <3>1, ConcatProperties
    <3> QED
      BY <2>3, <3>2, CleanIs DEF Abs
  <2> HIDE DEF tree
  <2>5. file \in Cleaned
    <3>1. tree \in Seq(Segment)
      BY <2>4 DEF Cleaned
    <3>2. tree \o r.input.file_path.segments \in Seq(Segment)
      BY <2>3, <3>1, ConcatProperties
    <3> QED
      BY <2>3, <3>2, CleanIs DEF Abs
  <2>6. Escapes(Rel(tree, file)) <=> ~IsPrefix(tree, file)
    BY <2>4, <2>5, EscapesWhenOutside
  <2>7. Answer.decision = "deny" <=>
          /\ r.parse /\ r.input.decodes
          /\ r.input.file_path # NoPath /\ r.worktree # NoPath /\ Escapes(Rel(tree, file))
    BY <2>1, <2>2 DEF GuardAnswer, remitGuardCmd, remitGuard, tree
  <2> QED
    BY <2>6, <2>7 DEF GuardStopsOutside, tree
<1> QED
  BY <1>1, CallsAreAnswered, PTL

(***************************************************************************)
(* The remit, after the run.                                               *)
(***************************************************************************)

(***************************************************************************)
(* The worktree of a run that passes shows every path outside its remit as *)
(* the base commit has it, but for the source of a rename, whatever the    *)
(* paths, the patterns, the branch and what became of the tree; and so     *)
(* does the branch, when nothing it changed was undone in the worktree     *)
(* (workspace.go 240-313; RFC-0001 AC-16 and AC-17 ask it of the branch).  *)
(* The code compares strings and the remit is about directories and names: *)
(* that a pattern covers a path token by token exactly when it does        *)
(* segment by segment is CoversIs.                                         *)
(***************************************************************************)
THEOREM OutsideRemitIsCaught == Spec => []OutOfRemitCaught
<1>1. ASSUME Answered PROVE OutOfRemitCaught
  <2> SUFFICES ASSUME Decided("remit"), Passes,
                      \A pattern \in request.patterns : Mark \notin ToSet(pattern)
               PROVE  /\ request.tree.head = "descends"
                      /\ Shown(request.tree) \cap Outside(request) \subseteq Source(request)
    BY DEF OutOfRemitCaught
  <2>1. request \in RemitRequests /\ Answer = TreeAnswer(request)
    BY <1>1, AnswerIs
  <2>2. /\ CheckWorktree(request.tree, request.patterns).ancestry = "pass"
        /\ CheckWorktree(request.tree, request.patterns).diff = "pass"
    BY <2>1 DEF Passes, TreeAnswer
  <2>3. /\ request.tree.head = "descends"
        /\ \A p \in Outside(request) :
             request.tree.fate[p] \in Untouched \/ p \in Source(request)
    BY <2>1, <2>2, PassesInside
  <2> QED
    BY <2>3 DEF Shown, Untouched
<1> QED
  BY <1>1, CallsAreAnswered, PTL

(***************************************************************************)
(* And the diff passes when the worktree shows no change outside the       *)
(* remit, and git prints the names it changed as they are (workspace.go    *)
(* 240-313).                                                               *)
(***************************************************************************)
THEOREM InsideRemitPasses == Spec => []InRemitPasses
<1>1. ASSUME Answered PROVE InRemitPasses
  <2> SUFFICES ASSUME Decided("remit"), request.tree.git = "works",
                      \A p \in Shown(request.tree) : p \notin Outside(request) /\ ~Quoted(p)
               PROVE  Answer.diff = "pass"
    BY DEF InRemitPasses
  <2>1. request \in RemitRequests /\ Answer = TreeAnswer(request)
    BY <1>1, AnswerIs
  <2>2. \A p \in Base \cup New :
          request.tree.fate[p] \notin Untouched => p \notin Outside(request) /\ ~Quoted(p)
    BY DEF Shown, Untouched
  <2>3. CheckWorktree(request.tree, request.patterns).diff = "pass"
    BY <2>1, <2>2, InsidePasses
  <2> QED
    BY <2>1, <2>3 DEF TreeAnswer
<1> QED
  BY <1>1, CallsAreAnswered, PTL

(***************************************************************************)
(* The probe of the forge.                                                 *)
(***************************************************************************)

(***************************************************************************)
(* The probe finds the newest active pull request of the branch, however   *)
(* many there are and in whichever order the server lists them (forge.go   *)
(* 88-128; RFC-0001 AC-27).                                                *)
(***************************************************************************)
THEOREM NewestIsFound == Spec => []NewestPRFound
<1>1. ASSUME Answered PROVE NewestPRFound
  <2> SUFFICES ASSUME Decided("forge"), request.finds PROVE NewestPRFound
    BY DEF NewestPRFound
  <2>1. request \in ForgeRequests /\ Answer = ForgeAnswer(request)
    BY <1>1, AnswerIs
  <2>2. FindsNewest(request, ForgeAnswer(request))
    BY <2>1, NewestFound
  <2> QED
    BY <2>1, <2>2 DEF NewestPRFound, FindsNewest
<1> QED
  BY <1>1, CallsAreAnswered, PTL

(***************************************************************************)
(* What a run printed.                                                     *)
(***************************************************************************)

(***************************************************************************)
(* The record of a run holds the end of what it printed, within both       *)
(* bounds and with no event left out that there was room for, and the cost *)
(* of its last result, whatever it printed and however much of it          *)
(* (stream.go 46-136; ADR-0006).                                           *)
(***************************************************************************)
THEOREM StreamsAreRecorded == Spec => []StreamRecorded
<1>1. ASSUME Answered PROVE StreamRecorded
  <2> SUFFICES ASSUME Decided("stream") PROVE StreamRecorded
    BY DEF StreamRecorded
  <2>1. request \in StreamRequests /\ Answer = StreamAnswer(request)
    BY <1>1, AnswerIs
  <2>2. request.stdout \in Streams
    BY <2>1 DEF StreamRequests
  <2>3. Answer.tail = streamTail(request.stdout) /\ Answer.telemetry = parseTelemetry(request.stdout)
    BY <2>1 DEF StreamAnswer
  <2>4. TailHolds(request.stdout, streamTail(request.stdout))
    BY <2>2, TailIs
  <2>5. (\A i \in DOMAIN request.stdout : request.stdout[i].length < maxStreamLine)
          => CostHolds(request.stdout, parseTelemetry(request.stdout))
    BY <2>2, CostIs
  <2> QED
    BY <2>3, <2>4, <2>5 DEF StreamRecorded, TailHolds, CostHolds
<1> QED
  BY <1>1, CallsAreAnswered, PTL

(***************************************************************************)
(* The diff the operator confirms.                                         *)
(***************************************************************************)

(***************************************************************************)
(* What the operator is shown of any two documents turns the one into the  *)
(* other, row by row, and no diff marks fewer lines: the lines it keeps    *)
(* are a longest common subsequence (US-0013 AC-13.12; init.go).           *)
(***************************************************************************)
THEOREM DiffsReplay == Spec => []DiffReplays
<1>1. ASSUME Answered PROVE DiffReplays
  <2> SUFFICES ASSUME Decided("diff") PROVE DiffReplays
    BY DEF DiffReplays
  <2>1. request \in DiffRequests /\ Answer = DiffAnswer(request)
    BY <1>1, AnswerIs
  <2>2. request.old \in Documents /\ request.new \in Documents
    BY <2>1 DEF DiffRequests
  <2>3. Replays(splitConfigLines(request.old), splitConfigLines(request.new), Answer)
    BY <2>1, <2>2, DiffIs DEF DiffAnswer
  <2> QED
    BY <2>3 DEF DiffReplays, Replays, Kept
<1> QED
  BY <1>1, CallsAreAnswered, PTL

(***************************************************************************)
(* The interview of a fresh init.                                          *)
(***************************************************************************)

(***************************************************************************)
(* What init offers hangs together, whatever az lists, whatever the        *)
(* organizations and the directory hold and whatever the operator types    *)
(* (US-0015 AC-15.1 to AC-15.5; init.go).                                  *)
(***************************************************************************)
THEOREM PrefillsHangTogether == Spec => []PrefillConsistent
<1>1. ASSUME Answered PROVE PrefillConsistent
  <2> SUFFICES ASSUME Decided("prefill") PROVE PrefillConsistent
    BY DEF PrefillConsistent
  <2>1. request \in PrefillRequests /\ Answer = FreshInterview(request)
    BY <1>1, AnswerIs
  <2>2. HangsTogether(request, Answer)
    BY <2>1, PrefillIs
  <2> QED
    BY <2>2, Zenon DEF PrefillConsistent, HangsTogether
<1> QED
  BY <1>1, CallsAreAnswered, PTL
=============================================================================
