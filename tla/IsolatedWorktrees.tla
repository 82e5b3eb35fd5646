------------------------- MODULE IsolatedWorktrees -------------------------
(***************************************************************************)
(* What internal/workspace promises of the task branches, without a        *)
(* mirror: a branch starts at some version of the base, grows by its own   *)
(* agent's commits, and no step of any other task changes it (spec 4.5).   *)
(***************************************************************************)
EXTENDS Naturals

CONSTANTS Task, Base, Serial   \* who commits, and the numbers of their commits

VARIABLE history    \* commits reachable from each task's branch, {} before it exists

Init == history = [t \in Task |-> {}]

Create(t) ==
  /\ history[t] = {}
  /\ \E n \in Serial : history' = [history EXCEPT ![t] = {<<Base, i>> : i \in 0..n}]

Commit(t) ==
  /\ history[t] # {}
  /\ \E n \in Serial :
       /\ <<t, n>> \notin history[t]
       /\ history' = [history EXCEPT ![t] = @ \cup {<<t, n>>}]

Next == \E t \in Task : Create(t) \/ Commit(t)

Spec == Init /\ [][Next]_history
=============================================================================
