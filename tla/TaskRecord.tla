----------------------------- MODULE TaskRecord -----------------------------
(***************************************************************************)
(* What the record plane promises of one task, without the daemon: the     *)
(* state column moves along the automatic edges of the orchestrator's      *)
(* table only, each move is journaled before the next one is made, and the *)
(* journal never runs ahead of the column.  A process that dies between    *)
(* the two writes leaves `logged` one edge behind, for good.               *)
(***************************************************************************)
EXTENDS Orchestrator

CONSTANT Task

VARIABLES
  state,    \* the state column
  logged    \* to_state of the last transition row

Init ==
  /\ state  = [t \in Task |-> "start"]
  /\ logged = [t \in Task |-> "start"]

Advance(t) ==
  /\ logged[t] = state[t]
  /\ \E event \in Event \ HumanEvent :
       /\ HasEdge(state[t], event)
       /\ state' = [state EXCEPT ![t] = NextState(state[t], event)]
  /\ UNCHANGED logged

Log(t) ==
  /\ logged[t] # state[t]
  /\ logged' = [logged EXCEPT ![t] = state[t]]
  /\ UNCHANGED state

Next == \E t \in Task : Advance(t) \/ Log(t)

Spec == Init /\ [][Next]_<<state, logged>>
=============================================================================
