---------------------------- MODULE Orchestrator ----------------------------
(***************************************************************************)
(* The pure transition function of internal/orchestrator: six operational  *)
(* states, the pre-creation pseudo-state, the events, and the table that   *)
(* says which event leaves which state.  Every other plane derives an      *)
(* event; only this module turns an event into a state.                    *)
(***************************************************************************)

\* StateStart is "" in the code, the pseudo-state before a TaskContract exists.
State == {"start", "queued", "in-progress", "in-review",
          "needs-human", "done", "failed"}

Event == {"dispatch", "claim_ok", "setup_failed", "result_ok",
          "result_needs_human", "result_invalid", "gate_red",
          "remit_violation", "probe_failed", "human_requeue",
          "human_abandon", "human_ratify"}

HumanEvent == {"human_requeue", "human_abandon", "human_ratify"}

Edge(from, event, to) == [from |-> from, event |-> event, to |-> to]

table ==
  { Edge("start",       "dispatch",           "queued"),
    Edge("queued",      "claim_ok",           "in-progress"),
    Edge("queued",      "setup_failed",       "needs-human"),
    Edge("in-progress", "result_ok",          "in-review"),
    Edge("in-progress", "result_needs_human", "needs-human"),
    Edge("in-progress", "result_invalid",     "needs-human"),
    Edge("in-progress", "gate_red",           "needs-human"),
    Edge("in-progress", "remit_violation",    "needs-human"),
    Edge("in-progress", "probe_failed",       "needs-human"),
    Edge("needs-human", "human_requeue",      "queued"),
    Edge("needs-human", "human_abandon",      "failed"),
    Edge("in-review",   "human_ratify",       "done") }

(* Next scans the table for the pair.  A pair that is not listed returns   *)
(* the input state and an error: never a silent transition.                *)
HasEdge(state, event) == \E e \in table : e.from = state /\ e.event = event

NextState(state, event) ==
  IF HasEdge(state, event)
    THEN (CHOOSE e \in table : e.from = state /\ e.event = event).to
    ELSE state
=============================================================================
