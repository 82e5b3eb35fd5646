------------------------------ MODULE Decision ------------------------------
(***************************************************************************)
(* A call that decides and changes nothing of the daemon's own: it reads   *)
(* its request, answers once, and every property is about the pair.  The   *)
(* modules that extend this one each name a kind of call and say which     *)
(* requests it can be made with.                                           *)
(***************************************************************************)
EXTENDS Naturals, Sequences

VARIABLES request, verdict     \* verdict: <<>> until the call returns, then its answer

Pending == verdict = <<>>

Asked(Requests) == request \in Requests /\ Pending

Decide(kind, Answers(_)) ==
  /\ Pending /\ request.kind = kind
  /\ verdict' = <<Answers(request)>>
  /\ UNCHANGED request

Decided(kind) == ~Pending /\ request.kind = kind
Answer == verdict[1]
=============================================================================
