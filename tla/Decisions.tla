----------------------------- MODULE Decisions -----------------------------
(***************************************************************************)
(* The calls that decide, together: one request of any kind, answered      *)
(* once.                                                                   *)
(***************************************************************************)
EXTENDS VerifyProperties, RemitProperties, IngestProperties, PreflightProperties, Stream,
        ConfigDiff, Prefill

Init ==
  \/ Asked(VerifyRequests)
  \/ Asked(RemitRequests)
  \/ Asked(GuardRequests)
  \/ Asked(PollRequests)
  \/ Asked(ForgeRequests)
  \/ Asked(PreflightRequests)
  \/ Asked(StreamRequests)
  \/ Asked(DiffRequests)
  \/ Asked(PrefillRequests)

Next ==
  \/ VerifyRequest
  \/ CheckRemit
  \/ GuardWrite
  \/ PollTracker
  \/ ForgePR
  \/ PreflightCheck
  \/ RecordStream
  \/ ShowDiff
  \/ PrefillPrompts

Spec == Init /\ [][Next]_<<request, verdict>>
=============================================================================
