------------------------------- MODULE Stream -------------------------------
(***************************************************************************)
(* internal/runner/stream.go: what is kept of the agent's stdout.  A line  *)
(* has a length in bytes (without its newline, 0 when it is blank) and, if *)
(* it parses, an event: the session's start, the run's result, or another. *)
(***************************************************************************)
EXTENDS Naturals, SequencesExt, Decision

CONSTANTS
  maxStreamTailEvents, maxStreamTailBytes,   \* the bounds of the tail
  maxStreamLine,                             \* the scanner's bound on a line
  Streams                                    \* what the agent may have printed

ASSUME BoundsAssumption ==
  maxStreamTailEvents \in Nat \ {0} /\ maxStreamTailBytes \in Nat \ {0} /\ maxStreamLine \in Nat

ASSUME StreamsAssumption ==
  \A stdout \in Streams :
    stdout \in Seq(ToSet(stdout)) /\ \A line \in ToSet(stdout) : line.length \in Nat

Line(event, value, length) == [event |-> event, value |-> value, length |-> length]

\* What the lines take in the file, each with its newline.
Bytes(lines) == FoldLeft(LAMBDA sum, line : sum + line.length + 1, 0, lines)

Events(stdout) ==
  FoldLeft(LAMBDA events, line : IF line.length > 0 THEN Append(events, line) ELSE events,
           <<>>, stdout)

Last_(lines, n) == SubSeq(lines, Len(lines) - n + 1, Len(lines))

\* Mutant of Fits: the newlines are not counted.
FitsUnterminated(lines) == Bytes(lines) <= maxStreamTailBytes + Len(lines)

Fits(lines) == Bytes(lines) <= maxStreamTailBytes

(* At most so many lines, trimmed from the head to the bound on bytes but  *)
(* never to nothing; `cut` is how many bytes the last trim takes off the   *)
(* head of what is left.                                                   *)
streamTail(stdout) ==
  LET events == Events(stdout)
      recent == Last_(events, IF Len(events) > maxStreamTailEvents THEN maxStreamTailEvents ELSE Len(events))
      fitting == {n \in 1..Len(recent) : n = 1 \/ Fits(Last_(recent, n))}
      kept == IF recent = <<>> THEN <<>>
              ELSE Last_(recent, CHOOSE n \in fitting : \A m \in fitting : m <= n)
      size == Bytes(kept)
  IN  [lines |-> kept, cut |-> IF size > maxStreamTailBytes THEN size - maxStreamTailBytes ELSE 0]

NoTelemetry == [session |-> "", cost |-> 0]

\* The scanner gives up at the first line it cannot hold, and says nothing.
Scanned(stdout) ==
  LET i == SelectInSeq(stdout, LAMBDA line : line.length >= maxStreamLine)
  IN  IF i = 0 THEN stdout ELSE SubSeq(stdout, 1, i - 1)

(* The first session that is named, the last result; any other line is     *)
(* skipped.                                                                *)
parseTelemetry(stdout) ==
  FoldLeft(LAMBDA tel, line :
             CASE line.event = "init" /\ tel.session = "" -> [tel EXCEPT !.session = line.value]
               [] line.event = "result" -> [tel EXCEPT !.cost = line.value]
               [] OTHER -> tel,
           NoTelemetry, Scanned(stdout))

StreamRequests == [kind : {"stream"}, stdout : Streams]

RecordStream ==
  Decide("stream", LAMBDA r : [tail |-> streamTail(r.stdout), telemetry |-> parseTelemetry(r.stdout)])

(***************************************************************************)
(* The diagnostic record of a run holds its end: the tail is within both   *)
(* bounds, is a suffix of the events printed, has the last one, has every  *)
(* event whole but for one that is alone and too long, and leaves no event *)
(* out that there was room for; and when no line is longer than the        *)
(* scanner's bound, the cost recorded is that of the last result           *)
(* (stream.go 46-136; ADR-0006).                                           *)
(***************************************************************************)
StreamRecorded ==
  Decided("stream") =>
    LET events == Events(request.stdout)
        tail == Answer.tail
        n == Len(tail.lines)
        results == {i \in DOMAIN request.stdout : request.stdout[i].event = "result"}
    IN  /\ n <= maxStreamTailEvents /\ Bytes(tail.lines) - tail.cut <= maxStreamTailBytes
        /\ IsSuffix(tail.lines, events) /\ (events # <<>> => n > 0)
        /\ tail.cut > 0 => n = 1
        /\ n < Len(events) /\ n < maxStreamTailEvents
             => Bytes(Last_(events, n + 1)) > maxStreamTailBytes
        /\ (\A i \in DOMAIN request.stdout : request.stdout[i].length < maxStreamLine)
             => IF results = {} THEN Answer.telemetry.cost = 0
                ELSE \E i \in results : /\ \A j \in results : j <= i
                                        /\ Answer.telemetry.cost = request.stdout[i].value
=============================================================================
