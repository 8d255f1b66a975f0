------------------------------ MODULE Telemetry ------------------------------
(***************************************************************************)
(* What the worker tells about its work: an event of a message or of an    *)
(* analysis first changes the metrics of the process                       *)
(* (src/metrics/registry.go) and then becomes a line of the log file       *)
(* (src/logger/api.go), which all goroutines share (LogRotation).  The     *)
(* metrics live in memory and start again with the process; the log does   *)
(* not.  The lines of other events are left out.                           *)
(***************************************************************************)
EXTENDS LogRotation

CONSTANTS
  Handlers,   \* goroutines, each of which handles one message per process
  Types,      \* analysis types
  MaxLine,    \* size of the longest line
  MaxMessages \* bound: messages received in all

VARIABLES
  event,      \* the last event of each goroutine
  told,       \* how far it has told of it
  kind,       \* the analysis type of its message
  inflight,   \* analysisInflight
  total,      \* analysisTotal
  skipped,    \* history: analyses that started and lost their claim, by type
  received    \* messages received in all

handlerVars == <<event, told, kind, received>>
metricVars == <<inflight, total, skipped>>
vars == <<logVars, handlerVars, metricVars>>

Events == {"sqs.received", "sqs.processed", "sqs.failed",
           "analysis.started", "analysis.completed", "analysis.failed"}
Statuses == {"started", "completed", "failed"}
Labels == Types \cup {"unknown"}
Zero == [t \in Labels |-> 0]

\* What a goroutine hands to Write, longer lines for errors.
Lines == [by : Handlers, event : Events, life : Nat, size : 1..MaxLine]

ASSUME TelemetryAssumption == MaxLine \in Nat /\ MaxLine >= 2 /\ NoLine \notin Lines

\* An error makes a line longer, that of an analysis longest.
LineSize(e) == CASE e = "analysis.failed" -> MaxLine [] e = "sqs.failed" -> 2 [] OTHER -> 1

Init ==
  /\ LogInit
  /\ event = [h \in Handlers |-> "idle"]
  /\ told = [h \in Handlers |-> "written"]
  /\ kind = [h \in Handlers |-> "unknown"]
  /\ received = 0
  /\ inflight = Zero /\ skipped = Zero
  /\ total = [t \in Labels |-> [s \in Statuses |-> 0]]

------------------------------------------------------------------------------
(***************************************************************************)
(* Metrics                                                                 *)
(***************************************************************************)
\* gaugeVec.Add
Floor(n) == IF n < 0 THEN 0 ELSE n

RecordAnalysisStarted(t) ==
  /\ inflight' = [inflight EXCEPT ![t] = @ + 1]
  /\ total' = [total EXCEPT ![t]["started"] = @ + 1]

LabelMutant(t, status) == IF status = "failed" THEN "unknown" ELSE t
\* Both events of an analysis are given the same analysisType.
Label(t, status) == t

RecordAnalysisFinished(t, status) ==
  /\ inflight' = [inflight EXCEPT ![Label(t, status)] = Floor(@ - 1)]
  /\ total' = [total EXCEPT ![Label(t, status)][status] = @ + 1]

------------------------------------------------------------------------------
(***************************************************************************)
(* Goroutines                                                              *)
(***************************************************************************)
Running == step # "down"

\* Write has returned for the last event of h.
Returned(h) == Running /\ told[h] = "written" /\ (line # NoLine => line.by # h)

Tell(h, e) ==
  /\ event' = [event EXCEPT ![h] = e]
  /\ told' = [told EXCEPT ![h] = "counted"]
  /\ UNCHANGED logVars

Receive(h) ==
  /\ Returned(h) /\ event[h] = "idle"
  /\ received < MaxMessages /\ received' = received + 1
  /\ \E t \in Types : kind' = [kind EXCEPT ![h] = t]
  /\ Tell(h, "sqs.received")
  /\ UNCHANGED metricVars

\* The strategy starts; a message it cannot decode fails before that.
AnalysisStarted(h) ==
  /\ Returned(h) /\ event[h] = "sqs.received"
  /\ RecordAnalysisStarted(kind[h])
  /\ Tell(h, "analysis.started")
  /\ UNCHANGED <<kind, received, skipped>>

Undecodable(h) ==
  /\ Returned(h) /\ event[h] = "sqs.received"
  /\ Tell(h, "sqs.failed")
  /\ UNCHANGED <<kind, received, metricVars>>

\* Another goroutine has the job: Handle returns without a further event, and
\* the message counts as processed.
LosesClaim(h) ==
  /\ Returned(h) /\ event[h] = "analysis.started"
  /\ skipped' = [skipped EXCEPT ![kind[h]] = @ + 1]
  /\ Tell(h, "sqs.processed")
  /\ UNCHANGED <<kind, received, inflight, total>>

AnalysisFinished(h, status) ==
  /\ Returned(h) /\ event[h] = "analysis.started"
  /\ RecordAnalysisFinished(kind[h], status)
  /\ Tell(h, IF status = "failed" THEN "analysis.failed" ELSE "analysis.completed")
  /\ UNCHANGED <<kind, received, skipped>>

MessageFinished(h) ==
  /\ Returned(h)
  /\ \/ event[h] = "analysis.completed" /\ Tell(h, "sqs.processed")
     \/ event[h] = "analysis.failed" /\ Tell(h, "sqs.failed")
  /\ UNCHANGED <<kind, received, metricVars>>

\* slog hands the line to the file.
LogEvent(h) ==
  /\ Running /\ told[h] = "counted"
  /\ told' = [told EXCEPT ![h] = "written"]
  /\ Write([by |-> h, event |-> event[h], life |-> crashes, size |-> LineSize(event[h])])
  /\ UNCHANGED <<event, kind, received, metricVars>>

------------------------------------------------------------------------------
Crash == LogCrash /\ UNCHANGED <<handlerVars, metricVars>>

Restart ==
  /\ LogRestart
  /\ event' = [h \in Handlers |-> "idle"]
  /\ told' = [h \in Handlers |-> "written"]
  /\ kind' = [h \in Handlers |-> "unknown"]
  /\ inflight' = Zero /\ skipped' = Zero /\ UNCHANGED received
  /\ total' = [t \in Labels |-> [s \in Statuses |-> 0]]

Next ==
  \/ \E h \in Handlers :
       \/ Receive(h) \/ AnalysisStarted(h) \/ Undecodable(h) \/ LosesClaim(h)
       \/ \E status \in Statuses \ {"started"} : AnalysisFinished(h, status)
       \/ MessageFinished(h) \/ LogEvent(h)
  \/ (LogStep \/ NewDay) /\ UNCHANGED <<handlerVars, metricVars>>
  \/ Crash \/ Restart

Spec == Init /\ [][Next]_vars

------------------------------------------------------------------------------
(***************************************************************************)
(* Properties                                                              *)
(***************************************************************************)
\* The gauge of analyses in flight (help text "In-flight analysis jobs.",
\* registry.go:341) is what started less what finished, since floor and labels
\* never interfere, and exceeds the analyses at work only by those that lost
\* their claim, which nothing ever takes off again.
InFlightCounts ==
  \A t \in Labels :
    LET atWork == {h \in Handlers : kind[h] = t /\ event[h] = "analysis.started"}
    IN /\ inflight[t] = total[t]["started"] - total[t]["completed"] - total[t]["failed"]
       /\ inflight[t] = Cardinality(atWork) + skipped[t]

\* A failing call or the death of the process costs one line at most, the one in
\* hand, although a rotation is many calls that may fail anywhere; a failed
\* reading of the archive directory costs no line in hand but one older archive
\* at most, and no other step ever replaces an archive.  Only after a failing
\* Close is the log deaf until the next start.
FailureCostIsBounded ==
  /\ lost + unread <= failures + crashes
  /\ replaced <= unread
  /\ step = "idle" /\ file = "closed" => closeFailed

\* The disk the log takes is bounded, whatever fails and however often the
\* process dies in the middle of a rotation: each failing call costs at most one
\* file, and without one the archives are within their limit between two lines.
SpaceBounded ==
  /\ SizeOf(active) <= MaxFile + (1 + failures) * MaxLine
  /\ failures = 0 => SizeOf(active) <= MaxFile \/ Len(active) = 1
  /\ ArchivedSize <= MaxTotal + (1 + failures) * (MaxFile + MaxLine)
  /\ failures = 0 /\ step = "idle" => ArchivedSize <= MaxTotal

\* Taken together the files are a bounded log (module BoundedLog): rotation,
\* cleanup, failures and crashes never reorder the lines, and never remove one
\* from the middle that is not too old, except one stretch of older lines for
\* each rename that could not read the archive directory.
Log == INSTANCE BoundedLog WITH kept <- Kept, today <- today, unread <- unread
LogSpec == Log!Spec
=============================================================================
