---------------------------- MODULE JobLifecycle ----------------------------
(***************************************************************************)
(* What the worker promises about one analysis job, whatever happens to    *)
(* messages, goroutines and processes: a valid job is taken at most once,  *)
(* ends at most once and is announced at most once, and what is announced  *)
(* is what the status column says.  A job whose claim query returned an    *)
(* error (doubtful) may in addition be reported as failed.                 *)
(* AnalysisConsumer implements this specification.                         *)
(***************************************************************************)
EXTENDS Naturals

CONSTANTS Jobs, Valid

VARIABLES status, succ, fail, doubtful

vars == <<status, succ, fail, doubtful>>

Init ==
  /\ status = [j \in Jobs |-> "QUEUED"]
  /\ succ = [j \in Jobs |-> 0] /\ fail = [j \in Jobs |-> 0]
  /\ doubtful = {}

Untold(j) == succ[j] = 0 /\ fail[j] = 0
\* No promise is made about failure reports for these.
Unprotected(j) == j \notin Valid \/ j \in doubtful

SetStatus(j, new) ==
  /\ status' = [status EXCEPT ![j] = new]
  /\ UNCHANGED <<succ, fail, doubtful>>

Take(j) == j \in Valid /\ status[j] = "QUEUED" /\ SetStatus(j, "RUNNING")

\* The status may lag: a goroutine that won the claim may find FAILED written
\* by a doubtful delivery of the same job.
InHand(j) == status[j] = "RUNNING" \/ (j \in doubtful /\ status[j] = "FAILED")

Finish(j) ==
  /\ j \in Valid /\ InHand(j) /\ (Untold(j) \/ j \in doubtful)
  /\ SetStatus(j, "ANALYSIS_JOB_COMPLETED")

GiveUp(j) ==
  /\ j \in Valid /\ InHand(j) /\ (Untold(j) \/ j \in doubtful)
  /\ SetStatus(j, "NOTIFICATION_QUEUED")

\* FAILED is the fallback for a failure whose announcement returned an error;
\* it may have gone out all the same.
MarkFailed(j) ==
  /\ Unprotected(j) \/ (status[j] \in {"RUNNING", "NOTIFICATION_QUEUED"} /\ succ[j] = 0)
  /\ SetStatus(j, "FAILED")

AnnounceSuccess(j) ==
  /\ j \in Valid /\ succ[j] = 0
  /\ \/ status[j] \in {"RUNNING", "ANALYSIS_JOB_COMPLETED"} /\ fail[j] = 0
     \/ j \in doubtful
  /\ succ' = [succ EXCEPT ![j] = 1]
  /\ UNCHANGED <<status, fail, doubtful>>

AnnounceFailure(j) ==
  /\ \/ Unprotected(j)
     \/ status[j] \in {"RUNNING", "NOTIFICATION_QUEUED"} /\ Untold(j)
  /\ fail' = [fail EXCEPT ![j] = IF @ = 2 THEN 2 ELSE @ + 1]
  /\ UNCHANGED <<status, succ, doubtful>>

\* The claim query returned an error, and may have taken effect.
Doubt(j) ==
  /\ j \in Valid
  /\ doubtful' = doubtful \cup {j}
  /\ \/ UNCHANGED status
     \/ status[j] = "QUEUED" /\ status' = [status EXCEPT ![j] = "RUNNING"]
  /\ UNCHANGED <<succ, fail>>

Next ==
  \E j \in Jobs :
    \/ Take(j) \/ Finish(j) \/ GiveUp(j) \/ MarkFailed(j)
    \/ AnnounceSuccess(j) \/ AnnounceFailure(j) \/ Doubt(j)

Spec == Init /\ [][Next]_vars
=============================================================================
