-------------------------- MODULE AnalysisConsumer --------------------------
(***************************************************************************)
(* The queue side of the worker (src/sqs/sqs.go, src/bootStrap, the claim  *)
(* and status writes of src/db): the listener polls SQS for a batch and    *)
(* starts one goroutine per message, bounded by a semaphore; a goroutine   *)
(* loads the job row, claims the job, runs the analysis, records its       *)
(* status, deletes the message and publishes a notification.  SQS may      *)
(* deliver a message again at any time, every external call may fail, and  *)
(* the process may be told to stop, crash and be restarted by systemd.     *)
(***************************************************************************)
EXTENDS Naturals, FiniteSets

CONSTANTS
  Jobs,         \* rows of analysis_jobs
  Msgs,         \* messages the main server put on the analysis queue
  Handlers,     \* identities of the goroutines that run handleAnalysisMessage
  JobOf,        \* the job a message names, NoJob if its body does not parse
  Missing,      \* jobs named by a message but absent from the table
  Valid,        \* jobs whose input passes buildStrategyMessage and has a strategy
  NoJob, NoMsg,
  Concurrency,  \* capacity of Consumer.sem (SQS_CONSUMER_CONCURRENCY)
  BatchSize,    \* MaxNumberOfMessages of one ReceiveMessage
  MaxFaults,    \* bound: external calls that fail although the process runs
  MaxStops      \* bound: SIGTERMs and crashes

ASSUME ConsumerAssumption ==
  /\ JobOf \in [Msgs -> Jobs \cup {NoJob}]
  /\ Missing \subseteq Jobs /\ Valid \subseteq Jobs /\ Missing \cap Valid = {}
  /\ NoJob \notin Jobs /\ NoMsg \notin Msgs
  /\ Concurrency \in Nat \ {0} /\ BatchSize \in Nat \ {0}
  /\ MaxFaults \in Nat /\ MaxStops \in Nat
  /\ IsFiniteSet(Handlers)

VARIABLES
  queue,        \* per message: "visible", "inflight" or "deleted"
  listener,     \* where StartAnalysisListener stands
  batch,        \* received messages not yet given to a goroutine
  sem,          \* tokens in Consumer.sem
  pc, msgOf,    \* per goroutine: the next step, and its message
  proc,         \* "running", "cancelled" (ctx done) or "down"
  status,       \* analysis_jobs.job_status
  succ, fail,   \* notifications published per job: 0, 1, or 2 for several
  faults, stops,
  runs,         \* history: successful claims per job, 2 for several
  doubtful,     \* history: jobs for which a claim query returned an error
  interrupted   \* history: jobs in progress when the process died

queueVars == <<queue, listener, batch>>
procVars  == <<proc, stops>>
workVars  == <<sem, pc, msgOf>>
noteVars  == <<succ, fail>>
histVars  == <<runs, doubtful, interrupted>>
vars == <<queueVars, procVars, workVars, status, noteVars, faults, histVars>>

JobStatus == {"QUEUED", "RUNNING", "ANALYSIS_JOB_COMPLETED",
              "NOTIFICATION_QUEUED", "FAILED"}
Steps == {"idle", "load", "claim", "work", "complete", "abandon", "delOk",
          "delFail", "discard", "pubOk", "pubFail", "markFailed", "exit"}

\* Steps of a goroutine that won the claim, up to its success notification.
Executing == {"work", "complete", "abandon", "delOk", "pubOk"}
\* Steps at which the goroutine still owes the job an outcome.
Holding == Executing \cup {"delFail", "pubFail", "markFailed"}

Live == {h \in Handlers : pc[h] # "idle"}
JobAt(h) == JobOf[msgOf[h]]

(***************************************************************************)
(* External calls.  A DB call fails only when a fault is left to spend; an *)
(* AWS call also takes the context, so it fails once that is cancelled.  A *)
(* call that reports an error may have taken effect: its reply was lost.   *)
(***************************************************************************)
DbCall(ok) == IF ok THEN UNCHANGED faults
              ELSE faults < MaxFaults /\ faults' = faults + 1
AwsCall(ok) == IF proc = "cancelled" THEN ~ok /\ UNCHANGED faults ELSE DbCall(ok)

Outcome(ok, old, new) == IF ok THEN {new} ELSE {old, new}

GoTo(h, step) == pc' = [pc EXCEPT ![h] = step]
AtMostTwo(n) == IF n = 2 THEN 2 ELSE n + 1

(***************************************************************************)
(* Guards and branches of the code that the actions below use.  An         *)
(* operator named ...Mutant is a plausible mistake in the one after it;    *)
(* no action uses it.                                                      *)
(***************************************************************************)
\* c.sem <- struct{}{} blocks while the channel is full.
SemFreeMutant == sem <= Concurrency
SemFree == sem < Concurrency

\* <-c.sem in the deferred function.
ReleaseMutant(n) == n
ReleaseTwiceMutant(n) == n - 2
Release(n) == n - 1

\* WHERE job_status = 'ANALYSIS_JOB_QUEUED'.
MayClaimMutant(j) == TRUE
MayClaimAgainMutant(j) == status[j] # "RUNNING"
MayClaim(j) == status[j] = "QUEUED"

\* wg.Wait returns.
WgDoneMutant == TRUE
WgDone == Live = {}

\* A job row that could not be read: return, and leave the message alone.
AfterLoadErrorMutant == "discard"
AfterLoadError == "exit"

\* A lost claim: (nil, nil), so the message goes and nothing is published.
AfterLostClaimMutant == "delFail"
AfterLostClaim == "discard"

\* A failure that could not be published is recorded as FAILED.
AfterUnpublishedMutant == "exit"
AfterUnpublished == "markFailed"

Init ==
  /\ queue = [m \in Msgs |-> "visible"]
  /\ listener = "poll" /\ batch = {} /\ sem = 0
  /\ pc = [h \in Handlers |-> "idle"] /\ msgOf = [h \in Handlers |-> NoMsg]
  /\ proc = "running"
  /\ status = [j \in Jobs |-> "QUEUED"]
  /\ succ = [j \in Jobs |-> 0] /\ fail = [j \in Jobs |-> 0]
  /\ faults = 0 /\ stops = 0
  /\ runs = [j \in Jobs |-> 0] /\ doubtful = {} /\ interrupted = {}

(***************************************************************************)
(* The listener.                                                           *)
(***************************************************************************)
Poll ==
  /\ proc = "running" /\ listener = "poll"
  /\ \E b \in SUBSET {m \in Msgs : queue[m] = "visible"} :
       /\ b # {} /\ Cardinality(b) <= BatchSize
       /\ batch' = b
       /\ queue' = [m \in Msgs |-> IF m \in b THEN "inflight" ELSE queue[m]]
  /\ listener' = "spawn"
  /\ UNCHANGED <<procVars, workVars, status, noteVars, faults, histVars>>

Spawn(h, m) ==
  /\ listener = "spawn" /\ m \in batch /\ pc[h] = "idle"
  /\ SemFree
  /\ sem' = sem + 1
  /\ GoTo(h, "load") /\ msgOf' = [msgOf EXCEPT ![h] = m]
  /\ batch' = batch \ {m}
  /\ listener' = IF batch = {m} THEN "poll" ELSE "spawn"
  /\ UNCHANGED <<queue, procVars, status, noteVars, faults, histVars>>

\* ctx.Done is looked at only between two polls; then wg.Wait.
StopListening ==
  /\ proc = "cancelled" /\ listener = "poll"
  /\ listener' = "draining"
  /\ UNCHANGED <<queue, batch, procVars, workVars, status, noteVars, faults, histVars>>

Drained ==
  /\ listener = "draining" /\ WgDone
  /\ listener' = "stopped"
  /\ UNCHANGED <<queue, batch, procVars, workVars, status, noteVars, faults, histVars>>

(***************************************************************************)
(* One goroutine: handleAnalysisMessage and the frame of Strategy.Handle.  *)
(***************************************************************************)
Parsed(h) == JobAt(h) # NoJob

Load(h) ==
  /\ pc[h] = "load"
  /\ \/ /\ ~Parsed(h)
        /\ GoTo(h, "discard") /\ UNCHANGED faults
     \/ /\ Parsed(h) /\ DbCall(FALSE)
        /\ GoTo(h, AfterLoadError)
     \/ /\ Parsed(h) /\ DbCall(TRUE)
        /\ GoTo(h, IF JobAt(h) \in Missing THEN "discard"
                   ELSE IF JobAt(h) \in Valid THEN "claim" ELSE "delFail")
  /\ UNCHANGED <<queueVars, procVars, sem, msgOf, status, noteVars, histVars>>

\* The conditional UPDATE of ClaimAnalysisJob and the three ways Handle goes on.
Claim(h) ==
  /\ pc[h] = "claim"
  /\ \/ /\ DbCall(FALSE)
        /\ GoTo(h, "delFail")
        /\ doubtful' = doubtful \cup {JobAt(h)}
        /\ \/ UNCHANGED status
           \/ MayClaim(JobAt(h)) /\ status' = [status EXCEPT ![JobAt(h)] = "RUNNING"]
        /\ UNCHANGED runs
     \/ /\ DbCall(TRUE) /\ MayClaim(JobAt(h))
        /\ status' = [status EXCEPT ![JobAt(h)] = "RUNNING"]
        /\ runs' = [runs EXCEPT ![JobAt(h)] = AtMostTwo(@)]
        /\ GoTo(h, "work") /\ UNCHANGED doubtful
     \/ /\ DbCall(TRUE) /\ ~MayClaim(JobAt(h))
        /\ GoTo(h, AfterLostClaim) /\ UNCHANGED <<status, runs, doubtful>>
  /\ UNCHANGED <<queueVars, procVars, sem, msgOf, noteVars, interrupted>>

\* The analysis itself succeeds or fails; its steps are in AnalysisPipeline.
Work(h) ==
  /\ pc[h] = "work"
  /\ GoTo(h, "complete") \/ GoTo(h, "abandon")
  /\ UNCHANGED <<queueVars, procVars, sem, msgOf, status, noteVars, faults, histVars>>

\* UpdateAnalysisJobStatus: unconditional, its error only logged.
SetStatus(j, new) ==
  \E ok \in BOOLEAN :
    /\ DbCall(ok)
    /\ status' \in Outcome(ok, status, [status EXCEPT ![j] = new])

Complete(h) ==
  /\ pc[h] = "complete"
  /\ SetStatus(JobAt(h), "ANALYSIS_JOB_COMPLETED")
  /\ GoTo(h, "delOk")
  /\ UNCHANGED <<queueVars, procVars, sem, msgOf, noteVars, histVars>>

Abandon(h) ==
  /\ pc[h] = "abandon"
  /\ SetStatus(JobAt(h), "NOTIFICATION_QUEUED")
  /\ GoTo(h, "delFail")
  /\ UNCHANGED <<queueVars, procVars, sem, msgOf, noteVars, histVars>>

Delete(h) ==
  /\ pc[h] \in {"delOk", "delFail", "discard"}
  /\ \E ok \in BOOLEAN :
       /\ AwsCall(ok)
       /\ queue' \in Outcome(ok, queue, [queue EXCEPT ![msgOf[h]] = "deleted"])
  /\ GoTo(h, CASE pc[h] = "delOk"   -> "pubOk"
               [] pc[h] = "delFail" -> "pubFail"
               [] pc[h] = "discard" -> "exit")
  /\ UNCHANGED <<listener, batch, procVars, sem, msgOf, status, noteVars, histVars>>

PublishSuccess(h) ==
  /\ pc[h] = "pubOk"
  /\ \E ok \in BOOLEAN :
       /\ AwsCall(ok)
       /\ succ' \in Outcome(ok, succ, [succ EXCEPT ![JobAt(h)] = AtMostTwo(@)])
  /\ GoTo(h, "exit")
  /\ UNCHANGED <<queueVars, procVars, sem, msgOf, status, fail, histVars>>

PublishFailure(h) ==
  /\ pc[h] = "pubFail"
  /\ \E ok \in BOOLEAN :
       /\ AwsCall(ok)
       /\ fail' \in Outcome(ok, fail, [fail EXCEPT ![JobAt(h)] = AtMostTwo(@)])
       /\ GoTo(h, IF ok THEN "exit" ELSE AfterUnpublished)
  /\ UNCHANGED <<queueVars, procVars, sem, msgOf, status, succ, histVars>>

MarkFailed(h) ==
  /\ pc[h] = "markFailed"
  /\ SetStatus(JobAt(h), "FAILED")
  /\ GoTo(h, "exit")
  /\ UNCHANGED <<queueVars, procVars, sem, msgOf, noteVars, histVars>>

\* The deferred <-c.sem and wg.Done.
Exit(h) ==
  /\ pc[h] = "exit"
  /\ GoTo(h, "idle") /\ msgOf' = [msgOf EXCEPT ![h] = NoMsg]
  /\ sem' = Release(sem)
  /\ UNCHANGED <<queueVars, procVars, status, noteVars, faults, histVars>>

HandlerStep(h) ==
  \/ Load(h) \/ Claim(h) \/ Work(h) \/ Complete(h) \/ Abandon(h) \/ Delete(h)
  \/ PublishSuccess(h) \/ PublishFailure(h) \/ MarkFailed(h) \/ Exit(h)

(***************************************************************************)
(* SQS, the operating system and systemd.                                  *)
(***************************************************************************)
\* The visibility timeout lapses although the message was not deleted: no
\* heartbeat runs while a message waits for the semaphore, heartbeats may fail,
\* and a standard queue may deliver twice anyway.
Redeliver(m) ==
  /\ queue[m] = "inflight"
  /\ queue' = [queue EXCEPT ![m] = "visible"]
  /\ UNCHANGED <<listener, batch, procVars, workVars, status, noteVars, faults, histVars>>

SigTerm ==
  /\ proc = "running" /\ stops < MaxStops
  /\ proc' = "cancelled" /\ stops' = stops + 1
  /\ UNCHANGED <<queueVars, workVars, status, noteVars, faults, histVars>>

Die ==
  /\ proc' = "down"
  /\ listener' = "off" /\ batch' = {} /\ sem' = 0
  /\ pc' = [h \in Handlers |-> "idle"] /\ msgOf' = [h \in Handlers |-> NoMsg]
  /\ interrupted' = interrupted \cup {JobAt(h) : h \in {g \in Live : pc[g] \in Holding}}
  /\ UNCHANGED <<queue, status, noteVars, faults, runs, doubtful>>

\* AppStart returns as soon as the context is done, and main with it.
ProcessExit == proc = "cancelled" /\ Die /\ UNCHANGED stops

Crash == proc # "down" /\ stops < MaxStops /\ stops' = stops + 1 /\ Die

Restart ==
  /\ proc = "down"
  /\ proc' = "running" /\ listener' = "poll"
  /\ UNCHANGED <<queue, batch, stops, workVars, status, noteVars, faults, histVars>>

Next ==
  \/ Poll \/ StopListening \/ Drained
  \/ \E h \in Handlers, m \in Msgs : Spawn(h, m)
  \/ \E h \in Handlers : HandlerStep(h)
  \/ \E m \in Msgs : Redeliver(m)
  \/ SigTerm \/ ProcessExit \/ Crash \/ Restart

Spec == Init /\ [][Next]_vars

(***************************************************************************)
(* Goroutines are scheduled, the listener keeps polling, systemd restarts  *)
(* the process and SQS makes an undeleted message visible again.  Signals, *)
(* crashes and failing calls are not fair, nor is the end of a strategy:   *)
(* it polls the AI and clones from GitHub without a deadline.              *)
(***************************************************************************)
ShortStep(h) ==
  \/ Load(h) \/ Claim(h) \/ Complete(h) \/ Abandon(h) \/ Delete(h)
  \/ PublishSuccess(h) \/ PublishFailure(h) \/ MarkFailed(h) \/ Exit(h)

Fairness ==
  /\ WF_vars(Poll) /\ WF_vars(Restart) /\ WF_vars(ProcessExit)
  /\ WF_vars(\E h \in Handlers, m \in Msgs : Spawn(h, m))
  /\ \A h \in Handlers : WF_vars(ShortStep(h))
  /\ \A m \in Msgs : WF_vars(Redeliver(m))

FairSpec == Spec /\ Fairness

-----------------------------------------------------------------------------
(***************************************************************************)
(* Properties.                                                             *)
(***************************************************************************)
\* Every variable has its type; goroutines hold a message exactly while live.
TypeOK ==
  /\ queue \in [Msgs -> {"visible", "inflight", "deleted"}]
  /\ listener \in {"poll", "spawn", "draining", "stopped", "off"}
  /\ batch \subseteq Msgs /\ sem \in Nat
  /\ pc \in [Handlers -> Steps] /\ msgOf \in [Handlers -> Msgs \cup {NoMsg}]
  /\ \A h \in Handlers : msgOf[h] = NoMsg <=> pc[h] = "idle"
  /\ proc \in {"running", "cancelled", "down"}
  /\ status \in [Jobs -> JobStatus]
  /\ succ \in [Jobs -> 0..2] /\ fail \in [Jobs -> 0..2] /\ runs \in [Jobs -> 0..2]
  /\ faults \in Nat /\ stops \in Nat
  /\ doubtful \subseteq Jobs /\ interrupted \subseteq Jobs

\* The semaphore counts the goroutines that run, on every return path of
\* handleAnalysisMessage, and never lets more than its capacity run.
SemaphoreCounts == sem = Cardinality(Live) /\ sem <= Concurrency

\* However often a message is delivered and the worker restarted, at most one
\* goroutine ever wins the claim of a job, and at most one executes it.
ClaimExclusive ==
  /\ \A j \in Jobs : runs[j] <= 1
  /\ \A g, h \in Live :
       pc[g] \in Executing /\ pc[h] \in Executing /\ JobAt(g) = JobAt(h) => g = h

\* The claim query of j never returned an error, so every goroutine knew
\* whether it had the job.
Protected(j) == j \in Valid \ doubtful

\* A job is announced at most once, as a success or as a failure: duplicates of
\* its message are dropped silently.
AnnouncedOnce == \A j \in Jobs : Protected(j) => succ[j] + fail[j] <= 1

\* The status column and the notification never contradict each other: no
\* failure is announced for a completed job, no success for a failed one.
StatusAgrees ==
  \A j \in Jobs : Protected(j) =>
    /\ status[j] = "ANALYSIS_JOB_COMPLETED" => fail[j] = 0
    /\ status[j] \in {"NOTIFICATION_QUEUED", "FAILED"} => succ[j] = 0

\* A message is deleted only after its job was claimed: a job nobody took
\* keeps its message, through load errors, redeliveries and restarts.
UnclaimedKeepsMessage ==
  \A m \in Msgs :
    queue[m] = "deleted" /\ JobOf[m] # NoJob /\ Protected(JobOf[m])
      => status[JobOf[m]] # "QUEUED"

Settled(j) == succ[j] + fail[j] > 0 \/ status[j] \in {"ANALYSIS_JOB_COMPLETED", "FAILED"}

InProgress(j) == \E h \in Live : JobAt(h) = j /\ pc[h] \in Holding

\* A claimed job is in some goroutine's hands or has an outcome somebody can
\* see, unless the process died with it or two troubles (failing calls, signals
\* or crashes) have occurred anywhere: one failing call, wherever it falls,
\* never makes a job disappear.
ClaimedNotForgotten ==
  \A j \in Valid :
    status[j] # "QUEUED" =>
      InProgress(j) \/ Settled(j) \/ j \in interrupted \/ faults + stops >= 2

\* Once the listener has waited for its group nothing of it is left running:
\* no goroutine, and no received message without one.
StoppedIsQuiet == listener = "stopped" => Live = {} /\ batch = {}

\* No goroutine stays in its strategy for ever.
StrategiesEnd == \A h \in Handlers : []<>(pc[h] # "work")

\* As long as strategies end, every valid job with a message gets an outcome,
\* with the same two excuses: no other call, no full semaphore and no return
\* path keeps it waiting for ever.  One strategy that hangs may.
EveryJobSettles ==
  StrategiesEnd =>
    \A m \in Msgs :
      JobOf[m] \in Valid =>
        <>(Settled(JobOf[m]) \/ JobOf[m] \in interrupted \/ faults + stops >= 2)

\* The status column and the notifications follow JobLifecycle.
Lifecycle == INSTANCE JobLifecycle
  WITH status <- status, succ <- succ, fail <- fail, doubtful <- doubtful
LifecycleSpec == Lifecycle!Spec
=============================================================================
