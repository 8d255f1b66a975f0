----------------------- MODULE AnalysisConsumer_proofs -----------------------
(***************************************************************************)
(* Proofs about AnalysisConsumer for every set of jobs, messages and       *)
(* goroutines and every capacity: its types, the exclusive claim, what a   *)
(* protected job's status and notifications may say, what becomes of a job *)
(* and its message, and that it implements JobLifecycle.                   *)
(***************************************************************************)
EXTENDS AnalysisConsumer, FiniteSetTheorems, TLAPS

\* A goroutine past its load step holds a message of an existing job, which is
\* valid if the goroutine won, or is about to ask for, the claim.
HoldsJob ==
  \A h \in Handlers :
    /\ pc[h] \in {"claim"} \cup Holding => JobAt(h) \in Jobs
    /\ pc[h] \in {"claim"} \cup Executing => JobAt(h) \in Valid

\* The types need the semaphore's count: Exit takes a token out.
TypeInv == TypeOK /\ HoldsJob /\ SemaphoreCounts

\* The saturating counters stay within their range.
LEMMA AtMostTwoType == \A n \in 0..2 : AtMostTwo(n) \in 0..2
BY DEF AtMostTwo

\* The fault counter stays a number, whether a call succeeds or fails.
LEMMA CallType ==
  ASSUME faults \in Nat, NEW ok \in BOOLEAN, DbCall(ok) \/ AwsCall(ok)
  PROVE  faults' \in Nat
BY DEF DbCall, AwsCall

\* The live goroutines are finitely many, and their number follows pc.
LEMMA LiveCount ==
  ASSUME TypeOK
  PROVE  /\ IsFiniteSet(Live) /\ Cardinality(Live) \in Nat
         /\ \A h \in Handlers : pc[h] = "idle" => Cardinality(Live \cup {h}) = Cardinality(Live) + 1
         /\ \A h \in Handlers : pc[h] # "idle" => Cardinality(Live \ {h}) = Cardinality(Live) - 1
<1>1. IsFiniteSet(Live)
  BY ConsumerAssumption, FS_Subset DEF Live
<1>2. Cardinality(Live) \in Nat
  BY <1>1, FS_CardinalityType
<1>3. \A h \in Handlers : pc[h] = "idle" => Cardinality(Live \cup {h}) = Cardinality(Live) + 1
  BY <1>1, FS_AddElement DEF Live
<1>4. \A h \in Handlers : pc[h] # "idle" => Cardinality(Live \ {h}) = Cardinality(Live) - 1
  BY <1>1, FS_RemoveElement DEF Live
<1>5. QED
  BY <1>1, <1>2, <1>3, <1>4

\* A step that moves one live goroutine to another step keeps the count.
LEMMA SameLive ==
  ASSUME TypeOK, NEW h \in Handlers, NEW s \in Steps \ {"idle"},
         pc[h] # "idle", pc' = [pc EXCEPT ![h] = s]
  PROVE  Live' = Live
BY DEF TypeOK, Live

\* Nothing changes for the goroutines in a step that leaves pc and msgOf alone.
LEMMA HoldsJobFrame ==
  ASSUME HoldsJob, UNCHANGED <<pc, msgOf>> PROVE HoldsJob'
BY DEF HoldsJob, JobAt

\* Every action keeps sem equal to the number of live goroutines.
LEMMA SemaphoreStep == TypeOK /\ SemaphoreCounts /\ [Next]_vars => SemaphoreCounts'
<1> SUFFICES ASSUME TypeOK, SemaphoreCounts, [Next]_vars PROVE SemaphoreCounts'
  OBVIOUS
<1>1. CASE Poll \/ StopListening \/ Drained \/ SigTerm \/ Restart
           \/ (\E m \in Msgs : Redeliver(m)) \/ UNCHANGED vars
  BY <1>1 DEF Poll, StopListening, Drained, SigTerm, Restart, Redeliver, vars, workVars,
              SemaphoreCounts, Live
<1>2. ASSUME NEW h \in Handlers, NEW m \in Msgs, Spawn(h, m) PROVE SemaphoreCounts'
  <2>1. Live' = Live \cup {h}
    BY <1>2 DEF Spawn, GoTo, Live, TypeOK
  <2>2. pc[h] = "idle" /\ sem < Concurrency /\ sem' = sem + 1
    BY <1>2 DEF Spawn, SemFree
  <2>3. QED
    BY <2>1, <2>2, LiveCount, ConsumerAssumption DEF SemaphoreCounts, TypeOK
<1>3. ASSUME NEW h \in Handlers, Exit(h) PROVE SemaphoreCounts'
  <2>1. Live' = Live \ {h}
    BY <1>3 DEF Exit, GoTo, Live, TypeOK
  <2>2. pc[h] # "idle" /\ sem' = sem - 1
    BY <1>3 DEF Exit, Release
  <2>3. QED
    BY <2>1, <2>2, LiveCount, ConsumerAssumption DEF SemaphoreCounts, TypeOK
<1>4. ASSUME NEW h \in Handlers,
             \/ Load(h) \/ Claim(h) \/ Work(h) \/ Complete(h) \/ Abandon(h)
             \/ Delete(h) \/ PublishSuccess(h) \/ PublishFailure(h) \/ MarkFailed(h)
      PROVE  SemaphoreCounts'
  <2>1. sem' = sem /\ pc[h] # "idle"
    BY <1>4 DEF Load, Claim, Work, Complete, Abandon, Delete, PublishSuccess,
                PublishFailure, MarkFailed
  <2>2. \E s \in Steps \ {"idle"} : pc' = [pc EXCEPT ![h] = s]
    BY <1>4 DEF Load, Claim, Work, Complete, Abandon, Delete, PublishSuccess, PublishFailure,
                MarkFailed, GoTo, Steps, AfterLoadError, AfterLostClaim, AfterUnpublished
  <2>3. Live' = Live
    BY <2>1, <2>2, SameLive
  <2>4. QED
    BY <2>1, <2>3 DEF SemaphoreCounts
<1>5. CASE ProcessExit \/ Crash
  <2>1. Live' = {} /\ sem' = 0
    BY <1>5 DEF ProcessExit, Crash, Die, Live
  <2>2. QED
    BY <2>1, FS_EmptySet, ConsumerAssumption DEF SemaphoreCounts
<1>6. QED
  BY <1>1, <1>2, <1>3, <1>4, <1>5 DEF Next, HandlerStep

\* The initial states have the types.
LEMMA TypeInit == Init => TypeInv
<1> SUFFICES ASSUME Init PROVE TypeInv
  OBVIOUS
<1>1. TypeOK
  BY ConsumerAssumption DEF Init, TypeOK, Steps, JobStatus
<1>2. HoldsJob
  BY DEF Init, HoldsJob, Holding, Executing
<1>3. SemaphoreCounts
  BY FS_EmptySet, ConsumerAssumption DEF Init, SemaphoreCounts, Live
<1>4. QED
  BY <1>1, <1>2, <1>3 DEF TypeInv

\* Every step keeps the types, and what a goroutine holds.
LEMMA TypeStep == TypeInv /\ [Next]_vars => TypeInv'
<1> SUFFICES ASSUME TypeInv, [Next]_vars PROVE TypeOK' /\ HoldsJob'
  BY SemaphoreStep DEF TypeInv
<1> USE ConsumerAssumption DEF TypeInv
<1>1. CASE Poll
  <2>1. UNCHANGED <<pc, msgOf>>
    BY <1>1 DEF Poll, workVars
  <2>2. TypeOK'
    BY <1>1, <2>1 DEF Poll, TypeOK, procVars, workVars, noteVars, histVars
  <2>3. QED
    BY <2>1, <2>2, HoldsJobFrame
<1>2. ASSUME NEW h \in Handlers, NEW m \in Msgs, Spawn(h, m) PROVE TypeOK' /\ HoldsJob'
  <2>1. pc' = [pc EXCEPT ![h] = "load"] /\ msgOf' = [msgOf EXCEPT ![h] = m]
    BY <1>2 DEF Spawn, GoTo
  <2>2. HoldsJob'
    BY <2>1 DEF HoldsJob, JobAt, TypeOK, Holding, Executing
  <2>3. TypeOK'
    BY <1>2, <2>1 DEF Spawn, TypeOK, Steps, procVars, noteVars, histVars
  <2>4. QED
    BY <2>2, <2>3
<1>3. CASE StopListening \/ Drained
  <2>1. UNCHANGED <<pc, msgOf>>
    BY <1>3 DEF StopListening, Drained, workVars
  <2>2. TypeOK'
    BY <1>3, <2>1 DEF StopListening, Drained, TypeOK, procVars, workVars, noteVars, histVars
  <2>3. QED
    BY <2>1, <2>2, HoldsJobFrame
<1>4. ASSUME NEW h \in Handlers, Load(h) PROVE TypeOK' /\ HoldsJob'
  <2>1. PICK s \in {"exit", "discard", "claim", "delFail"} :
          /\ pc' = [pc EXCEPT ![h] = s]
          /\ s \in {"claim", "delFail"} => JobAt(h) \in Jobs
          /\ s = "claim" => JobAt(h) \in Valid
    BY <1>4 DEF Load, GoTo, Parsed, AfterLoadError, JobAt, TypeOK
  <2>2. faults' \in Nat
    BY <1>4, CallType DEF Load, TypeOK
  <2>3. UNCHANGED <<queueVars, procVars, sem, msgOf, status, noteVars, histVars>>
    BY <1>4 DEF Load
  <2>4. TypeOK'
    BY <1>4, <2>1, <2>2, <2>3 DEF Load, TypeOK, Steps, queueVars, procVars, noteVars, histVars
  <2>5. HoldsJob'
    BY <2>1, <2>3 DEF HoldsJob, JobAt, TypeOK, Holding, Executing
  <2>6. QED
    BY <2>4, <2>5
<1>5. ASSUME NEW h \in Handlers, Claim(h) PROVE TypeOK' /\ HoldsJob'
  <2>1. JobAt(h) \in Valid /\ JobAt(h) \in Jobs
    BY <1>5 DEF Claim, HoldsJob
  <2>2. PICK s \in {"delFail", "work", "discard"} : pc' = [pc EXCEPT ![h] = s]
    BY <1>5 DEF Claim, GoTo, AfterLostClaim
  <2>3. faults' \in Nat
    BY <1>5, CallType DEF Claim, TypeOK
  <2>4. UNCHANGED <<queueVars, procVars, sem, msgOf, noteVars, interrupted>>
    BY <1>5 DEF Claim
  <2>5. status' \in [Jobs -> JobStatus] /\ doubtful' \subseteq Jobs
    BY <1>5, <2>1 DEF Claim, TypeOK, JobStatus
  <2>6. runs' \in [Jobs -> 0..2]
    <3>1. AtMostTwo(runs[JobAt(h)]) \in 0..2
      BY <2>1, AtMostTwoType DEF TypeOK
    <3>2. QED
      BY <1>5, <3>1 DEF Claim, TypeOK
  <2>7. TypeOK'
    BY <1>5, <2>2, <2>3, <2>4, <2>5, <2>6 DEF Claim, TypeOK, Steps, queueVars, procVars, noteVars
  <2>8. HoldsJob'
    BY <2>1, <2>2, <2>4 DEF HoldsJob, JobAt, TypeOK, Holding, Executing
  <2>9. QED
    BY <2>7, <2>8
<1>6. ASSUME NEW h \in Handlers, Work(h) PROVE TypeOK' /\ HoldsJob'
  <2>1. PICK s \in {"complete", "abandon"} : pc' = [pc EXCEPT ![h] = s]
    BY <1>6 DEF Work, GoTo
  <2>2. TypeOK'
    BY <1>6, <2>1 DEF Work, TypeOK, Steps, queueVars, procVars, noteVars, histVars
  <2>3. HoldsJob'
    BY <1>6, <2>1 DEF Work, HoldsJob, JobAt, TypeOK, Holding, Executing
  <2>4. QED
    BY <2>2, <2>3
<1>7. ASSUME NEW h \in Handlers, Complete(h) \/ Abandon(h) \/ MarkFailed(h) PROVE TypeOK' /\ HoldsJob'
  <2>1. JobAt(h) \in Jobs
    BY <1>7 DEF Complete, Abandon, MarkFailed, HoldsJob, Holding, Executing
  <2>2. PICK s \in {"delOk", "delFail", "exit"} :
          /\ pc' = [pc EXCEPT ![h] = s]
          /\ s = "delOk" => JobAt(h) \in Valid
    BY <1>7 DEF Complete, Abandon, MarkFailed, GoTo, HoldsJob, Executing
  <2>3. PICK new \in JobStatus : SetStatus(JobAt(h), new)
    BY <1>7 DEF Complete, Abandon, MarkFailed, JobStatus
  <2>4. status' \in [Jobs -> JobStatus] /\ faults' \in Nat
    BY <2>1, <2>3, CallType DEF SetStatus, Outcome, TypeOK
  <2>5. UNCHANGED <<queueVars, procVars, sem, msgOf, noteVars, histVars>>
    BY <1>7 DEF Complete, Abandon, MarkFailed
  <2>6. TypeOK'
    BY <1>7, <2>2, <2>4, <2>5
    DEF Complete, Abandon, MarkFailed, TypeOK, Steps, queueVars, procVars, noteVars, histVars
  <2>7. HoldsJob'
    BY <2>1, <2>2, <2>5 DEF HoldsJob, JobAt, TypeOK, Holding, Executing
  <2>8. QED
    BY <2>6, <2>7
<1>8. ASSUME NEW h \in Handlers, Delete(h) PROVE TypeOK' /\ HoldsJob'
  <2>1. PICK s \in {"pubOk", "pubFail", "exit"} :
          /\ pc' = [pc EXCEPT ![h] = s]
          /\ s \in {"pubOk", "pubFail"} => JobAt(h) \in Jobs
          /\ s = "pubOk" => JobAt(h) \in Valid
    BY <1>8 DEF Delete, GoTo, HoldsJob, Holding, Executing
  <2>2. queue' \in [Msgs -> {"visible", "inflight", "deleted"}] /\ faults' \in Nat
    BY <1>8, CallType DEF Delete, Outcome, TypeOK
  <2>3. UNCHANGED <<listener, batch, procVars, sem, msgOf, status, noteVars, histVars>>
    BY <1>8 DEF Delete
  <2>4. TypeOK'
    BY <1>8, <2>1, <2>2, <2>3 DEF Delete, TypeOK, Steps, procVars, noteVars, histVars
  <2>5. HoldsJob'
    BY <2>1, <2>3 DEF HoldsJob, JobAt, TypeOK, Holding, Executing
  <2>6. QED
    BY <2>4, <2>5
<1>9. ASSUME NEW h \in Handlers, PublishSuccess(h) \/ PublishFailure(h) PROVE TypeOK' /\ HoldsJob'
  <2>1. JobAt(h) \in Jobs
    BY <1>9 DEF PublishSuccess, PublishFailure, HoldsJob, Holding, Executing
  <2>2. PICK s \in {"exit", "markFailed"} : pc' = [pc EXCEPT ![h] = s]
    BY <1>9 DEF PublishSuccess, PublishFailure, GoTo, AfterUnpublished
  <2>3. /\ succ' \in [Jobs -> 0..2] /\ fail' \in [Jobs -> 0..2]
        /\ faults' \in Nat
    BY <1>9, <2>1, CallType, AtMostTwoType DEF PublishSuccess, PublishFailure, Outcome, TypeOK
  <2>4. UNCHANGED <<queueVars, procVars, sem, msgOf, status, histVars>>
    BY <1>9 DEF PublishSuccess, PublishFailure
  <2>5. TypeOK'
    BY <1>9, <2>2, <2>3, <2>4
    DEF PublishSuccess, PublishFailure, TypeOK, Steps, queueVars, procVars, histVars
  <2>6. HoldsJob'
    BY <2>1, <2>2, <2>4 DEF HoldsJob, JobAt, TypeOK, Holding, Executing
  <2>7. QED
    BY <2>5, <2>6
<1>10. ASSUME NEW h \in Handlers, Exit(h) PROVE TypeOK' /\ HoldsJob'
  <2>1. sem' \in Nat
    BY <1>10, FS_EmptySet, LiveCount DEF Exit, Release, SemaphoreCounts, TypeOK, Live
  <2>2. TypeOK'
    BY <1>10, <2>1 DEF Exit, GoTo, TypeOK, Steps, queueVars, procVars, noteVars, histVars
  <2>3. HoldsJob'
    BY <1>10 DEF Exit, GoTo, HoldsJob, JobAt, TypeOK, Holding, Executing
  <2>4. QED
    BY <2>2, <2>3
<1>11. CASE \E m \in Msgs : Redeliver(m)
  <2>1. UNCHANGED <<pc, msgOf>>
    BY <1>11 DEF Redeliver, workVars
  <2>2. TypeOK'
    BY <1>11, <2>1 DEF Redeliver, TypeOK, procVars, workVars, noteVars, histVars
  <2>3. QED
    BY <2>1, <2>2, HoldsJobFrame
<1>12. CASE SigTerm
  <2>1. UNCHANGED <<pc, msgOf>>
    BY <1>12 DEF SigTerm, workVars
  <2>2. TypeOK'
    BY <1>12, <2>1 DEF SigTerm, TypeOK, queueVars, workVars, noteVars, histVars
  <2>3. QED
    BY <2>1, <2>2, HoldsJobFrame
<1>13. CASE ProcessExit \/ Crash
  <2>1. Die /\ stops' \in Nat
    BY <1>13 DEF ProcessExit, Crash, TypeOK
  <2>2. interrupted' \subseteq Jobs
    BY <2>1 DEF Die, TypeOK, HoldsJob, Live
  <2>3. TypeOK'
    BY <2>1, <2>2 DEF Die, TypeOK, Steps, noteVars
  <2>4. HoldsJob'
    BY <2>1 DEF Die, HoldsJob, Holding, Executing
  <2>5. QED
    BY <2>3, <2>4
<1>14. CASE Restart
  <2>1. UNCHANGED <<pc, msgOf>>
    BY <1>14 DEF Restart, workVars
  <2>2. TypeOK'
    BY <1>14, <2>1 DEF Restart, TypeOK, workVars, noteVars, histVars
  <2>3. QED
    BY <2>1, <2>2, HoldsJobFrame
<1>15. CASE UNCHANGED vars
  <2>1. UNCHANGED <<pc, msgOf>>
    BY <1>15 DEF vars, workVars
  <2>2. TypeOK'
    BY <1>15, <2>1 DEF vars, TypeOK, queueVars, procVars, workVars, noteVars, histVars
  <2>3. QED
    BY <2>1, <2>2, HoldsJobFrame
<1>16. QED
  BY <1>1, <1>2, <1>3, <1>4, <1>5, <1>6, <1>7, <1>8, <1>9, <1>10, <1>11, <1>12,
     <1>13, <1>14, <1>15 DEF Next, HandlerStep

\* AnalysisConsumer has its types for every value of its constants.
THEOREM TypeCorrect == Spec => []TypeOK
<1>1. TypeInv => TypeOK
  BY DEF TypeInv
<1>2. QED
  BY <1>1, TypeInit, TypeStep, PTL DEF Spec

\* The semaphore counts exactly the running goroutines and bounds them.
THEOREM SemaphoreCorrect == Spec => []SemaphoreCounts
<1>1. TypeInv => SemaphoreCounts
  BY DEF TypeInv
<1>2. QED
  BY <1>1, TypeInit, TypeStep, PTL DEF Spec


(***************************************************************************)
(* The exclusive claim.  It rests on one fact about the status column: no  *)
(* write brings a job back to QUEUED, so a claim that was won is never won *)
(* again, by any goroutine of any process.                                 *)
(***************************************************************************)
ClaimInv ==
  /\ \A j \in Jobs : runs[j] <= 1 /\ (status[j] = "QUEUED" => runs[j] = 0)
  /\ \A h \in Handlers : pc[h] \in Executing => status[JobAt(h)] # "QUEUED"
  /\ \A g, h \in Handlers :
       pc[g] \in Executing /\ pc[h] \in Executing /\ JobAt(g) = JobAt(h) => g = h

\* A step that lets no goroutine into Executing and queues no job keeps ClaimInv.
LEMMA ClaimFrame ==
  ASSUME TypeOK, HoldsJob, ClaimInv, UNCHANGED runs,
         \A h \in Handlers :
           pc'[h] \in Executing => pc[h] \in Executing /\ JobAt(h)' = JobAt(h),
         \A j \in Jobs : status'[j] = "QUEUED" => status[j] = "QUEUED"
  PROVE  ClaimInv'
BY DEF ClaimInv, HoldsJob, Holding

\* Every step keeps the claim exclusive.
LEMMA ClaimStep == TypeInv /\ ClaimInv /\ [Next]_vars => ClaimInv'
<1> SUFFICES ASSUME TypeInv, ClaimInv, [Next]_vars PROVE ClaimInv'
  OBVIOUS
<1> USE DEF TypeInv
<1>1. CASE Poll \/ StopListening \/ Drained \/ SigTerm \/ Restart
           \/ (\E m \in Msgs : Redeliver(m)) \/ UNCHANGED vars
  <2>1. UNCHANGED <<runs, status, pc, msgOf>>
    BY <1>1 DEF Poll, StopListening, Drained, SigTerm, Restart, Redeliver, vars, workVars, histVars
  <2>2. QED
    BY <2>1, ClaimFrame DEF JobAt
<1>2. ASSUME NEW h \in Handlers, NEW m \in Msgs, Spawn(h, m) PROVE ClaimInv'
  BY <1>2, ClaimFrame DEF Spawn, GoTo, TypeOK, JobAt, Executing, histVars
<1>3. ASSUME NEW h \in Handlers, Load(h) \/ Exit(h) PROVE ClaimInv'
  <2>1. UNCHANGED <<runs, status>>
    BY <1>3 DEF Load, Exit, histVars
  <2>2. \A g \in Handlers :
          pc'[g] \in Executing => pc[g] \in Executing /\ JobAt(g)' = JobAt(g)
    BY <1>3 DEF Load, Exit, GoTo, TypeOK, JobAt, Executing, AfterLoadError
  <2>3. QED
    BY <2>1, <2>2, ClaimFrame
<1>4. ASSUME NEW h \in Handlers, Claim(h) PROVE ClaimInv'
  <2>1. UNCHANGED msgOf /\ JobAt(h) \in Jobs
    BY <1>4 DEF Claim, HoldsJob
  <2>2. CASE GoTo(h, "work")
    <3>1. /\ status[JobAt(h)] = "QUEUED"
          /\ status' = [status EXCEPT ![JobAt(h)] = "RUNNING"]
          /\ runs' = [runs EXCEPT ![JobAt(h)] = AtMostTwo(@)]
          /\ pc' = [pc EXCEPT ![h] = "work"]
      BY <1>4, <2>2 DEF Claim, GoTo, MayClaim, TypeOK, AfterLostClaim
    <3>2. runs'[JobAt(h)] = 1 /\ status'[JobAt(h)] = "RUNNING"
      BY <2>1, <3>1 DEF AtMostTwo, ClaimInv, TypeOK
    <3>3. \A j \in Jobs \ {JobAt(h)} : runs'[j] = runs[j] /\ status'[j] = status[j]
      BY <3>1 DEF TypeOK
    <3>4. \A g \in Handlers \ {h} : pc'[g] = pc[g]
      BY <3>1 DEF TypeOK
    <3>5. \A g \in Handlers : JobAt(g)' = JobAt(g)
      BY <2>1 DEF JobAt
    <3>6. \A g \in Handlers : pc[g] \in Executing => JobAt(g) # JobAt(h)
      BY <3>1 DEF ClaimInv
    <3>7. \A g \in Handlers : pc[g] \in Executing => JobAt(g) \in Jobs
      BY DEF HoldsJob, Holding
    <3>8. QED
      BY <2>1, <3>2, <3>3, <3>4, <3>5, <3>6, <3>7 DEF ClaimInv
  <2>3. CASE ~GoTo(h, "work")
    <3>1. UNCHANGED runs /\ \A j \in Jobs : status'[j] = "QUEUED" => status[j] = "QUEUED"
      BY <1>4, <2>3 DEF Claim, TypeOK
    <3>2. \A g \in Handlers : pc'[g] \in Executing => pc[g] \in Executing
      BY <1>4, <2>3 DEF Claim, GoTo, TypeOK, Executing, AfterLostClaim
    <3>3. QED
      BY <2>1, <3>1, <3>2, ClaimFrame DEF JobAt
  <2>4. QED
    BY <2>2, <2>3
<1>5. ASSUME NEW h \in Handlers,
             \/ Work(h) \/ Complete(h) \/ Abandon(h) \/ Delete(h)
             \/ PublishSuccess(h) \/ PublishFailure(h) \/ MarkFailed(h)
      PROVE  ClaimInv'
  <2>1. UNCHANGED <<runs, msgOf>>
    BY <1>5 DEF Work, Complete, Abandon, Delete, PublishSuccess, PublishFailure, MarkFailed, histVars
  <2>2. \A g \in Handlers : pc'[g] \in Executing => pc[g] \in Executing
    BY <1>5 DEF Work, Complete, Abandon, Delete, PublishSuccess, PublishFailure, MarkFailed,
                GoTo, TypeOK, Executing, AfterUnpublished
  <2>3. \A j \in Jobs : status'[j] = "QUEUED" => status[j] = "QUEUED"
    BY <1>5 DEF Work, Complete, Abandon, Delete, PublishSuccess, PublishFailure, MarkFailed,
                SetStatus, Outcome, TypeOK
  <2>4. QED
    BY <2>1, <2>2, <2>3, ClaimFrame DEF JobAt
<1>6. CASE ProcessExit \/ Crash
  BY <1>6, ClaimFrame DEF ProcessExit, Crash, Die, Executing
<1>7. QED
  BY <1>1, <1>2, <1>3, <1>4, <1>5, <1>6 DEF Next, HandlerStep

\* At most one goroutine ever wins a job, and at most one executes it, whatever
\* is redelivered, crashes or is restarted.
THEOREM ClaimExclusiveCorrect == Spec => []ClaimExclusive
<1>1. Init => ClaimInv
  BY DEF Init, ClaimInv, Executing
<1>2. ClaimInv => ClaimExclusive
  BY DEF ClaimInv, ClaimExclusive, Live
<1>3. QED
  BY <1>1, <1>2, TypeInit, TypeStep, ClaimStep, PTL DEF Spec


(***************************************************************************)
(* What a protected job may be told.  A goroutine that owes the job an     *)
(* outcome is alone with it, no success was announced yet (nor a failure,  *)
(* unless its announcement returned an error), and the status column is    *)
(* one that its step allows; once nobody owes the job anything, its column *)
(* and its notifications no longer move.                                   *)
(***************************************************************************)
Owes(h) == pc[h] \in Holding /\ Protected(JobAt(h))

StatusAt(step) ==
  CASE step \in {"work", "complete", "abandon"}        -> {"RUNNING"}
    [] step \in {"delOk", "pubOk"}                     -> {"RUNNING", "ANALYSIS_JOB_COMPLETED"}
    [] step \in {"delFail", "pubFail", "markFailed"}   -> {"RUNNING", "NOTIFICATION_QUEUED"}

FailuresAt(step) == IF step = "markFailed" THEN 0..1 ELSE {0}

OwedInv ==
  /\ \A g, h \in Handlers : Owes(g) /\ Owes(h) /\ JobAt(g) = JobAt(h) => g = h
  /\ \A h \in Handlers : Owes(h) =>
       /\ succ[JobAt(h)] = 0 /\ fail[JobAt(h)] \in FailuresAt(pc[h])
       /\ status[JobAt(h)] \in StatusAt(pc[h])
  /\ \A j \in Jobs : Protected(j) =>
       /\ succ[j] + fail[j] <= 1
       /\ succ[j] = 1 => status[j] \in {"RUNNING", "ANALYSIS_JOB_COMPLETED"}
       /\ fail[j] = 1 => status[j] \in {"RUNNING", "NOTIFICATION_QUEUED", "FAILED"}

\* Only protected jobs' goroutines matter, and they keep their job.
LEMMA OwedFrame ==
  ASSUME TypeOK, HoldsJob, OwedInv, UNCHANGED <<succ, fail>>,
         doubtful \subseteq doubtful',
         \A j \in Jobs : Protected(j)' => status'[j] = status[j],
         \A h \in Handlers :
           pc'[h] \in Holding /\ Protected(JobAt(h))' =>
             /\ pc[h] \in Holding /\ JobAt(h)' = JobAt(h)
             /\ StatusAt(pc[h]) \subseteq StatusAt(pc'[h])
             /\ FailuresAt(pc[h]) \subseteq FailuresAt(pc'[h])
  PROVE  OwedInv'
<1>1. \A h \in Handlers : Owes(h)' => Owes(h) /\ JobAt(h)' = JobAt(h)
  BY DEF Owes, Protected
<1>2. \A h \in Handlers : Owes(h)' =>
        StatusAt(pc[h]) \subseteq StatusAt(pc'[h]) /\ FailuresAt(pc[h]) \subseteq FailuresAt(pc'[h])
  BY DEF Owes
<1>3. \A j \in Jobs : Protected(j)' => Protected(j) /\ status'[j] = status[j]
  BY DEF Protected
<1>4. \A h \in Handlers : Owes(h)' => JobAt(h) \in Jobs /\ status'[JobAt(h)] = status[JobAt(h)]
  BY <1>1, <1>3 DEF Owes, HoldsJob
<1>5. QED
  BY <1>1, <1>2, <1>3, <1>4 DEF OwedInv

\* What a step of h to s leaves its job with, if the job is protected.
MayBecome(h, s) ==
  Protected(JobAt(h)) =>
    /\ s \in Holding =>
         /\ succ'[JobAt(h)] = 0 /\ fail'[JobAt(h)] \in FailuresAt(s)
         /\ status'[JobAt(h)] \in StatusAt(s)
    /\ succ'[JobAt(h)] + fail'[JobAt(h)] <= 1
    /\ succ'[JobAt(h)] = 1 => status'[JobAt(h)] \in {"RUNNING", "ANALYSIS_JOB_COMPLETED"}
    /\ fail'[JobAt(h)] = 1 => status'[JobAt(h)] \in {"RUNNING", "NOTIFICATION_QUEUED", "FAILED"}

\* A goroutine that owes a job may write its status or announce it: the others
\* hold other jobs.
LEMMA OwedMove ==
  ASSUME TypeOK, HoldsJob, OwedInv, NEW h \in Handlers, pc[h] \in Holding,
         NEW s \in Steps, pc' = [pc EXCEPT ![h] = s], UNCHANGED <<msgOf, doubtful>>,
         \A j \in Jobs \ {JobAt(h)} :
           status'[j] = status[j] /\ succ'[j] = succ[j] /\ fail'[j] = fail[j],
         MayBecome(h, s)
  PROVE  OwedInv'
<1>1. \A g \in Handlers : JobAt(g)' = JobAt(g)
  BY DEF JobAt
<1>2. \A g \in Handlers \ {h} : pc'[g] = pc[g] /\ (Owes(g)' <=> Owes(g))
  BY <1>1 DEF TypeOK, Owes, Protected
<1>3. pc'[h] = s /\ (Owes(h)' => Owes(h) /\ s \in Holding)
  BY <1>1 DEF TypeOK, Owes, Protected
<1>4. \A j \in Jobs : Protected(j)' <=> Protected(j)
  BY DEF Protected
<1>5. \A g \in Handlers : Owes(g) => JobAt(g) \in Jobs
  BY DEF Owes, HoldsJob
<1>6. \A g \in Handlers \ {h} : Owes(g) => JobAt(g) # JobAt(h)
  BY DEF OwedInv, Owes
<1>7. ASSUME NEW f \in Handlers, NEW g \in Handlers, Owes(f)', Owes(g)', JobAt(f)' = JobAt(g)'
      PROVE  f = g
  BY <1>1, <1>2, <1>3, <1>7 DEF OwedInv
<1>8. ASSUME NEW g \in Handlers, Owes(g)'
      PROVE  /\ succ'[JobAt(g)'] = 0 /\ fail'[JobAt(g)'] \in FailuresAt(pc'[g])
             /\ status'[JobAt(g)'] \in StatusAt(pc'[g])
  <2>1. CASE g = h
    BY <1>1, <1>3, <1>8, <2>1 DEF Owes, MayBecome
  <2>2. CASE g # h
    <3>1. Owes(g) /\ JobAt(g) \in Jobs \ {JobAt(h)} /\ pc'[g] = pc[g]
      BY <1>2, <1>5, <1>6, <1>8, <2>2
    <3>2. QED
      BY <1>1, <3>1 DEF OwedInv
  <2>3. QED
    BY <2>1, <2>2
<1>9. ASSUME NEW j \in Jobs, Protected(j)'
      PROVE  /\ succ'[j] + fail'[j] <= 1
             /\ succ'[j] = 1 => status'[j] \in {"RUNNING", "ANALYSIS_JOB_COMPLETED"}
             /\ fail'[j] = 1 => status'[j] \in {"RUNNING", "NOTIFICATION_QUEUED", "FAILED"}
  BY <1>4, <1>9 DEF OwedInv, MayBecome
<1>10. QED
  BY <1>7, <1>8, <1>9 DEF OwedInv


\* Every step keeps what protected jobs were told.
LEMMA OwedStep == TypeInv /\ TypeInv' /\ OwedInv /\ [Next]_vars => OwedInv'
<1> SUFFICES ASSUME TypeInv, TypeInv', OwedInv, [Next]_vars PROVE OwedInv'
  OBVIOUS
<1> USE DEF TypeInv
<1>1. CASE Poll \/ StopListening \/ Drained \/ SigTerm \/ Restart
           \/ (\E m \in Msgs : Redeliver(m)) \/ UNCHANGED vars
  <2>1. UNCHANGED <<status, succ, fail, doubtful, pc, msgOf>>
    BY <1>1 DEF Poll, StopListening, Drained, SigTerm, Restart, Redeliver, vars, workVars,
                noteVars, histVars
  <2>2. QED
    BY <2>1, OwedFrame DEF JobAt
<1>2. ASSUME NEW h \in Handlers, NEW m \in Msgs, Spawn(h, m) PROVE OwedInv'
  <2>1. UNCHANGED <<status, succ, fail, doubtful>>
    BY <1>2 DEF Spawn, noteVars, histVars
  <2>2. \A g \in Handlers : pc'[g] \in Holding =>
          pc'[g] = pc[g] /\ pc[g] \in Holding /\ JobAt(g)' = JobAt(g)
    BY <1>2 DEF Spawn, GoTo, TypeOK, JobAt, Holding, Executing
  <2>3. QED
    BY <2>1, <2>2, OwedFrame
<1>3. ASSUME NEW h \in Handlers, Load(h) PROVE OwedInv'
  <2>1. UNCHANGED <<status, succ, fail, doubtful, msgOf>>
    BY <1>3 DEF Load, noteVars, histVars
  <2>2. PICK s \in {"exit", "discard", "claim", "delFail"} :
          /\ pc' = [pc EXCEPT ![h] = s]
          /\ s = "delFail" => JobAt(h) \notin Valid
    BY <1>3 DEF Load, GoTo, AfterLoadError
  <2>3. \A g \in Handlers : JobAt(g)' = JobAt(g) /\ (g # h => pc'[g] = pc[g])
    BY <2>1, <2>2 DEF JobAt, TypeOK
  <2>4. pc'[h] \in Holding => ~Protected(JobAt(h))'
    BY <2>1, <2>2, <2>3 DEF TypeOK, Holding, Executing, Protected
  <2>5. QED
    BY <2>1, <2>3, <2>4, OwedFrame
<1>4. ASSUME NEW h \in Handlers, Claim(h) PROVE OwedInv'
  <2>1. UNCHANGED <<msgOf, succ, fail>> /\ JobAt(h) \in Jobs /\ pc[h] \notin Holding
    BY <1>4 DEF Claim, HoldsJob, noteVars, Holding, Executing
  <2>2. CASE GoTo(h, "delFail")
    <3>1. /\ doubtful' = doubtful \cup {JobAt(h)}
          /\ \A j \in Jobs \ {JobAt(h)} : status'[j] = status[j]
      BY <1>4, <2>2 DEF Claim, GoTo, TypeOK, AfterLostClaim
    <3>2. \A g \in Handlers : pc'[g] \in Holding /\ Protected(JobAt(g))' =>
            pc'[g] = pc[g] /\ pc[g] \in Holding /\ JobAt(g)' = JobAt(g)
      BY <2>1, <2>2, <3>1 DEF GoTo, TypeOK, JobAt, Protected
    <3>3. \A j \in Jobs : Protected(j)' => status'[j] = status[j]
      BY <3>1 DEF Protected
    <3>4. QED
      BY <2>1, <3>1, <3>2, <3>3, OwedFrame
  <2>3. CASE GoTo(h, "discard")
    <3>1. UNCHANGED <<status, doubtful>>
      BY <1>4, <2>3 DEF Claim, GoTo, TypeOK, AfterLostClaim
    <3>2. \A g \in Handlers : pc'[g] \in Holding =>
            pc'[g] = pc[g] /\ pc[g] \in Holding /\ JobAt(g)' = JobAt(g)
      BY <2>1, <2>3 DEF GoTo, TypeOK, JobAt, Holding, Executing
    <3>3. QED
      BY <2>1, <3>1, <3>2, OwedFrame
  <2>4. CASE GoTo(h, "work")
    <3>1. /\ status[JobAt(h)] = "QUEUED"
          /\ status' = [status EXCEPT ![JobAt(h)] = "RUNNING"]
          /\ pc' = [pc EXCEPT ![h] = "work"]
          /\ UNCHANGED doubtful
      BY <1>4, <2>4 DEF Claim, GoTo, MayClaim, TypeOK, AfterLostClaim
    <3>2. \A g \in Handlers : JobAt(g)' = JobAt(g) /\ (g # h => pc'[g] = pc[g])
      BY <2>1, <3>1 DEF JobAt, TypeOK
    <3>3. Protected(JobAt(h)) => succ[JobAt(h)] = 0 /\ fail[JobAt(h)] = 0
      BY <2>1, <3>1 DEF OwedInv, TypeOK
    <3>4. \A g \in Handlers : Owes(g) => JobAt(g) # JobAt(h)
      BY <3>1 DEF OwedInv, Owes, StatusAt, Holding, Executing
    <3>5. \A g \in Handlers : Owes(g) => JobAt(g) \in Jobs
      BY DEF Owes, HoldsJob
    <3>6. pc'[h] = "work" /\ status'[JobAt(h)] = "RUNNING"
          /\ \A j \in Jobs \ {JobAt(h)} : status'[j] = status[j]
      BY <2>1, <3>1 DEF TypeOK
    <3>7. \A g \in Handlers \ {h} : Owes(g)' <=> Owes(g)
      BY <3>1, <3>2 DEF Owes, Protected
    <3>8. Owes(h)' => Protected(JobAt(h))
      BY <3>1, <3>2 DEF Owes, Protected
    <3>9. \A f, g \in Handlers : Owes(f)' /\ Owes(g)' /\ JobAt(f)' = JobAt(g)' => f = g
      BY <3>2, <3>4, <3>7 DEF OwedInv
    <3>10. ASSUME NEW g \in Handlers, Owes(g)'
           PROVE  /\ succ'[JobAt(g)'] = 0 /\ fail'[JobAt(g)'] \in FailuresAt(pc'[g])
                  /\ status'[JobAt(g)'] \in StatusAt(pc'[g])
      <4>1. CASE g = h
        BY <2>1, <3>2, <3>3, <3>6, <3>8, <3>10, <4>1 DEF StatusAt, FailuresAt
      <4>2. CASE g # h
        <5>1. Owes(g) /\ JobAt(g) \in Jobs \ {JobAt(h)} /\ pc'[g] = pc[g]
          BY <3>2, <3>4, <3>5, <3>7, <3>10, <4>2
        <5>2. QED
          BY <2>1, <3>2, <3>6, <5>1 DEF OwedInv
      <4>3. QED
        BY <4>1, <4>2
    <3>11. ASSUME NEW j \in Jobs, Protected(j)'
           PROVE  /\ succ'[j] + fail'[j] <= 1
                  /\ succ'[j] = 1 => status'[j] \in {"RUNNING", "ANALYSIS_JOB_COMPLETED"}
                  /\ fail'[j] = 1 => status'[j] \in {"RUNNING", "NOTIFICATION_QUEUED", "FAILED"}
      BY <2>1, <3>1, <3>6, <3>11 DEF OwedInv, Protected
    <3>12. QED
      BY <3>9, <3>10, <3>11 DEF OwedInv
  <2>5. QED
    BY <1>4, <2>2, <2>3, <2>4 DEF Claim, AfterLostClaim
<1>5. ASSUME NEW h \in Handlers, Work(h) PROVE OwedInv'
  <2>1. UNCHANGED <<status, succ, fail, doubtful, msgOf>>
    BY <1>5 DEF Work, noteVars, histVars
  <2>2. \A g \in Handlers : pc'[g] \in Holding =>
          /\ pc[g] \in Holding /\ JobAt(g)' = JobAt(g)
          /\ StatusAt(pc[g]) = StatusAt(pc'[g]) /\ FailuresAt(pc[g]) = FailuresAt(pc'[g])
    BY <1>5, <2>1 DEF Work, GoTo, TypeOK, JobAt, Holding, Executing, StatusAt, FailuresAt
  <2>3. QED
    BY <2>1, <2>2, OwedFrame
<1>6. ASSUME NEW h \in Handlers, Complete(h) PROVE OwedInv'
  <2>1. /\ pc[h] = "complete" /\ pc' = [pc EXCEPT ![h] = "delOk"]
        /\ UNCHANGED <<succ, fail, doubtful, msgOf>>
        /\ status' \in {status, [status EXCEPT ![JobAt(h)] = "ANALYSIS_JOB_COMPLETED"]}
    BY <1>6 DEF Complete, GoTo, SetStatus, Outcome, noteVars, histVars
  <2>2. Protected(JobAt(h)) => Owes(h)
    BY <2>1 DEF Owes, Holding, Executing
  <2>3. Protected(JobAt(h)) =>
          /\ succ[JobAt(h)] = 0 /\ fail[JobAt(h)] = 0
          /\ status'[JobAt(h)] \in StatusAt("delOk")
    BY <2>1, <2>2 DEF OwedInv, TypeOK, StatusAt, FailuresAt, HoldsJob, Holding, Executing
  <2>4. \A j \in Jobs \ {JobAt(h)} : status'[j] = status[j]
    BY <2>1 DEF TypeOK
  <2>5. "delOk" \in Steps /\ pc[h] \in Holding
    BY <2>1 DEF Steps, Holding, Executing
  <2>6. MayBecome(h, "delOk")
    BY <2>1, <2>3 DEF MayBecome, StatusAt, FailuresAt
  <2>7. QED
    BY <2>1, <2>4, <2>5, <2>6, OwedMove
<1>7. ASSUME NEW h \in Handlers, Abandon(h) PROVE OwedInv'
  <2>1. /\ pc[h] = "abandon" /\ pc' = [pc EXCEPT ![h] = "delFail"]
        /\ UNCHANGED <<succ, fail, doubtful, msgOf>>
        /\ status' \in {status, [status EXCEPT ![JobAt(h)] = "NOTIFICATION_QUEUED"]}
    BY <1>7 DEF Abandon, GoTo, SetStatus, Outcome, noteVars, histVars
  <2>2. Protected(JobAt(h)) => Owes(h)
    BY <2>1 DEF Owes, Holding, Executing
  <2>3. Protected(JobAt(h)) =>
          /\ succ[JobAt(h)] = 0 /\ fail[JobAt(h)] = 0
          /\ status'[JobAt(h)] \in StatusAt("delFail")
    BY <2>1, <2>2 DEF OwedInv, TypeOK, StatusAt, FailuresAt, HoldsJob, Holding, Executing
  <2>4. \A j \in Jobs \ {JobAt(h)} : status'[j] = status[j]
    BY <2>1 DEF TypeOK
  <2>5. "delFail" \in Steps /\ pc[h] \in Holding
    BY <2>1 DEF Steps, Holding, Executing
  <2>6. MayBecome(h, "delFail")
    BY <2>1, <2>3 DEF MayBecome, StatusAt, FailuresAt
  <2>7. QED
    BY <2>1, <2>4, <2>5, <2>6, OwedMove
<1>8. ASSUME NEW h \in Handlers, Delete(h) PROVE OwedInv'
  <2>1. UNCHANGED <<status, succ, fail, doubtful, msgOf>>
    BY <1>8 DEF Delete, noteVars, histVars
  <2>2. \A g \in Handlers : pc'[g] \in Holding =>
          /\ pc[g] \in Holding /\ JobAt(g)' = JobAt(g)
          /\ StatusAt(pc[g]) = StatusAt(pc'[g]) /\ FailuresAt(pc[g]) = FailuresAt(pc'[g])
    BY <1>8, <2>1 DEF Delete, GoTo, TypeOK, JobAt, Holding, Executing, StatusAt, FailuresAt
  <2>3. QED
    BY <2>1, <2>2, OwedFrame
<1>9. ASSUME NEW h \in Handlers, PublishSuccess(h) PROVE OwedInv'
  <2>1. /\ pc[h] = "pubOk" /\ pc' = [pc EXCEPT ![h] = "exit"]
        /\ UNCHANGED <<status, fail, doubtful, msgOf>>
        /\ succ' \in {succ, [succ EXCEPT ![JobAt(h)] = AtMostTwo(@)]}
    BY <1>9 DEF PublishSuccess, GoTo, Outcome, histVars
  <2>2. Protected(JobAt(h)) => Owes(h)
    BY <2>1 DEF Owes, Holding, Executing
  <2>3. Protected(JobAt(h)) =>
          /\ succ'[JobAt(h)] \in {0, 1} /\ fail[JobAt(h)] = 0
          /\ status[JobAt(h)] \in {"RUNNING", "ANALYSIS_JOB_COMPLETED"}
    BY <2>1, <2>2 DEF OwedInv, TypeOK, StatusAt, FailuresAt, HoldsJob, Holding, Executing, AtMostTwo
  <2>4. \A j \in Jobs \ {JobAt(h)} : succ'[j] = succ[j]
    BY <2>1 DEF TypeOK
  <2>5. "exit" \in Steps \ Holding /\ pc[h] \in Holding
    BY <2>1 DEF Steps, Holding, Executing
  <2>6. MayBecome(h, "exit")
    BY <2>1, <2>3, <2>5 DEF MayBecome
  <2>7. QED
    BY <2>1, <2>4, <2>5, <2>6, OwedMove
<1>10. ASSUME NEW h \in Handlers, PublishFailure(h) PROVE OwedInv'
  <2>1. PICK s \in {"exit", "markFailed"} :
          /\ pc[h] = "pubFail" /\ pc' = [pc EXCEPT ![h] = s]
          /\ UNCHANGED <<status, succ, doubtful, msgOf>>
          /\ fail' \in {fail, [fail EXCEPT ![JobAt(h)] = AtMostTwo(@)]}
    BY <1>10 DEF PublishFailure, GoTo, Outcome, histVars, AfterUnpublished
  <2>2. Protected(JobAt(h)) => Owes(h)
    BY <2>1 DEF Owes, Holding
  <2>3. Protected(JobAt(h)) =>
          /\ fail[JobAt(h)] = 0 /\ fail'[JobAt(h)] \in {0, 1} /\ succ[JobAt(h)] = 0
          /\ status[JobAt(h)] \in {"RUNNING", "NOTIFICATION_QUEUED"}
    BY <2>1, <2>2 DEF OwedInv, TypeOK, StatusAt, FailuresAt, HoldsJob, Holding, AtMostTwo
  <2>4. \A j \in Jobs \ {JobAt(h)} : fail'[j] = fail[j]
    BY <2>1 DEF TypeOK
  <2>5. s \in Steps /\ pc[h] \in Holding /\ (s \in Holding => s = "markFailed")
    BY <2>1 DEF Steps, Holding, Executing
  <2>6. StatusAt("markFailed") = {"RUNNING", "NOTIFICATION_QUEUED"} /\ FailuresAt("markFailed") = 0..1
    BY DEF StatusAt, FailuresAt
  <2>7. MayBecome(h, s)
    BY <2>1, <2>3, <2>5, <2>6 DEF MayBecome
  <2>8. QED
    BY <2>1, <2>4, <2>5, <2>7, OwedMove
<1>11. ASSUME NEW h \in Handlers, MarkFailed(h) PROVE OwedInv'
  <2>1. /\ pc[h] = "markFailed" /\ pc' = [pc EXCEPT ![h] = "exit"]
        /\ UNCHANGED <<succ, fail, doubtful, msgOf>>
        /\ status' \in {status, [status EXCEPT ![JobAt(h)] = "FAILED"]}
    BY <1>11 DEF MarkFailed, GoTo, SetStatus, Outcome, noteVars, histVars
  <2>2. Protected(JobAt(h)) => Owes(h)
    BY <2>1 DEF Owes, Holding
  <2>3. Protected(JobAt(h)) =>
          /\ succ[JobAt(h)] = 0 /\ fail[JobAt(h)] \in 0..1
          /\ status'[JobAt(h)] \in {"RUNNING", "NOTIFICATION_QUEUED", "FAILED"}
    BY <2>1, <2>2 DEF OwedInv, TypeOK, StatusAt, FailuresAt, HoldsJob, Holding
  <2>4. \A j \in Jobs \ {JobAt(h)} : status'[j] = status[j]
    BY <2>1 DEF TypeOK
  <2>5. "exit" \in Steps \ Holding /\ pc[h] \in Holding
    BY <2>1 DEF Steps, Holding, Executing
  <2>6. MayBecome(h, "exit")
    BY <2>1, <2>3, <2>5 DEF MayBecome
  <2>7. QED
    BY <2>1, <2>4, <2>5, <2>6, OwedMove
<1>12. ASSUME NEW h \in Handlers, Exit(h) PROVE OwedInv'
  <2>1. UNCHANGED <<status, succ, fail, doubtful>>
    BY <1>12 DEF Exit, noteVars, histVars
  <2>2. \A g \in Handlers : pc'[g] \in Holding =>
          pc'[g] = pc[g] /\ pc[g] \in Holding /\ JobAt(g)' = JobAt(g)
    BY <1>12 DEF Exit, GoTo, TypeOK, JobAt, Holding, Executing
  <2>3. QED
    BY <2>1, <2>2, OwedFrame
<1>13. CASE ProcessExit \/ Crash
  <2>1. UNCHANGED <<status, succ, fail, doubtful>> /\ \A h \in Handlers : pc'[h] \notin Holding
    BY <1>13 DEF ProcessExit, Crash, Die, noteVars, Holding, Executing
  <2>2. QED
    BY <2>1, OwedFrame
<1>14. QED
  BY <1>1, <1>2, <1>3, <1>4, <1>5, <1>6, <1>7, <1>8, <1>9, <1>10, <1>11, <1>12, <1>13
  DEF Next, HandlerStep

\* Initially nobody owes a job anything and nothing was announced.
LEMMA OwedInit == Init => OwedInv
BY DEF Init, OwedInv, Owes, Holding, Executing

\* A job whose claim query never failed is announced at most once.
THEOREM AnnouncedOnceCorrect == Spec => []AnnouncedOnce
<1>1. OwedInv => AnnouncedOnce
  BY DEF OwedInv, AnnouncedOnce
<1>2. QED
  BY <1>1, TypeInit, TypeStep, OwedInit, OwedStep, PTL DEF Spec

\* Its status column and its notification never contradict each other.
THEOREM StatusAgreesCorrect == Spec => []StatusAgrees
<1>1. TypeOK /\ OwedInv => StatusAgrees
  BY DEF TypeOK, OwedInv, StatusAgrees
<1>2. TypeInv => TypeOK
  BY DEF TypeInv
<1>3. QED
  BY <1>1, <1>2, TypeInit, TypeStep, OwedInit, OwedStep, PTL DEF Spec

-----------------------------------------------------------------------------
(***************************************************************************)
(* What becomes of a job and its message: the message of a job nobody took *)
(* is kept, a job that was taken is not forgotten, nothing runs once the   *)
(* listener stopped, and AnalysisConsumer implements JobLifecycle.         *)
(***************************************************************************)
\* What every step does to the columns the proofs below look at: no status goes
\* back to QUEUED, no doubt is forgotten, and the failures never get fewer.
LEMMA NextOnwards ==
  ASSUME TypeInv, [Next]_vars
  PROVE  /\ \A j \in Jobs : status'[j] = "QUEUED" => status[j] = "QUEUED"
         /\ doubtful \subseteq doubtful'
         /\ faults' \in Nat /\ stops' \in Nat /\ faults' >= faults /\ stops' >= stops
<1> USE DEF TypeInv
<1>1. CASE Poll \/ StopListening \/ Drained \/ Restart \/ (\E m \in Msgs : Redeliver(m))
           \/ (\E h \in Handlers, m \in Msgs : Spawn(h, m)) \/ UNCHANGED vars
  <2>1. UNCHANGED <<status, doubtful, faults, stops>>
    BY <1>1 DEF Poll, StopListening, Drained, Restart, Redeliver, Spawn, vars, procVars, histVars
  <2>2. QED
    BY <2>1 DEF TypeOK
<1>2. CASE SigTerm \/ ProcessExit \/ Crash
  <2>1. UNCHANGED <<status, doubtful, faults>> /\ stops' \in {stops, stops + 1}
    BY <1>2 DEF SigTerm, ProcessExit, Crash, Die, histVars
  <2>2. QED
    BY <2>1 DEF TypeOK
<1>3. ASSUME NEW h \in Handlers, HandlerStep(h)
      PROVE  /\ \A j \in Jobs : status'[j] = "QUEUED" => status[j] = "QUEUED"
             /\ doubtful \subseteq doubtful'
             /\ faults' \in {faults, faults + 1} /\ stops' = stops
  <2>1. CASE Load(h) \/ Work(h) \/ Delete(h) \/ PublishSuccess(h) \/ PublishFailure(h) \/ Exit(h)
    BY <2>1 DEF Load, Work, Delete, PublishSuccess, PublishFailure, Exit, DbCall, AwsCall,
                procVars, histVars
  <2>2. CASE Complete(h) \/ Abandon(h) \/ MarkFailed(h)
    BY <2>2 DEF Complete, Abandon, MarkFailed, SetStatus, Outcome, DbCall, TypeOK,
                procVars, histVars
  <2>3. CASE Claim(h)
    BY <2>3 DEF Claim, DbCall, TypeOK, procVars
  <2>4. QED
    BY <1>3, <2>1, <2>2, <2>3 DEF HandlerStep
<1>4. QED
  BY <1>1, <1>2, <1>3 DEF Next, TypeOK

-----------------------------------------------------------------------------
(***************************************************************************)
(* After wg.Wait.  Only a listener that spawns has received messages; a    *)
(* stopped one has seen every goroutine end, and none can start.           *)
(***************************************************************************)
QuietInv ==
  /\ listener # "spawn" => batch = {}
  /\ listener = "stopped" => Live = {}
  /\ proc = "down" => listener = "off"

\* Every step keeps a stopped listener quiet.
LEMMA QuietStep == TypeInv /\ QuietInv /\ [Next]_vars => QuietInv'
<1> SUFFICES ASSUME TypeInv, QuietInv, [Next]_vars PROVE QuietInv'
  OBVIOUS
<1> USE DEF QuietInv
<1>1. CASE Poll
  BY <1>1 DEF Poll, procVars
<1>2. CASE StopListening \/ Drained
  BY <1>2 DEF StopListening, Drained, WgDone, Live, procVars, workVars
<1>3. ASSUME NEW h \in Handlers, NEW m \in Msgs, Spawn(h, m) PROVE QuietInv'
  BY <1>3 DEF Spawn, procVars
<1>4. ASSUME NEW h \in Handlers, HandlerStep(h) PROVE QuietInv'
  <2>1. UNCHANGED <<listener, batch, proc>>
    BY <1>4 DEF HandlerStep, Load, Claim, Work, Complete, Abandon, Delete, PublishSuccess,
                PublishFailure, MarkFailed, Exit, queueVars, procVars
  <2>2. pc[h] # "idle"
    BY <1>4 DEF HandlerStep, Load, Claim, Work, Complete, Abandon, Delete, PublishSuccess,
                PublishFailure, MarkFailed, Exit
  <2>3. listener # "stopped"
    BY <2>2 DEF Live
  <2>4. QED
    BY <2>1, <2>3
<1>5. CASE (\E m \in Msgs : Redeliver(m)) \/ SigTerm \/ UNCHANGED vars
  <2>1. UNCHANGED <<listener, batch, pc>> /\ (proc' = "down" => proc = "down")
    BY <1>5 DEF Redeliver, SigTerm, vars, queueVars, procVars, workVars
  <2>2. QED
    BY <2>1 DEF Live
<1>6. CASE ProcessExit \/ Crash
  BY <1>6 DEF ProcessExit, Crash, Die
<1>7. CASE Restart
  BY <1>7 DEF Restart
<1>8. QED
  BY <1>1, <1>2, <1>3, <1>4, <1>5, <1>6, <1>7 DEF Next

\* Once wg.Wait returned, no goroutine and no received message remain, in any
\* order of polls, spawns and signals.
THEOREM StoppedIsQuietCorrect == Spec => []StoppedIsQuiet
<1>1. Init => QuietInv
  BY DEF Init, QuietInv
<1>2. QuietInv => StoppedIsQuiet
  BY DEF QuietInv, StoppedIsQuiet
<1>3. QED
  BY <1>1, <1>2, TypeInit, TypeStep, QuietStep, PTL DEF Spec

-----------------------------------------------------------------------------
(***************************************************************************)
(* The message of a job nobody took.  A goroutine about to delete its      *)
(* message silently has lost the claim, or has no job to keep it for.      *)
(***************************************************************************)
KeepInv ==
  /\ UnclaimedKeepsMessage
  /\ \A h \in Handlers :
       pc[h] = "discard" /\ Protected(JobAt(h)) => status[JobAt(h)] # "QUEUED"

\* A step that deletes nothing and brings nobody new to "discard" is harmless.
LEMMA KeepFrame ==
  ASSUME TypeInv, KeepInv, [Next]_vars,
         \A m \in Msgs : queue'[m] = "deleted" => queue[m] = "deleted",
         \A h \in Handlers :
           pc'[h] = "discard" /\ Protected(JobAt(h))' => pc[h] = "discard" /\ JobAt(h)' = JobAt(h)
  PROVE  KeepInv'
<1>1. \A j \in Jobs : Protected(j)' => Protected(j) /\ (status'[j] = "QUEUED" => status[j] = "QUEUED")
  BY NextOnwards DEF Protected
<1>2. \A j : Protected(j)' => j \in Jobs
  BY ConsumerAssumption DEF Protected
<1>3. UnclaimedKeepsMessage'
  BY <1>1, <1>2 DEF KeepInv, UnclaimedKeepsMessage
<1>4. QED
  BY <1>1, <1>2, <1>3 DEF KeepInv

\* Every step keeps the messages of jobs that are still to be taken.
LEMMA KeepStep == TypeInv /\ OwedInv /\ KeepInv /\ [Next]_vars => KeepInv'
<1> SUFFICES ASSUME TypeInv, OwedInv, KeepInv, [Next]_vars PROVE KeepInv'
  OBVIOUS
<1>1. CASE Poll \/ StopListening \/ Drained \/ SigTerm \/ Restart
           \/ (\E m \in Msgs : Redeliver(m)) \/ UNCHANGED vars
  <2>1. UNCHANGED <<pc, msgOf>>
    BY <1>1 DEF Poll, StopListening, Drained, SigTerm, Restart, Redeliver, vars, workVars
  <2>2. \A m \in Msgs : queue'[m] = "deleted" => queue[m] = "deleted"
    BY <1>1 DEF Poll, StopListening, Drained, SigTerm, Restart, Redeliver, vars, queueVars,
                TypeInv, TypeOK
  <2>3. QED
    BY <2>1, <2>2, KeepFrame DEF JobAt
<1>2. ASSUME NEW h \in Handlers, NEW m \in Msgs, Spawn(h, m) PROVE KeepInv'
  <2>1. \A g \in Handlers : pc'[g] = "discard" => pc[g] = "discard" /\ JobAt(g)' = JobAt(g)
    BY <1>2 DEF Spawn, GoTo, TypeInv, TypeOK, JobAt
  <2>2. QED
    BY <1>2, <2>1, KeepFrame DEF Spawn
<1>3. ASSUME NEW h \in Handlers, Load(h) PROVE KeepInv'
  <2>1. PICK s \in Steps :
          pc' = [pc EXCEPT ![h] = s] /\ (s = "discard" => JobAt(h) \notin Valid)
    BY <1>3, ConsumerAssumption DEF Load, GoTo, Parsed, AfterLoadError, Steps
  <2>2. \A g \in Handlers : JobAt(g)' = JobAt(g) /\ (g # h => pc'[g] = pc[g])
    BY <1>3, <2>1 DEF Load, JobAt, TypeInv, TypeOK
  <2>3. pc'[h] = "discard" => ~Protected(JobAt(h))'
    BY <2>1, <2>2 DEF TypeInv, TypeOK, Protected
  <2>4. QED
    BY <1>3, <2>2, <2>3, KeepFrame DEF Load, queueVars
<1>4. ASSUME NEW h \in Handlers, Claim(h) PROVE KeepInv'
  <2>1. UNCHANGED <<queue, msgOf>>
    BY <1>4 DEF Claim, queueVars
  <2>2. \A g \in Handlers : JobAt(g)' = JobAt(g) /\ (g # h => pc'[g] = pc[g])
    BY <1>4, <2>1 DEF Claim, GoTo, JobAt, TypeInv, TypeOK
  <2>3. CASE GoTo(h, "discard")
    <3>1. status[JobAt(h)] # "QUEUED" /\ UNCHANGED <<status, doubtful>>
      BY <1>4, <2>3 DEF Claim, GoTo, MayClaim, AfterLostClaim, TypeInv, TypeOK
    <3>2. QED
      BY <2>1, <2>2, <3>1 DEF KeepInv, UnclaimedKeepsMessage, Protected
  <2>4. CASE ~GoTo(h, "discard")
    <3>1. pc'[h] # "discard"
      BY <1>4, <2>4 DEF Claim, GoTo, AfterLostClaim, TypeInv, TypeOK
    <3>2. QED
      BY <2>1, <2>2, <3>1, KeepFrame
  <2>5. QED
    BY <2>3, <2>4
<1>5. ASSUME NEW h \in Handlers, Delete(h) PROVE KeepInv'
  <2>1. /\ UNCHANGED <<status, doubtful, msgOf>>
        /\ queue' \in {queue, [queue EXCEPT ![msgOf[h]] = "deleted"]}
        /\ pc[h] \in {"discard"} \cup Holding
    BY <1>5 DEF Delete, Outcome, histVars, Holding, Executing
  <2>2. Protected(JobAt(h)) => status[JobAt(h)] # "QUEUED"
    BY <2>1 DEF KeepInv, OwedInv, Owes, StatusAt, Holding, Executing
  <2>3. \A m \in Msgs : queue'[m] = "deleted" => queue[m] = "deleted" \/ m = msgOf[h]
    BY <2>1 DEF TypeInv, TypeOK
  <2>4. \A g \in Handlers : pc'[g] = "discard" => pc[g] = "discard"
    BY <1>5 DEF Delete, GoTo, TypeInv, TypeOK
  <2>5. QED
    BY <2>1, <2>2, <2>3, <2>4 DEF KeepInv, UnclaimedKeepsMessage, Protected, JobAt
<1>6. ASSUME NEW h \in Handlers,
             \/ Work(h) \/ Complete(h) \/ Abandon(h)
             \/ PublishSuccess(h) \/ PublishFailure(h) \/ MarkFailed(h)
      PROVE  KeepInv'
  <2>1. UNCHANGED <<queue, msgOf>>
    BY <1>6 DEF Work, Complete, Abandon, PublishSuccess, PublishFailure, MarkFailed, queueVars
  <2>2. \A g \in Handlers : pc'[g] = "discard" => pc[g] = "discard"
    BY <1>6 DEF Work, Complete, Abandon, PublishSuccess, PublishFailure, MarkFailed, GoTo,
                AfterUnpublished, TypeInv, TypeOK
  <2>3. QED
    BY <2>1, <2>2, KeepFrame DEF JobAt
<1>7. ASSUME NEW h \in Handlers, Exit(h) PROVE KeepInv'
  <2>1. \A g \in Handlers : pc'[g] = "discard" => pc[g] = "discard" /\ JobAt(g)' = JobAt(g)
    BY <1>7 DEF Exit, GoTo, TypeInv, TypeOK, JobAt
  <2>2. QED
    BY <1>7, <2>1, KeepFrame DEF Exit, queueVars
<1>8. CASE ProcessExit \/ Crash
  BY <1>8, KeepFrame DEF ProcessExit, Crash, Die
<1>9. QED
  BY <1>1, <1>2, <1>3, <1>4, <1>5, <1>6, <1>7, <1>8 DEF Next, HandlerStep

\* No failing call, redelivery or restart costs a job its message before the
\* job was taken.
THEOREM UnclaimedKeepsMessageCorrect == Spec => []UnclaimedKeepsMessage
<1>1. Init => KeepInv
  BY DEF Init, KeepInv, UnclaimedKeepsMessage
<1>2. KeepInv => UnclaimedKeepsMessage
  BY DEF KeepInv
<1>3. QED
  BY <1>1, <1>2, TypeInit, TypeStep, OwedInit, OwedStep, KeepStep, PTL DEF Spec
-----------------------------------------------------------------------------
(***************************************************************************)
(* A job that was taken.  A goroutine that announces a success has either  *)
(* written ANALYSIS_JOB_COMPLETED or met a failure, one that falls back to *)
(* FAILED has met a failure or a signal: the last call of each can only    *)
(* lose the job as the second trouble.                                     *)
(***************************************************************************)
Trouble(n) == faults + stops >= n
Failed == faults >= 1

RememberInv ==
  /\ doubtful # {} => Failed
  /\ proc = "cancelled" => stops >= 1
  /\ \A h \in Handlers :
       /\ pc[h] \in {"delOk", "pubOk"} =>
            status[JobAt(h)] = "ANALYSIS_JOB_COMPLETED" \/ Failed
       /\ pc[h] = "markFailed" => Trouble(1)
  /\ ClaimedNotForgotten

\* Sums of larger numbers are larger.
LEMMA Adding ==
  \A a, b, c, d \in Nat :
    c >= a /\ d >= b =>
      (a >= 1 => c >= 1) /\ (a + b >= 1 => c + d >= 1) /\ (a + b >= 2 => c + d >= 2)
OBVIOUS

\* Troubles only add up.
LEMMA TroubleStays ==
  ASSUME TypeInv, [Next]_vars
  PROVE  (Failed => Failed') /\ (Trouble(1) => Trouble(1)') /\ (Trouble(2) => Trouble(2)')
<1>1. /\ faults \in Nat /\ stops \in Nat /\ faults' \in Nat /\ stops' \in Nat
      /\ faults' >= faults /\ stops' >= stops
  BY NextOnwards DEF TypeInv, TypeOK
<1>2. QED
  BY <1>1, Adding DEF Failed, Trouble

\* ClaimedNotForgotten, in the words of the proof.
LEMMA NotForgotten ==
  ClaimedNotForgotten <=>
    \A j \in Valid : status[j] # "QUEUED" =>
      InProgress(j) \/ Settled(j) \/ j \in interrupted \/ Trouble(2)
BY DEF ClaimedNotForgotten, Trouble

\* Steps that write and announce nothing and lose no goroutine that owes a job.
LEMMA RememberFrame ==
  ASSUME TypeInv, RememberInv, [Next]_vars, UNCHANGED <<status, succ, fail, doubtful, interrupted>>,
         proc' = "cancelled" => stops' >= 1,
         \A h \in Handlers : pc[h] \in Holding => pc'[h] \in Holding /\ JobAt(h)' = JobAt(h),
         \A h \in Handlers :
           /\ pc'[h] \in {"delOk", "pubOk"} => pc[h] \in {"delOk", "pubOk"}
           /\ pc'[h] = "markFailed" => pc[h] = "markFailed"
  PROVE  RememberInv'
<1>1. (Failed => Failed') /\ (Trouble(1) => Trouble(1)') /\ (Trouble(2) => Trouble(2)')
  BY TroubleStays
<1>2. \A h \in Handlers : pc'[h] \in {"delOk", "pubOk"} => JobAt(h)' = JobAt(h)
  BY DEF Holding, Executing
<1>3. \A j \in Valid : InProgress(j) => InProgress(j)'
  BY DEF InProgress, Live, Holding, Executing
<1>4. \A j \in Valid : Settled(j)' <=> Settled(j)
  BY DEF Settled
<1>5. ClaimedNotForgotten'
  <2>1. \A j \in Valid : status[j] # "QUEUED" =>
          InProgress(j) \/ Settled(j) \/ j \in interrupted \/ Trouble(2)
    BY NotForgotten DEF RememberInv
  <2>2. \A j \in Valid : status'[j] # "QUEUED" =>
          InProgress(j)' \/ Settled(j)' \/ j \in interrupted' \/ Trouble(2)'
    BY <1>1, <1>3, <1>4, <2>1
  <2>3. QED
    BY <2>2 DEF ClaimedNotForgotten, Trouble
<1>6. QED
  BY <1>1, <1>2, <1>5 DEF RememberInv

\* Steps of one goroutine that may write or announce its own job.
LEMMA RememberMove ==
  ASSUME TypeInv, RememberInv, [Next]_vars, NEW h \in Handlers, NEW s \in Steps \ {"idle"},
         pc[h] # "idle", pc' = [pc EXCEPT ![h] = s], UNCHANGED <<msgOf, interrupted, proc>>,
         \A j \in Jobs \ {JobAt(h)} :
           status'[j] = status[j] /\ succ'[j] = succ[j] /\ fail'[j] = fail[j],
         doubtful' # {} => Failed',
         s \in Holding \/ Settled(JobAt(h))' \/ Trouble(2)',
         s \in {"delOk", "pubOk"} =>
           status'[JobAt(h)] = "ANALYSIS_JOB_COMPLETED" \/ Failed',
         s = "markFailed" => Trouble(1)',
         \A g \in Handlers \ {h} :
           pc[g] \in {"delOk", "pubOk"} /\ JobAt(g) = JobAt(h) => Failed
  PROVE  RememberInv'
<1>1. (Failed => Failed') /\ (Trouble(1) => Trouble(1)') /\ (Trouble(2) => Trouble(2)')
  BY TroubleStays
<1>2. \A g \in Handlers : JobAt(g)' = JobAt(g) /\ (g # h => pc'[g] = pc[g])
  BY DEF JobAt, TypeInv, TypeOK
<1>3. pc'[h] = s
  BY DEF TypeInv, TypeOK
<1>4. ASSUME NEW g \in Handlers, pc'[g] \in {"delOk", "pubOk"}
      PROVE  status'[JobAt(g)'] = "ANALYSIS_JOB_COMPLETED" \/ Failed'
  <2>1. CASE g = h
    BY <1>2, <1>3, <1>4, <2>1
  <2>2. CASE g # h /\ JobAt(g) = JobAt(h)
    BY <1>1, <1>2, <1>4, <2>2
  <2>3. CASE g # h /\ JobAt(g) # JobAt(h)
    <3>1. JobAt(g) \in Jobs
      BY <1>2, <1>4, <2>3 DEF TypeInv, HoldsJob, Holding, Executing
    <3>2. QED
      BY <1>1, <1>2, <1>4, <2>3, <3>1 DEF RememberInv
  <2>4. QED
    BY <2>1, <2>2, <2>3
<1>5. ASSUME NEW g \in Handlers, pc'[g] = "markFailed" PROVE Trouble(1)'
  <2>1. CASE g = h
    BY <1>3, <1>5, <2>1
  <2>2. CASE g # h
    <3>1. Trouble(1)
      BY <1>2, <1>5, <2>2 DEF RememberInv
    <3>2. QED
      BY <1>1, <3>1
  <2>3. QED
    BY <2>1, <2>2
<1>6. ASSUME NEW j \in Valid, status'[j] # "QUEUED"
      PROVE  InProgress(j)' \/ Settled(j)' \/ j \in interrupted' \/ Trouble(2)'
  <2>1. CASE j = JobAt(h)
    <3>1. s \in Holding => InProgress(j)'
      BY <1>2, <1>3, <2>1 DEF InProgress, Live
    <3>2. Settled(JobAt(h))' => Settled(j)'
      BY <1>2, <2>1
    <3>3. QED
      BY <3>1, <3>2
  <2>2. CASE j # JobAt(h)
    <3>1. j \in Jobs /\ status[j] # "QUEUED"
      BY <1>6, <2>2, ConsumerAssumption
    <3>2. InProgress(j) => InProgress(j)'
      BY <1>2, <2>2 DEF InProgress, Live
    <3>3. Settled(j) => Settled(j)'
      BY <2>2, <3>1 DEF Settled
    <3>4. Trouble(2) => Trouble(2)'
      BY <1>1
    <3>5. InProgress(j) \/ Settled(j) \/ j \in interrupted \/ Trouble(2)
      BY <3>1, NotForgotten DEF RememberInv
    <3>6. QED
      BY <3>2, <3>3, <3>4, <3>5
  <2>3. QED
    BY <2>1, <2>2
<1>7. proc' = "cancelled" => stops' >= 1
  BY NextOnwards DEF RememberInv, TypeInv, TypeOK
<1>8. ClaimedNotForgotten'
  BY <1>6 DEF ClaimedNotForgotten, Trouble
<1>9. QED
  BY <1>4, <1>5, <1>7, <1>8 DEF RememberInv

\* While nothing failed, a goroutine that executes a job is alone with it.
LEMMA AloneWithoutFaults ==
  ASSUME TypeInv, OwedInv, RememberInv, NEW g \in Handlers, NEW h \in Handlers, g # h,
         pc[g] \in Executing, pc[h] \in Holding, JobAt(g) = JobAt(h)
  PROVE  Failed
<1>1. JobAt(g) \in Valid
  BY DEF TypeInv, HoldsJob
<1>2. JobAt(g) \in doubtful
  BY <1>1 DEF OwedInv, Owes, Protected, Holding
<1>3. QED
  BY <1>2 DEF RememberInv

\* Counting up to two ends above zero.
LEMMA AtMostTwoPositive == \A n \in 0..2 : AtMostTwo(n) \in 1..2
BY DEF AtMostTwo

\* A call that fails is counted, or the process was told to stop.
LEMMA FailedCall ==
  ASSUME TypeInv, RememberInv, UNCHANGED stops, DbCall(FALSE) \/ AwsCall(FALSE)
  PROVE  Trouble(1)' /\ (Failed => Trouble(2)')
BY DEF TypeInv, TypeOK, RememberInv, DbCall, AwsCall, Failed, Trouble

\* Every step leaves a taken job in somebody's hands, settled, or excused.
LEMMA RememberStep == TypeInv /\ OwedInv /\ RememberInv /\ [Next]_vars => RememberInv'
<1> SUFFICES ASSUME TypeInv, OwedInv, RememberInv, [Next]_vars PROVE RememberInv'
  OBVIOUS
<1>1. CASE Poll \/ StopListening \/ Drained \/ SigTerm \/ Restart
           \/ (\E m \in Msgs : Redeliver(m)) \/ UNCHANGED vars
  <2>1. UNCHANGED <<status, succ, fail, doubtful, interrupted, pc, msgOf>>
    BY <1>1 DEF Poll, StopListening, Drained, SigTerm, Restart, Redeliver, vars, workVars,
                noteVars, histVars
  <2>2. \/ proc' = "cancelled" => proc = "cancelled" /\ UNCHANGED stops
        \/ stops' = stops + 1
    BY <1>1 DEF Poll, StopListening, Drained, SigTerm, Restart, Redeliver, vars, procVars
  <2>3. proc' = "cancelled" => stops' >= 1
    BY <2>2 DEF RememberInv, TypeInv, TypeOK
  <2>4. QED
    BY <2>1, <2>3, RememberFrame DEF JobAt
<1>2. ASSUME NEW h \in Handlers, NEW m \in Msgs, Spawn(h, m) PROVE RememberInv'
  <2>1. /\ UNCHANGED <<status, succ, fail, doubtful, interrupted, proc, stops>>
        /\ pc[h] = "idle" /\ pc' = [pc EXCEPT ![h] = "load"] /\ msgOf' = [msgOf EXCEPT ![h] = m]
    BY <1>2 DEF Spawn, GoTo, noteVars, histVars, procVars
  <2>2. \A g \in Handlers \ {h} : pc'[g] = pc[g] /\ JobAt(g)' = JobAt(g)
    BY <2>1 DEF JobAt, TypeInv, TypeOK
  <2>3. pc'[h] = "load" /\ pc[h] \notin Holding
    BY <2>1 DEF TypeInv, TypeOK, Holding, Executing
  <2>4. QED
    BY <2>1, <2>2, <2>3, RememberFrame DEF RememberInv
<1>3. ASSUME NEW h \in Handlers, Load(h) \/ Work(h) \/ Delete(h) PROVE RememberInv'
  <2>1. UNCHANGED <<status, succ, fail, doubtful, interrupted, proc, stops, msgOf>>
    BY <1>3 DEF Load, Work, Delete, noteVars, histVars, procVars
  <2>2. PICK s \in Steps : /\ pc' = [pc EXCEPT ![h] = s]
                           /\ pc[h] \in Holding => s \in Holding
                           /\ s \in {"delOk", "pubOk"} => pc[h] \in {"delOk", "pubOk"}
                           /\ s # "markFailed"
    BY <1>3 DEF Load, Work, Delete, GoTo, AfterLoadError, Steps, Holding, Executing
  <2>3. \A g \in Handlers : JobAt(g)' = JobAt(g) /\ (g # h => pc'[g] = pc[g])
    BY <2>1, <2>2 DEF JobAt, TypeInv, TypeOK
  <2>4. pc'[h] = s
    BY <2>2 DEF TypeInv, TypeOK
  <2>5. QED
    BY <2>1, <2>2, <2>3, <2>4, RememberFrame DEF RememberInv
<1>4. ASSUME NEW h \in Handlers, Exit(h) PROVE RememberInv'
  <2>1. /\ UNCHANGED <<status, succ, fail, doubtful, interrupted, proc, stops>>
        /\ pc[h] = "exit" /\ pc' = [pc EXCEPT ![h] = "idle"] /\ msgOf' = [msgOf EXCEPT ![h] = NoMsg]
    BY <1>4 DEF Exit, GoTo, noteVars, histVars, procVars
  <2>2. \A g \in Handlers \ {h} : pc'[g] = pc[g] /\ JobAt(g)' = JobAt(g)
    BY <2>1 DEF JobAt, TypeInv, TypeOK
  <2>3. pc'[h] = "idle" /\ pc[h] \notin Holding
    BY <2>1 DEF TypeInv, TypeOK, Holding, Executing
  <2>4. QED
    BY <2>1, <2>2, <2>3, RememberFrame DEF RememberInv
<1>5. ASSUME NEW h \in Handlers, Claim(h) PROVE RememberInv'
  <2>1. /\ UNCHANGED <<succ, fail, msgOf, interrupted, proc, stops>> /\ pc[h] = "claim"
        /\ JobAt(h) \in Jobs
    BY <1>5 DEF Claim, noteVars, procVars, TypeInv, HoldsJob
  <2>2. CASE GoTo(h, "discard")
    <3>1. UNCHANGED <<status, doubtful>> /\ pc' = [pc EXCEPT ![h] = "discard"]
      BY <1>5, <2>2 DEF Claim, GoTo, AfterLostClaim, TypeInv, TypeOK
    <3>2. \A g \in Handlers : JobAt(g)' = JobAt(g) /\ (g # h => pc'[g] = pc[g])
      BY <2>1, <3>1 DEF JobAt, TypeInv, TypeOK
    <3>3. pc'[h] = "discard" /\ pc[h] \notin Holding
      BY <2>1, <3>1 DEF TypeInv, TypeOK, Holding, Executing
    <3>4. QED
      BY <2>1, <3>1, <3>2, <3>3, RememberFrame DEF RememberInv
  <2>3. CASE ~GoTo(h, "discard")
    <3>1. PICK s \in {"delFail", "work"} : pc' = [pc EXCEPT ![h] = s]
      BY <1>5, <2>3 DEF Claim, GoTo, AfterLostClaim
    <3>2. doubtful' # {} => Failed'
      <4>1. doubtful' = doubtful \/ (DbCall(FALSE) /\ faults \in Nat)
        BY <1>5 DEF Claim, TypeInv, TypeOK
      <4>2. DbCall(FALSE) /\ faults \in Nat => Failed'
        BY DEF DbCall, Failed
      <4>3. QED
        BY <4>1, <4>2, TroubleStays DEF RememberInv
    <3>3. status' \in {status, [status EXCEPT ![JobAt(h)] = "RUNNING"]}
      BY <1>5 DEF Claim
    <3>4. \A j \in Jobs \ {JobAt(h)} : status'[j] = status[j]
      BY <3>3 DEF TypeInv, TypeOK
    <3>5. CASE status[JobAt(h)] = "QUEUED"
      <4>1. s \in Steps \ {"idle"} /\ s \in Holding /\ pc[h] # "idle"
        BY <2>1 DEF Steps, Holding, Executing
      <4>2. QED
        BY <2>1, <3>1, <3>2, <3>4, <3>5, <4>1, RememberMove DEF RememberInv
    <3>6. CASE status[JobAt(h)] # "QUEUED"
      <4>1. UNCHANGED status /\ GoTo(h, "delFail")
        BY <1>5, <2>3, <3>6 DEF Claim, MayClaim, AfterLostClaim
      <4>2. \A g \in Handlers : JobAt(g)' = JobAt(g) /\ (g # h => pc'[g] = pc[g])
        BY <2>1, <3>1 DEF JobAt, TypeInv, TypeOK
      <4>3. pc'[h] = "delFail" /\ pc[h] \notin Holding
        BY <2>1, <4>1 DEF GoTo, TypeInv, TypeOK, Holding, Executing
      <4>4. \A j \in Valid : InProgress(j) => InProgress(j)'
        BY <4>2, <4>3 DEF InProgress, Live, Holding, Executing
      <4>5. \A j \in Valid : Settled(j)' <=> Settled(j)
        BY <2>1, <4>1 DEF Settled
      <4>6. \A j \in Valid : status[j] # "QUEUED" =>
              InProgress(j) \/ Settled(j) \/ j \in interrupted \/ Trouble(2)
        BY NotForgotten DEF RememberInv
      <4>7. \A j \in Valid : status'[j] # "QUEUED" =>
              InProgress(j)' \/ Settled(j)' \/ j \in interrupted' \/ Trouble(2)'
        BY <2>1, <4>1, <4>4, <4>5, <4>6, TroubleStays
      <4>8. ClaimedNotForgotten'
        BY <4>7 DEF ClaimedNotForgotten, Trouble
      <4>9. QED
        BY <2>1, <3>2, <4>1, <4>2, <4>3, <4>8, TroubleStays DEF RememberInv
    <3>7. QED
      BY <3>5, <3>6
  <2>4. QED
    BY <2>2, <2>3
<1>6. ASSUME NEW h \in Handlers, Complete(h) \/ Abandon(h) \/ MarkFailed(h) PROVE RememberInv'
  <2>1. /\ UNCHANGED <<succ, fail, msgOf, interrupted, doubtful, proc, stops>>
        /\ pc[h] \in Holding /\ pc[h] # "idle" /\ JobAt(h) \in Jobs
    BY <1>6 DEF Complete, Abandon, MarkFailed, noteVars, histVars, procVars, TypeInv, HoldsJob,
                Holding, Executing
  <2>2. PICK s \in {"delOk", "delFail", "exit"}, new \in {"ANALYSIS_JOB_COMPLETED",
          "NOTIFICATION_QUEUED", "FAILED"}, ok \in BOOLEAN :
          /\ pc' = [pc EXCEPT ![h] = s]
          /\ DbCall(ok) /\ (ok => status' = [status EXCEPT ![JobAt(h)] = new])
          /\ status' \in {status, [status EXCEPT ![JobAt(h)] = new]}
          /\ s = "delOk" => new = "ANALYSIS_JOB_COMPLETED"
          /\ s = "exit" => new = "FAILED" /\ pc[h] = "markFailed"
    BY <1>6 DEF Complete, Abandon, MarkFailed, GoTo, SetStatus, Outcome
  <2>3. \A j \in Jobs \ {JobAt(h)} : status'[j] = status[j]
    BY <2>2 DEF TypeInv, TypeOK
  <2>4. ok => status'[JobAt(h)] = new
    BY <2>1, <2>2 DEF TypeInv, TypeOK
  <2>5. ~ok => Failed' /\ (Trouble(1) => Trouble(2)')
    BY <2>1, <2>2 DEF TypeInv, TypeOK, DbCall, Failed, Trouble
  <2>6. s \in {"delOk", "pubOk"} => status'[JobAt(h)] = "ANALYSIS_JOB_COMPLETED" \/ Failed'
    BY <2>2, <2>4, <2>5
  <2>7. s \in Holding \/ Settled(JobAt(h))' \/ Trouble(2)'
    <3>1. CASE s = "exit" /\ ok
      <4>1. JobAt(h)' = JobAt(h) /\ status'[JobAt(h)] = "FAILED"
        BY <2>1, <2>2, <2>4, <3>1 DEF JobAt
      <4>2. QED
        BY <4>1 DEF Settled
    <3>2. CASE s = "exit" /\ ~ok
      BY <2>2, <2>5, <3>2 DEF RememberInv
    <3>3. CASE s # "exit"
      BY <3>3 DEF Holding, Executing
    <3>4. QED
      BY <3>1, <3>2, <3>3
  <2>8. \A g \in Handlers \ {h} :
          pc[g] \in {"delOk", "pubOk"} /\ JobAt(g) = JobAt(h) => Failed
    BY <2>1, AloneWithoutFaults DEF Executing
  <2>9. s \in Steps \ {"idle"} /\ s # "markFailed" /\ (doubtful' # {} => Failed')
    BY <2>1, TroubleStays DEF Steps, RememberInv
  <2>10. QED
    BY <2>1, <2>2, <2>3, <2>6, <2>7, <2>8, <2>9, RememberMove
<1>7. ASSUME NEW h \in Handlers, PublishSuccess(h) \/ PublishFailure(h) PROVE RememberInv'
  <2>1. /\ UNCHANGED <<status, msgOf, interrupted, doubtful, proc, stops>>
        /\ pc[h] \in Holding /\ pc[h] # "idle" /\ JobAt(h) \in Jobs /\ JobAt(h)' = JobAt(h)
    BY <1>7 DEF PublishSuccess, PublishFailure, histVars, procVars, TypeInv, HoldsJob, JobAt,
                Holding, Executing
  <2>2. PICK s \in {"exit", "markFailed"}, ok \in BOOLEAN :
          /\ pc' = [pc EXCEPT ![h] = s] /\ AwsCall(ok)
          /\ ok => \/ succ' = [succ EXCEPT ![JobAt(h)] = AtMostTwo(@)] /\ UNCHANGED fail
                   \/ fail' = [fail EXCEPT ![JobAt(h)] = AtMostTwo(@)] /\ UNCHANGED succ
          /\ ~ok => s = "markFailed" \/ pc[h] = "pubOk"
          /\ s = "markFailed" => ~ok
    BY <1>7 DEF PublishSuccess, PublishFailure, Outcome, GoTo, AfterUnpublished
  <2>3. \A j \in Jobs \ {JobAt(h)} : succ'[j] = succ[j] /\ fail'[j] = fail[j]
    BY <1>7 DEF PublishSuccess, PublishFailure, Outcome, TypeInv, TypeOK
  <2>4. ~ok => Trouble(1)' /\ (Failed => Trouble(2)')
    BY <2>1, <2>2, FailedCall DEF Failed, Trouble
  <2>5. ok => Settled(JobAt(h))'
    <3>1. ok => \/ succ'[JobAt(h)] \in 1..2 /\ fail'[JobAt(h)] \in 0..2
                \/ fail'[JobAt(h)] \in 1..2 /\ succ'[JobAt(h)] \in 0..2
      BY <2>1, <2>2, AtMostTwoPositive DEF TypeInv, TypeOK
    <3>2. \A m, n \in 0..2 : m \in 1..2 \/ n \in 1..2 => m + n > 0
      OBVIOUS
    <3>3. ok => succ'[JobAt(h)] + fail'[JobAt(h)] > 0
      BY <3>1, <3>2
    <3>4. QED
      BY <2>1, <3>3 DEF Settled
  <2>6. ~ok /\ pc[h] = "pubOk" => Settled(JobAt(h))' \/ Trouble(2)'
    BY <2>1, <2>4 DEF RememberInv, Settled
  <2>7. s \in Holding \/ Settled(JobAt(h))' \/ Trouble(2)'
    BY <2>2, <2>5, <2>6 DEF Holding
  <2>8. \A g \in Handlers \ {h} :
          pc[g] \in {"delOk", "pubOk"} /\ JobAt(g) = JobAt(h) => Failed
    BY <2>1, AloneWithoutFaults DEF Executing
  <2>9. /\ s \in Steps \ {"idle"} /\ s \notin {"delOk", "pubOk"}
        /\ doubtful' # {} => Failed'
        /\ s = "markFailed" => Trouble(1)'
    BY <2>1, <2>2, <2>4, TroubleStays DEF Steps, RememberInv
  <2>10. QED
    BY <2>1, <2>2, <2>3, <2>7, <2>8, <2>9, RememberMove
<1>8. CASE ProcessExit \/ Crash
  <2>1. /\ UNCHANGED <<status, succ, fail, doubtful>> /\ proc' = "down"
        /\ \A h \in Handlers : pc'[h] = "idle"
        /\ interrupted' = interrupted \cup {JobAt(h) : h \in {g \in Live : pc[g] \in Holding}}
    BY <1>8 DEF ProcessExit, Crash, Die, noteVars
  <2>2. \A j \in Valid : InProgress(j) => j \in interrupted'
    BY <2>1 DEF InProgress
  <2>3. \A j \in Valid : Settled(j)' <=> Settled(j)
    BY <2>1 DEF Settled
  <2>4. \A j \in Valid : status[j] # "QUEUED" =>
          InProgress(j) \/ Settled(j) \/ j \in interrupted \/ Trouble(2)
    BY NotForgotten DEF RememberInv
  <2>5. \A j \in Valid : status'[j] # "QUEUED" => Settled(j)' \/ j \in interrupted' \/ Trouble(2)'
    BY <2>1, <2>2, <2>3, <2>4, TroubleStays
  <2>6. ClaimedNotForgotten'
    BY <2>5 DEF ClaimedNotForgotten, Trouble
  <2>7. QED
    BY <2>1, <2>6, TroubleStays DEF RememberInv
<1>9. QED
  BY <1>1, <1>2, <1>3, <1>4, <1>5, <1>6, <1>7, <1>8 DEF Next, HandlerStep

\* One failing call, one signal or one crash, wherever it falls, never makes a
\* taken job disappear unless the process dies with it.
THEOREM ClaimedNotForgottenCorrect == Spec => []ClaimedNotForgotten
<1>1. Init => RememberInv
  BY ConsumerAssumption DEF Init, RememberInv, ClaimedNotForgotten
<1>2. RememberInv => ClaimedNotForgotten
  BY DEF RememberInv
<1>3. QED
  BY <1>1, <1>2, TypeInit, TypeStep, OwedInit, OwedStep, RememberStep, PTL DEF Spec

-----------------------------------------------------------------------------
(***************************************************************************)
(* AnalysisConsumer implements JobLifecycle.  OwedInv says what a step on  *)
(* a protected job may find; for doubtful jobs it takes what is known of   *)
(* their winner.                                                           *)
(***************************************************************************)
Deciding == {"work", "complete", "abandon"}

HandInv ==
  /\ \A h \in Handlers :
       /\ pc[h] \in Deciding => status[JobAt(h)] \in {"RUNNING", "FAILED"}
       /\ pc[h] \in Executing => succ[JobAt(h)] = 0
  /\ \A j \in Jobs : status[j] = "QUEUED" => succ[j] = 0

\* Steps that announce no success and bring no new winner; a claim or a
\* fallback may be written.
LEMMA HandFrame ==
  ASSUME TypeInv, HandInv, [Next]_vars, UNCHANGED succ,
         \A j \in Jobs : status'[j] \in {status[j], "RUNNING", "FAILED"},
         \A h \in Handlers :
           /\ pc'[h] \in Deciding => pc[h] \in Deciding
           /\ pc'[h] \in Executing => pc[h] \in Executing /\ JobAt(h)' = JobAt(h)
  PROVE  HandInv'
<1>1. \A h \in Handlers : pc[h] \in Executing => JobAt(h) \in Jobs
  BY DEF TypeInv, HoldsJob, Holding
<1>2. Deciding \subseteq Executing
  BY DEF Deciding, Executing
<1>3. \A j \in Jobs : status'[j] = "QUEUED" => status[j] = "QUEUED"
  BY NextOnwards
<1>4. ASSUME NEW h \in Handlers, pc'[h] \in Deciding
      PROVE  status'[JobAt(h)'] \in {"RUNNING", "FAILED"}
  <2>1. pc[h] \in Deciding /\ JobAt(h)' = JobAt(h) /\ JobAt(h) \in Jobs
    BY <1>1, <1>2, <1>4
  <2>2. status[JobAt(h)] \in {"RUNNING", "FAILED"}
    BY <2>1 DEF HandInv
  <2>3. QED
    BY <2>1, <2>2
<1>5. QED
  BY <1>3, <1>4 DEF HandInv

\* Every step keeps what is known of the winners.
LEMMA HandStep == TypeInv /\ ClaimInv /\ HandInv /\ [Next]_vars => HandInv'
<1> SUFFICES ASSUME TypeInv, ClaimInv, HandInv, [Next]_vars PROVE HandInv'
  OBVIOUS
<1> USE DEF TypeInv
<1>1. CASE Poll \/ StopListening \/ Drained \/ SigTerm \/ Restart
           \/ (\E m \in Msgs : Redeliver(m)) \/ UNCHANGED vars
  <2>1. UNCHANGED <<status, succ, pc, msgOf>>
    BY <1>1 DEF Poll, StopListening, Drained, SigTerm, Restart, Redeliver, vars, workVars, noteVars
  <2>2. QED
    BY <2>1, HandFrame DEF JobAt
<1>2. ASSUME NEW h \in Handlers, NEW m \in Msgs, Spawn(h, m) PROVE HandInv'
  <2>1. UNCHANGED <<status, succ>>
    BY <1>2 DEF Spawn, noteVars
  <2>2. \A g \in Handlers :
          pc'[g] \in Executing => pc'[g] = pc[g] /\ JobAt(g)' = JobAt(g)
    BY <1>2 DEF Spawn, GoTo, TypeOK, JobAt, Executing
  <2>3. Deciding \subseteq Executing
    BY DEF Deciding, Executing
  <2>4. QED
    BY <2>1, <2>2, <2>3, HandFrame
<1>3. ASSUME NEW h \in Handlers,
             Load(h) \/ Work(h) \/ Delete(h) \/ PublishFailure(h) \/ MarkFailed(h)
      PROVE  HandInv'
  <2>1. UNCHANGED <<succ, msgOf>>
    BY <1>3 DEF Load, Work, Delete, PublishFailure, MarkFailed, noteVars
  <2>2. PICK s \in Steps : /\ pc' = [pc EXCEPT ![h] = s]
                           /\ s \in Deciding => pc[h] \in Deciding
                           /\ s \in Executing => pc[h] \in Executing
    BY <1>3 DEF Load, Work, Delete, PublishFailure, MarkFailed, GoTo, AfterLoadError,
                AfterUnpublished, Steps, Executing, Deciding
  <2>3. \A g \in Handlers : JobAt(g)' = JobAt(g) /\ (g # h => pc'[g] = pc[g])
    BY <2>1, <2>2 DEF JobAt, TypeOK
  <2>4. pc'[h] = s
    BY <2>2 DEF TypeOK
  <2>5. \A j \in Jobs : status'[j] \in {status[j], "RUNNING", "FAILED"}
    BY <1>3 DEF Load, Work, Delete, PublishFailure, MarkFailed, SetStatus, Outcome, TypeOK
  <2>6. QED
    BY <2>1, <2>2, <2>3, <2>4, <2>5, HandFrame
<1>4. ASSUME NEW h \in Handlers, Claim(h) PROVE HandInv'
  <2>1. UNCHANGED <<succ, msgOf>> /\ JobAt(h) \in Jobs
    BY <1>4 DEF Claim, HoldsJob, noteVars
  <2>2. \A g \in Handlers : JobAt(g)' = JobAt(g) /\ (g # h => pc'[g] = pc[g])
    BY <1>4, <2>1 DEF Claim, GoTo, JobAt, TypeOK
  <2>3. \A j \in Jobs : status'[j] \in {status[j], "RUNNING", "FAILED"}
    BY <1>4 DEF Claim, TypeOK
  <2>4. CASE GoTo(h, "work")
    <3>1. status[JobAt(h)] = "QUEUED" /\ status' = [status EXCEPT ![JobAt(h)] = "RUNNING"]
      BY <1>4, <2>4 DEF Claim, GoTo, MayClaim, AfterLostClaim, TypeOK
    <3>2. pc'[h] = "work" /\ status'[JobAt(h)] = "RUNNING" /\ succ[JobAt(h)] = 0
      BY <2>1, <2>4, <3>1 DEF GoTo, HandInv, TypeOK
    <3>3. \A g \in Handlers \ {h} : pc[g] \in Executing => JobAt(g) \in Jobs
      BY DEF HoldsJob, Holding
    <3>4. ASSUME NEW g \in Handlers, pc'[g] \in Deciding
          PROVE  status'[JobAt(g)'] \in {"RUNNING", "FAILED"}
      BY <2>2, <2>3, <3>2, <3>3, <3>4 DEF HandInv, Deciding, Executing
    <3>5. \A g \in Handlers : pc'[g] \in Executing => succ'[JobAt(g)'] = 0
      BY <2>1, <2>2, <3>2 DEF HandInv
    <3>6. QED
      BY <2>1, <3>4, <3>5, NextOnwards DEF HandInv
  <2>5. CASE ~GoTo(h, "work")
    <3>1. pc'[h] \notin Executing /\ pc'[h] \notin Deciding
      BY <1>4, <2>5 DEF Claim, GoTo, AfterLostClaim, TypeOK, Executing, Deciding
    <3>2. QED
      BY <2>1, <2>2, <2>3, <3>1, HandFrame
  <2>6. QED
    BY <2>4, <2>5
<1>5. ASSUME NEW h \in Handlers, Complete(h) \/ Abandon(h) PROVE HandInv'
  <2>1. UNCHANGED <<succ, msgOf>> /\ pc[h] \in Executing
    BY <1>5 DEF Complete, Abandon, noteVars, Executing
  <2>2. \A g \in Handlers : JobAt(g)' = JobAt(g) /\ (g # h => pc'[g] = pc[g])
    BY <1>5, <2>1 DEF Complete, Abandon, GoTo, JobAt, TypeOK
  <2>3. pc'[h] \notin Deciding
    BY <1>5 DEF Complete, Abandon, GoTo, TypeOK, Deciding
  <2>4. \A j \in Jobs \ {JobAt(h)} : status'[j] = status[j]
    BY <1>5 DEF Complete, Abandon, SetStatus, Outcome, TypeOK
  <2>5. \A g \in Handlers \ {h} : pc[g] \in Executing => JobAt(g) \in Jobs \ {JobAt(h)}
    BY <2>1 DEF ClaimInv, HoldsJob, Holding
  <2>6. ASSUME NEW g \in Handlers, pc'[g] \in Deciding
        PROVE  status'[JobAt(g)'] \in {"RUNNING", "FAILED"}
    BY <2>2, <2>3, <2>4, <2>5, <2>6 DEF HandInv, Deciding, Executing
  <2>7. \A g \in Handlers : pc'[g] \in Executing => succ'[JobAt(g)'] = 0
    BY <2>1, <2>2 DEF HandInv
  <2>8. QED
    BY <2>1, <2>6, <2>7, NextOnwards DEF HandInv
<1>6. ASSUME NEW h \in Handlers, PublishSuccess(h) PROVE HandInv'
  <2>1. UNCHANGED <<status, msgOf>> /\ pc[h] = "pubOk" /\ pc' = [pc EXCEPT ![h] = "exit"]
    BY <1>6 DEF PublishSuccess, GoTo
  <2>2. \A g \in Handlers : JobAt(g)' = JobAt(g) /\ (g # h => pc'[g] = pc[g])
    BY <2>1 DEF JobAt, TypeOK
  <2>3. pc'[h] \notin Executing /\ pc'[h] \notin Deciding
    BY <2>1 DEF TypeOK, Executing, Deciding
  <2>4. \A j \in Jobs \ {JobAt(h)} : succ'[j] = succ[j]
    BY <1>6 DEF PublishSuccess, Outcome, TypeOK
  <2>5. /\ \A g \in Handlers \ {h} : pc[g] \in Executing => JobAt(g) \in Jobs \ {JobAt(h)}
        /\ status[JobAt(h)] # "QUEUED"
    BY <2>1 DEF ClaimInv, HoldsJob, Holding, Executing
  <2>6. \A g \in Handlers : pc'[g] \in Executing => succ'[JobAt(g)'] = 0
    BY <2>2, <2>3, <2>4, <2>5 DEF HandInv
  <2>7. \A j \in Jobs : status'[j] = "QUEUED" => succ'[j] = 0
    BY <2>1, <2>4, <2>5 DEF HandInv
  <2>8. \A g \in Handlers : pc'[g] \in Deciding => status'[JobAt(g)'] \in {"RUNNING", "FAILED"}
    BY <2>1, <2>2, <2>3 DEF HandInv
  <2>9. QED
    BY <2>6, <2>7, <2>8 DEF HandInv
<1>7. ASSUME NEW h \in Handlers, Exit(h) PROVE HandInv'
  <2>1. UNCHANGED <<status, succ>>
    BY <1>7 DEF Exit, noteVars
  <2>2. \A g \in Handlers :
          pc'[g] \in Executing => pc'[g] = pc[g] /\ JobAt(g)' = JobAt(g)
    BY <1>7 DEF Exit, GoTo, TypeOK, JobAt, Executing
  <2>3. Deciding \subseteq Executing
    BY DEF Deciding, Executing
  <2>4. QED
    BY <2>1, <2>2, <2>3, HandFrame
<1>8. CASE ProcessExit \/ Crash
  <2>1. UNCHANGED <<status, succ>> /\ \A h \in Handlers : pc'[h] = "idle"
    BY <1>8 DEF ProcessExit, Crash, Die, noteVars
  <2>2. QED
    BY <2>1, HandFrame DEF Executing, Deciding
<1>9. QED
  BY <1>1, <1>2, <1>3, <1>4, <1>5, <1>6, <1>7, <1>8 DEF Next, HandlerStep

\* A step that touches no column of a job is none of the lifecycle.
LEMMA LifecycleStutter ==
  ASSUME UNCHANGED <<status, succ, fail, doubtful>>
  PROVE  [Lifecycle!Next]_(Lifecycle!vars)
BY DEF Lifecycle!vars

\* Every step of the consumer is a step of one job's lifecycle, or none.
LEMMA LifecycleStep ==
  TypeInv /\ OwedInv /\ HandInv /\ [Next]_vars => [Lifecycle!Next]_(Lifecycle!vars)
<1> SUFFICES ASSUME TypeInv, OwedInv, HandInv, [Next]_vars
             PROVE  [Lifecycle!Next]_(Lifecycle!vars)
  OBVIOUS
<1> USE DEF TypeInv
<1>1. CASE Poll \/ StopListening \/ Drained \/ SigTerm \/ Restart
           \/ (\E m \in Msgs : Redeliver(m)) \/ (\E h \in Handlers, m \in Msgs : Spawn(h, m))
           \/ ProcessExit \/ Crash \/ UNCHANGED vars
  <2>1. UNCHANGED <<status, succ, fail, doubtful>>
    BY <1>1 DEF Poll, StopListening, Drained, SigTerm, Restart, Redeliver, Spawn, ProcessExit,
                Crash, Die, vars, noteVars, histVars
  <2>2. QED
    BY <2>1, LifecycleStutter
<1>2. ASSUME NEW h \in Handlers, Load(h) \/ Work(h) \/ Delete(h) \/ Exit(h)
      PROVE  [Lifecycle!Next]_(Lifecycle!vars)
  <2>1. UNCHANGED <<status, succ, fail, doubtful>>
    BY <1>2 DEF Load, Work, Delete, Exit, noteVars, histVars
  <2>2. QED
    BY <2>1, LifecycleStutter
<1>3. ASSUME NEW h \in Handlers, Claim(h) PROVE [Lifecycle!Next]_(Lifecycle!vars)
  <2>1. /\ JobAt(h) \in Jobs /\ JobAt(h) \in Valid /\ UNCHANGED <<succ, fail>>
    BY <1>3 DEF Claim, HoldsJob, noteVars
  <2>2. CASE UNCHANGED <<status, doubtful>>
    BY <2>1, <2>2, LifecycleStutter
  <2>3. CASE doubtful' = doubtful \cup {JobAt(h)}
    <3>1. \/ UNCHANGED status
          \/ status[JobAt(h)] = "QUEUED" /\ status' = [status EXCEPT ![JobAt(h)] = "RUNNING"]
      BY <1>3 DEF Claim, MayClaim
    <3>2. Lifecycle!Doubt(JobAt(h))
      BY <2>1, <2>3, <3>1 DEF Lifecycle!Doubt
    <3>3. QED
      BY <2>1, <3>2 DEF Lifecycle!Next
  <2>4. CASE /\ status[JobAt(h)] = "QUEUED" /\ UNCHANGED doubtful
             /\ status' = [status EXCEPT ![JobAt(h)] = "RUNNING"]
    <3>1. Lifecycle!Take(JobAt(h))
      BY <2>1, <2>4 DEF Lifecycle!Take, Lifecycle!SetStatus
    <3>2. QED
      BY <2>1, <3>1 DEF Lifecycle!Next
  <2>5. QED
    BY <1>3, <2>2, <2>3, <2>4 DEF Claim, MayClaim
<1>4. ASSUME NEW h \in Handlers, Complete(h) \/ Abandon(h)
      PROVE  [Lifecycle!Next]_(Lifecycle!vars)
  <2>1. /\ JobAt(h) \in Jobs /\ JobAt(h) \in Valid /\ UNCHANGED <<succ, fail, doubtful>>
        /\ pc[h] \in {"complete", "abandon"}
    BY <1>4 DEF Complete, Abandon, HoldsJob, Executing, Holding, noteVars, histVars
  <2>2. PICK new \in {"ANALYSIS_JOB_COMPLETED", "NOTIFICATION_QUEUED"} :
          status' \in {status, [status EXCEPT ![JobAt(h)] = new]}
    BY <1>4 DEF Complete, Abandon, SetStatus, Outcome
  <2>3. Lifecycle!InHand(JobAt(h)) /\ (Lifecycle!Untold(JobAt(h)) \/ JobAt(h) \in doubtful)
    <3>1. CASE JobAt(h) \in doubtful
      BY <2>1, <3>1 DEF HandInv, Deciding, Lifecycle!InHand
    <3>2. CASE JobAt(h) \notin doubtful
      <4>1. Owes(h)
        BY <2>1, <3>2 DEF Owes, Protected, Holding, Executing
      <4>2. succ[JobAt(h)] = 0 /\ fail[JobAt(h)] = 0 /\ status[JobAt(h)] = "RUNNING"
        BY <2>1, <4>1 DEF OwedInv, StatusAt, FailuresAt
      <4>3. QED
        BY <4>2 DEF Lifecycle!InHand, Lifecycle!Untold
    <3>3. QED
      BY <3>1, <3>2
  <2>4. CASE UNCHANGED status
    BY <2>1, <2>4, LifecycleStutter
  <2>5. CASE status' = [status EXCEPT ![JobAt(h)] = new]
    <3>1. Lifecycle!SetStatus(JobAt(h), new)
      BY <2>1, <2>5 DEF Lifecycle!SetStatus
    <3>2. Lifecycle!Finish(JobAt(h)) \/ Lifecycle!GiveUp(JobAt(h))
      BY <2>1, <2>3, <3>1 DEF Lifecycle!Finish, Lifecycle!GiveUp
    <3>3. QED
      BY <2>1, <3>2 DEF Lifecycle!Next
  <2>6. QED
    BY <2>2, <2>4, <2>5
<1>5. ASSUME NEW h \in Handlers, MarkFailed(h) PROVE [Lifecycle!Next]_(Lifecycle!vars)
  <2>1. /\ JobAt(h) \in Jobs /\ UNCHANGED <<succ, fail, doubtful>> /\ pc[h] = "markFailed"
        /\ status' \in {status, [status EXCEPT ![JobAt(h)] = "FAILED"]}
    BY <1>5 DEF MarkFailed, SetStatus, Outcome, HoldsJob, Executing, Holding, noteVars, histVars
  <2>2. \/ Lifecycle!Unprotected(JobAt(h))
        \/ status[JobAt(h)] \in {"RUNNING", "NOTIFICATION_QUEUED"} /\ succ[JobAt(h)] = 0
    <3>1. CASE Protected(JobAt(h))
      <4>1. Owes(h)
        BY <2>1, <3>1 DEF Owes, Holding
      <4>2. QED
        BY <2>1, <4>1 DEF OwedInv, StatusAt
    <3>2. CASE ~Protected(JobAt(h))
      BY <3>2 DEF Protected, Lifecycle!Unprotected
    <3>3. QED
      BY <3>1, <3>2
  <2>3. CASE UNCHANGED status
    BY <2>1, <2>3, LifecycleStutter
  <2>4. CASE status' = [status EXCEPT ![JobAt(h)] = "FAILED"]
    <3>1. Lifecycle!MarkFailed(JobAt(h))
      BY <2>1, <2>2, <2>4 DEF Lifecycle!MarkFailed, Lifecycle!SetStatus
    <3>2. QED
      BY <2>1, <3>1 DEF Lifecycle!Next
  <2>5. QED
    BY <2>1, <2>3, <2>4
<1>6. ASSUME NEW h \in Handlers, PublishSuccess(h) PROVE [Lifecycle!Next]_(Lifecycle!vars)
  <2>1. /\ JobAt(h) \in Jobs /\ JobAt(h) \in Valid /\ UNCHANGED <<status, fail, doubtful>>
        /\ pc[h] = "pubOk"
        /\ succ' \in {succ, [succ EXCEPT ![JobAt(h)] = AtMostTwo(@)]}
    BY <1>6 DEF PublishSuccess, Outcome, HoldsJob, Executing, Holding, histVars
  <2>2. succ[JobAt(h)] = 0
    BY <2>1 DEF HandInv, Executing
  <2>3. \/ status[JobAt(h)] \in {"RUNNING", "ANALYSIS_JOB_COMPLETED"} /\ fail[JobAt(h)] = 0
        \/ JobAt(h) \in doubtful
    <3>1. CASE Protected(JobAt(h))
      <4>1. Owes(h)
        BY <2>1, <3>1 DEF Owes, Holding, Executing
      <4>2. QED
        BY <2>1, <4>1 DEF OwedInv, StatusAt, FailuresAt
    <3>2. CASE ~Protected(JobAt(h))
      BY <2>1, <3>2 DEF Protected
    <3>3. QED
      BY <3>1, <3>2
  <2>4. CASE UNCHANGED succ
    BY <2>1, <2>4, LifecycleStutter
  <2>5. CASE succ' = [succ EXCEPT ![JobAt(h)] = AtMostTwo(@)]
    <3>1. AtMostTwo(succ[JobAt(h)]) = 1
      BY <2>2 DEF AtMostTwo
    <3>2. succ' = [succ EXCEPT ![JobAt(h)] = 1]
      BY <2>5, <3>1
    <3>3. Lifecycle!AnnounceSuccess(JobAt(h))
      BY <2>1, <2>2, <2>3, <3>2 DEF Lifecycle!AnnounceSuccess
    <3>4. QED
      BY <2>1, <3>3 DEF Lifecycle!Next
  <2>6. QED
    BY <2>1, <2>4, <2>5
<1>7. ASSUME NEW h \in Handlers, PublishFailure(h) PROVE [Lifecycle!Next]_(Lifecycle!vars)
  <2>1. /\ JobAt(h) \in Jobs /\ UNCHANGED <<status, succ, doubtful>> /\ pc[h] = "pubFail"
        /\ fail' \in {fail, [fail EXCEPT ![JobAt(h)] = AtMostTwo(@)]}
    BY <1>7 DEF PublishFailure, Outcome, HoldsJob, Executing, Holding, histVars
  <2>2. \/ Lifecycle!Unprotected(JobAt(h))
        \/ /\ status[JobAt(h)] \in {"RUNNING", "NOTIFICATION_QUEUED"}
           /\ Lifecycle!Untold(JobAt(h))
    <3>1. CASE Protected(JobAt(h))
      <4>1. Owes(h)
        BY <2>1, <3>1 DEF Owes, Holding
      <4>2. QED
        BY <2>1, <4>1 DEF OwedInv, StatusAt, FailuresAt, Lifecycle!Untold
    <3>2. CASE ~Protected(JobAt(h))
      BY <3>2 DEF Protected, Lifecycle!Unprotected
    <3>3. QED
      BY <3>1, <3>2
  <2>3. CASE UNCHANGED fail
    BY <2>1, <2>3, LifecycleStutter
  <2>4. CASE fail' = [fail EXCEPT ![JobAt(h)] = AtMostTwo(@)]
    <3>1. Lifecycle!AnnounceFailure(JobAt(h))
      BY <2>1, <2>2, <2>4 DEF Lifecycle!AnnounceFailure, AtMostTwo
    <3>2. QED
      BY <2>1, <3>1 DEF Lifecycle!Next
  <2>5. QED
    BY <2>1, <2>3, <2>4
<1>8. QED
  BY <1>1, <1>2, <1>3, <1>4, <1>5, <1>6, <1>7 DEF Next, HandlerStep

\* The status column and the notifications of every job follow JobLifecycle,
\* whatever happens to its messages, goroutines and processes.
THEOREM LifecycleCorrect == Spec => LifecycleSpec
<1>1. Init => Lifecycle!Init
  BY DEF Init, Lifecycle!Init
<1>2. Init => ClaimInv /\ HandInv
  BY DEF Init, ClaimInv, HandInv, Deciding, Executing
<1>3. QED
  BY <1>1, <1>2, TypeInit, TypeStep, OwedInit, OwedStep, ClaimStep, HandStep, LifecycleStep, PTL
  DEF Spec, LifecycleSpec, Lifecycle!Spec
=============================================================================
