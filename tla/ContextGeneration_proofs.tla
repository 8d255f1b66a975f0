---------------------- MODULE ContextGeneration_proofs ----------------------
(***************************************************************************)
(* Theorems about ContextGeneration and the calls of AiRequest it makes:   *)
(* for any number of chunks, files and errors, what an answer says of its  *)
(* run, what a call leaves at the provider and a generation on the disk;   *)
(* and for any sizes of modules, how they fall into chunks and that none   *)
(* is lost on the way to the overview.                                     *)
(***************************************************************************)
EXTENDS ContextGeneration, SequenceTheorems, WellFoundedInduction, TLAPS

AllObjects == UNION {Objects(r) : r \in Requests}

\* The types of what the calls keep.
ProgressTypes ==
  /\ pc \in [Requests -> CallSteps]
  /\ answer \in [Requests -> {"none", "error", "text"}]
  /\ polled \in [Requests -> RunStatus \cup {"none"}]
  /\ run \in [Requests -> RunStatus \cup {"none"}]

CallTypes ==
  /\ ProgressTypes
  /\ DOMAIN results = Requests
  /\ \A r \in Requests : results[r] \in [FilesOf[r] -> {"none", "ok", "error"}]
  /\ deferred \in [Requests -> Seq(SUBSET AllObjects)]
  /\ found \in [1..MaxChunks -> {"none", "error", "ok"}]

AllUploaded(r) == \A f \in FilesOf[r] : results[r][f] = "ok"

\* A call goes past the uploads only with all its files, and past the polls
\* only with a run that was seen completed.
WholeInv ==
  \A r \in Requests :
    /\ pc[r] \in {"assistant", "thread", "run", "poll", "list"} => AllUploaded(r)
    /\ polled[r] = "completed" => run[r] = "completed"
    /\ pc[r] = "list" => polled[r] = "completed"
    /\ answer[r] = "text" => AllUploaded(r) /\ run[r] = "completed" /\ pc[r] \in {"delete", "returned"}

Covers(calls, object) == \E i \in DOMAIN calls : object \in calls[i]

\* What a call has created is in a deferred deletion, or is an upload of which
\* the results have not been collected yet.
Clean(r) ==
  /\ \A object \in created \cap Objects(r) :
       IF pc[r] \in {"off", "upload"}
       THEN \E f \in FilesOf[r] : object = File(r, f) /\ results[r][f] = "ok"
       ELSE Covers(deferred[r], object)
  /\ pc[r] \notin {"off", "upload"} => \A f \in FilesOf[r] : results[r][f] # "none"
  /\ pc[r] = "returned" => deferred[r] = <<>>

CleanInv == \A r \in Requests : Clean(r)

ChunkCalls == 1..MaxChunks

\* How far the calls of a generation are, and whose files are on the disk.
StageInv ==
  /\ \A i \in ChunkCalls :
       /\ pc[i] # "off" => i \in Spawned /\ gen # "split"
       /\ found[i] # "none" => pc[i] \in {"off", "returned"}
       /\ gen \notin {"split", "chunks"} /\ i \in Spawned => found[i] # "none"
  /\ pc[Overview] # "off" => gen \notin {"split", "chunks", "overview"}
  /\ disk \subseteq Artifacts \cup {ChunkFile(i) : i \in {k \in ChunkCalls : pc[k] # "off" /\ found[k] = "none"}}
                    \cup (IF gen = "asked" THEN Temporary ELSE {})

\* An upload that has not been made finds its file.
FilesInv ==
  \A r \in Requests : \A f \in FilesOf[r] \ Artifacts :
    pc[r] # "off" /\ results[r][f] = "none" => f \in disk

GenerationInv == CallTypes /\ WholeInv /\ CleanInv /\ StageInv /\ FilesInv

-----------------------------------------------------------------------------
(***************************************************************************)
(* The calls and what they own.                                            *)
(***************************************************************************)
\* The calls are the overview's and one for each chunk, each with its files.
LEMMA Calls ==
  /\ Requests = {Overview} \cup ChunkCalls /\ Overview \notin ChunkCalls
  /\ FilesOf[Overview] = Temporary \cup Artifacts /\ Temporary \cap Artifacts = {}
  /\ \A i \in ChunkCalls : FilesOf[i] = {ChunkFile(i)}
BY GenerationAssumption DEF Overview, ChunkCalls

\* Two calls own different objects at the provider.
LEMMA OwnObjects ==
  /\ \A r \in Requests : \A f \in FilesOf[r] : File(r, f) \in Objects(r)
  /\ \A r \in Requests : Assistant(r) \in Objects(r) /\ Thread(r) \in Objects(r)
  /\ \A r \in Requests : Objects(r) \subseteq AllObjects
  /\ \A r, s \in Requests : r # s => Objects(r) \cap Objects(s) = {}
<1>1. \A r, s \in Requests : \A object \in Objects(r) \cap Objects(s) : r = s
  BY DEF Objects, File, Assistant, Thread
<1>2. QED
  BY <1>1 DEF Objects, AllObjects

\* Every step of a call, and every start of one, keeps how far the calls are.
LEMMA ProgressStep == ProgressTypes /\ [Next]_vars => ProgressTypes'
<1> SUFFICES ASSUME ProgressTypes, [Next]_vars PROVE ProgressTypes'
  OBVIOUS
<1> USE DEF ProgressTypes, code, aiVars, genVars
<1>1. ASSUME NEW r \in Requests, NEW step \in CallSteps, GoTo(r, step), UNCHANGED <<polled, run>>,
             answer' = answer \/ \E a \in {"error", "text"} : answer' = [answer EXCEPT ![r] = a]
      PROVE  ProgressTypes'
  BY <1>1 DEF GoTo
<1>2. \A r : GiveUp(r) => GoTo(r, "delete") /\ answer' = [answer EXCEPT ![r] = "error"]
  BY DEF GiveUp
<1>3. {"upload", "assistant", "thread", "run", "poll", "list", "delete", "returned"} \subseteq CallSteps
  BY DEF CallSteps
<1>4. ASSUME \/ Split \/ Join \/ saveProjectContext \/ ReadOverview \/ Cancel
             \/ LoseFiles(Artifacts) \/ UNCHANGED vars
             \/ \E i \in ChunkCalls : ReadChunk(i)
             \/ \E r \in Requests : Delete(r) \/ \E f \in FilesOf[r] : UploadFile(r, f)
      PROVE  ProgressTypes'
  <2>1. UNCHANGED <<pc, answer, polled, run>>
    BY <1>4 DEF Split, Join, saveProjectContext, ReadOverview, Cancel, LoseFiles, vars, ReadChunk,
                Delete, UploadFile
  <2>2. QED
    BY <2>1
<1>5. CASE AskOverview
  <2>1. Call(Overview) \/ UNCHANGED pc
    BY <1>5 DEF AskOverview
  <2>2. UNCHANGED <<answer, polled, run>>
    BY <1>5 DEF AskOverview
  <2>3. QED
    BY <1>1, <1>3, <2>1, <2>2, Calls DEF Call
<1>6. ASSUME NEW i \in ChunkCalls, AskChunk(i) PROVE ProgressTypes'
  <2>1. (Call(i) \/ UNCHANGED pc) /\ UNCHANGED <<answer, polled, run>>
    BY <1>6 DEF AskChunk
  <2>2. QED
    BY <1>1, <1>3, <2>1, Calls DEF Call
<1>7. ASSUME NEW r \in Requests, Collect(r) PROVE ProgressTypes'
  BY <1>1, <1>2, <1>3, <1>7 DEF Collect
<1>8. ASSUME NEW r \in Requests, NewAssistant(r) \/ NewThread(r) PROVE ProgressTypes'
  BY <1>1, <1>2, <1>3, <1>8 DEF NewAssistant, NewThread, Create
<1>9. ASSUME NEW r \in Requests, NewRun(r) PROVE ProgressTypes'
  <2>1. CASE GiveUp(r) /\ UNCHANGED <<run, polled>>
    BY <1>1, <1>2, <1>3, <2>1
  <2>2. CASE /\ run' = [run EXCEPT ![r] = "queued"] /\ polled' = [polled EXCEPT ![r] = "queued"]
             /\ GoTo(r, "poll") /\ UNCHANGED answer
    BY <1>3, <2>2 DEF GoTo, RunStatus
  <2>3. QED
    BY <1>9, <2>1, <2>2 DEF NewRun
<1>10. ASSUME NEW r \in Requests, Poll(r) PROVE ProgressTypes'
  <2>1. CASE GoTo(r, "delete") /\ answer' = [answer EXCEPT ![r] = "error"] /\ UNCHANGED <<run, polled>>
    BY <1>1, <1>3, <2>1
  <2>2. CASE polled' = [polled EXCEPT ![r] = run[r]] /\ UNCHANGED <<pc, answer, run>>
    BY <2>2
  <2>3. QED
    BY <1>10, <2>1, <2>2 DEF Poll, AfterPollError
<1>11. ASSUME NEW r \in Requests, Polled(r) PROVE ProgressTypes'
  BY <1>1, <1>2, <1>3, <1>11 DEF Polled
<1>12. ASSUME NEW r \in Requests, ListMessages(r) PROVE ProgressTypes'
  <2>1. \E a \in {"error", "text"} : answer' = [answer EXCEPT ![r] = a]
    BY <1>12 DEF ListMessages
  <2>2. QED
    BY <1>1, <1>3, <1>12, <2>1 DEF ListMessages
<1>13. ASSUME NEW r \in Requests, Return(r) PROVE ProgressTypes'
  BY <1>1, <1>3, <1>13 DEF Return
<1>14. ASSUME NEW r \in Requests, RunProgress(r) PROVE ProgressTypes'
  <2>1. \E s \in RunStatus : run' = [run EXCEPT ![r] = s]
    BY <1>14 DEF RunProgress, RunStatus
  <2>2. QED
    BY <1>14, <2>1 DEF RunProgress
<1>15. QED
  BY <1>4, <1>5, <1>6, <1>7, <1>8, <1>9, <1>10, <1>11, <1>12, <1>13, <1>14
     DEF Next, GenStep, CallStep, ChunkCalls

\* Every step keeps the types of what the calls have in hand.
LEMMA CallTypesStep == CallTypes /\ [Next]_vars => CallTypes'
<1> SUFFICES ASSUME CallTypes, [Next]_vars PROVE CallTypes'
  OBVIOUS
<1> USE DEF CallTypes, code, aiVars, genVars
<1>1. ProgressTypes'
  BY ProgressStep
<1>2. ASSUME UNCHANGED <<results, deferred, found>> PROVE CallTypes'
  BY <1>1, <1>2
<1>3. ASSUME NEW i \in ChunkCalls, AskChunk(i) \/ ReadChunk(i) PROVE CallTypes'
  <2>1. UNCHANGED <<results, deferred>>
    BY <1>3 DEF AskChunk, ReadChunk
  <2>2. found' = found \/ \E got \in {"error", "ok"} : found' = [found EXCEPT ![i] = got]
    BY <1>3 DEF AskChunk, ReadChunk
  <2>3. found' \in [1..MaxChunks -> {"none", "error", "ok"}]
    BY <2>2 DEF ChunkCalls
  <2>4. QED
    BY <1>1, <2>1, <2>3
<1>4. ASSUME NEW r \in Requests, NEW f \in FilesOf[r], UploadFile(r, f), UNCHANGED genVars
      PROVE  CallTypes'
  <2>1. PICK got \in {"ok", "error"} : results' = [results EXCEPT ![r][f] = got]
    BY <1>4 DEF UploadFile
  <2>2. /\ DOMAIN results' = Requests
        /\ \A s \in Requests : results'[s] \in [FilesOf[s] -> {"none", "ok", "error"}]
    BY <2>1
  <2>3. UNCHANGED <<deferred, found>>
    BY <1>4 DEF UploadFile
  <2>4. QED
    BY <1>1, <2>2, <2>3
<1>5. ASSUME NEW r \in Requests, NEW list \in Seq(SUBSET AllObjects), UNCHANGED <<results, found>>,
             deferred' = [deferred EXCEPT ![r] = list]
      PROVE  CallTypes'
  BY <1>1, <1>5
<1>6. ASSUME NEW r \in Requests, Collect(r), UNCHANGED genVars PROVE CallTypes'
  <2>1. Collected(r) \in SUBSET AllObjects
    BY OwnObjects DEF Collected
  <2>2. <<Collected(r)>> \in Seq(SUBSET AllObjects)
    BY <2>1
  <2>3. deferred' = [deferred EXCEPT ![r] = <<Collected(r)>>] /\ UNCHANGED <<results, found>>
    BY <1>6 DEF Collect
  <2>4. QED
    BY <1>5, <2>2, <2>3
<1>7. ASSUME NEW r \in Requests, NewAssistant(r) \/ NewThread(r), UNCHANGED genVars PROVE CallTypes'
  <2>0. PICK object \in AllObjects : \E step, next : Create(r, step, object, next)
    BY <1>7, OwnObjects DEF NewAssistant, NewThread
  <2>1. PICK step, next : Create(r, step, object, next)
    BY <2>0
  <2>2. deferred[r] \in Seq(SUBSET AllObjects) /\ <<{object}>> \in Seq(SUBSET AllObjects)
    OBVIOUS
  <2>3. <<{object}>> \o deferred[r] \in Seq(SUBSET AllObjects)
    BY <2>2
  <2>4. CASE deferred' = [deferred EXCEPT ![r] = <<{object}>> \o deferred[r]]
    BY <1>5, <1>7, <2>1, <2>3, <2>4 DEF Create
  <2>5. CASE deferred' = deferred
    BY <1>2, <1>7, <2>1, <2>5 DEF Create
  <2>6. QED
    BY <2>1, <2>4, <2>5 DEF Create
<1>8. ASSUME NEW r \in Requests, Delete(r), UNCHANGED genVars PROVE CallTypes'
  <2>1. Tail(deferred[r]) \in Seq(SUBSET AllObjects)
    BY <1>8 DEF Delete
  <2>2. deferred' = [deferred EXCEPT ![r] = Tail(deferred[r])] /\ UNCHANGED <<results, found>>
    BY <1>8 DEF Delete
  <2>3. QED
    BY <1>5, <2>1, <2>2
<1>9. ASSUME NEW r \in Requests, UNCHANGED genVars,
             \/ NewRun(r) \/ Poll(r) \/ Polled(r) \/ ListMessages(r) \/ Return(r) \/ RunProgress(r)
      PROVE  CallTypes'
  BY <1>2, <1>9 DEF NewRun, Poll, Polled, ListMessages, Return, RunProgress
<1>10. ASSUME \/ Split \/ Join \/ AskOverview \/ ReadOverview \/ saveProjectContext \/ UNCHANGED vars
              \/ ((Cancel \/ LoseFiles(Artifacts)) /\ UNCHANGED genVars)
       PROVE  CallTypes'
  BY <1>2, <1>10 DEF Split, Join, AskOverview, ReadOverview, saveProjectContext, vars, Cancel, LoseFiles
<1>11. QED
  BY <1>3, <1>4, <1>6, <1>7, <1>8, <1>9, <1>10 DEF Next, GenStep, CallStep, ChunkCalls

-----------------------------------------------------------------------------
(***************************************************************************)
(* What an answer says.                                                    *)
(***************************************************************************)
\* Call r goes to a step with an answer, a status it has read and one it has.
Moves(r, step, text, seen, status) ==
  \A k \in Requests :
    /\ pc'[k] = IF k = r THEN step ELSE pc[k]
    /\ answer'[k] = IF k = r THEN text ELSE answer[k]
    /\ polled'[k] = IF k = r THEN seen ELSE polled[k]
    /\ run'[k] = IF k = r THEN status ELSE run[k]

\* A call moves and leaves its uploads as they are.
LEMMA WholeFrame ==
  ASSUME WholeInv, NEW r \in Requests, UNCHANGED results,
         NEW step, NEW text, NEW seen, NEW status, Moves(r, step, text, seen, status),
         step \in {"assistant", "thread", "run", "poll", "list"} => AllUploaded(r),
         seen = "completed" => status = "completed",
         step = "list" => seen = "completed",
         text = "text" => AllUploaded(r) /\ status = "completed" /\ step \in {"delete", "returned"}
  PROVE  WholeInv'
<1>1. \A k \in Requests : AllUploaded(k)' = AllUploaded(k)
  BY DEF AllUploaded
<1>2. QED
  BY <1>1 DEF WholeInv, Moves

\* Every step keeps an answer whole.
LEMMA WholeStep == CallTypes /\ WholeInv /\ [Next]_vars => WholeInv'
<1> SUFFICES ASSUME CallTypes, WholeInv, [Next]_vars PROVE WholeInv'
  OBVIOUS
<1> USE DEF code, aiVars, genVars
<1>1. ProgressTypes
  BY DEF CallTypes
<1>2. ASSUME UNCHANGED <<pc, results, polled, run, answer>> PROVE WholeInv'
  BY <1>2 DEF WholeInv, AllUploaded
<1>3. ASSUME NEW r \in Requests, Call(r), UNCHANGED <<results, polled, run, answer>> PROVE WholeInv'
  <2>1. Moves(r, "upload", answer[r], polled[r], run[r]) /\ pc[r] = "off"
    BY <1>1, <1>3 DEF Moves, Call, GoTo, ProgressTypes
  <2>2. answer[r] # "text" /\ (polled[r] = "completed" => run[r] = "completed")
    BY <2>1 DEF WholeInv
  <2>3. QED
    BY <1>3, <2>1, <2>2, WholeFrame
<1>4. ASSUME NEW r \in Requests, NEW f \in FilesOf[r], UploadFile(r, f) PROVE WholeInv'
  <2>1. PICK got : results' = [results EXCEPT ![r][f] = got]
    BY <1>4 DEF UploadFile
  <2>2. UNCHANGED <<pc, polled, run, answer>> /\ results[r][f] = "none"
    BY <1>4 DEF UploadFile
  <2>3. \A s \in Requests : s # r => results'[s] = results[s]
    BY <2>1 DEF CallTypes
  <2>4. ~AllUploaded(r) /\ \A s \in Requests : s # r => (AllUploaded(s) => AllUploaded(s)')
    BY <2>2, <2>3 DEF AllUploaded
  <2>5. QED
    BY <2>2, <2>4 DEF WholeInv
<1>5. ASSUME NEW r \in Requests, Collect(r) PROVE WholeInv'
  <2>1. UploadFailed(r) \/ AllUploaded(r)
    BY <1>5 DEF Collect, UploadsDone, UploadFailed, AllUploaded, CallTypes
  <2>2. UNCHANGED <<results, polled, run>> /\ pc[r] = "upload"
    BY <1>5 DEF Collect
  <2>3. answer[r] # "text" /\ (polled[r] = "completed" => run[r] = "completed")
    BY <2>2 DEF WholeInv
  <2>4. \/ Moves(r, "assistant", answer[r], polled[r], run[r]) /\ AllUploaded(r)
        \/ Moves(r, "delete", "error", polled[r], run[r])
    BY <1>1, <1>5, <2>1 DEF Collect, GiveUp, GoTo, Moves, ProgressTypes
  <2>5. QED
    BY <2>2, <2>3, <2>4, WholeFrame
<1>6. ASSUME NEW r \in Requests, NewAssistant(r) \/ NewThread(r) PROVE WholeInv'
  <2>1. PICK next \in {"thread", "run"} :
          \/ Moves(r, next, answer[r], polled[r], run[r])
          \/ Moves(r, "delete", "error", polled[r], run[r])
    BY <1>1, <1>6 DEF NewAssistant, NewThread, Create, GiveUp, GoTo, Moves, ProgressTypes
  <2>2. UNCHANGED results /\ pc[r] \in {"assistant", "thread"}
    BY <1>6 DEF NewAssistant, NewThread, Create
  <2>3. AllUploaded(r) /\ answer[r] # "text" /\ (polled[r] = "completed" => run[r] = "completed")
    BY <2>2 DEF WholeInv
  <2>4. QED
    BY <2>1, <2>2, <2>3, WholeFrame
<1>7. ASSUME NEW r \in Requests, NewRun(r) PROVE WholeInv'
  <2>1. AllUploaded(r) /\ answer[r] # "text" /\ (polled[r] = "completed" => run[r] = "completed")
    BY <1>7 DEF NewRun, WholeInv
  <2>2. \/ Moves(r, "poll", answer[r], "queued", "queued")
        \/ Moves(r, "delete", "error", polled[r], run[r])
    BY <1>1, <1>7 DEF NewRun, GiveUp, GoTo, Moves, ProgressTypes
  <2>3. UNCHANGED results
    BY <1>7 DEF NewRun
  <2>4. QED
    BY <2>1, <2>2, <2>3, WholeFrame
<1>8. ASSUME NEW r \in Requests, Poll(r) PROVE WholeInv'
  <2>1. AllUploaded(r) /\ answer[r] # "text" /\ (polled[r] = "completed" => run[r] = "completed")
    BY <1>8 DEF Poll, WholeInv
  <2>2. \/ Moves(r, "poll", answer[r], run[r], run[r])
        \/ Moves(r, "delete", "error", polled[r], run[r])
    BY <1>1, <1>8 DEF Poll, AfterPollError, GoTo, Moves, ProgressTypes
  <2>3. UNCHANGED results
    BY <1>8 DEF Poll
  <2>4. QED
    BY <2>1, <2>2, <2>3, WholeFrame
<1>9. ASSUME NEW r \in Requests, Polled(r) PROVE WholeInv'
  <2>1. AllUploaded(r) /\ answer[r] # "text" /\ (polled[r] = "completed" => run[r] = "completed")
    BY <1>9 DEF Polled, WholeInv
  <2>2. \/ Moves(r, "list", answer[r], polled[r], run[r]) /\ polled[r] = "completed"
        \/ Moves(r, "delete", "error", polled[r], run[r])
    BY <1>1, <1>9 DEF Polled, GiveUp, GoTo, Moves, ProgressTypes
  <2>3. UNCHANGED results
    BY <1>9 DEF Polled
  <2>4. QED
    BY <2>1, <2>2, <2>3, WholeFrame
<1>10. ASSUME NEW r \in Requests, ListMessages(r) PROVE WholeInv'
  <2>1. AllUploaded(r) /\ run[r] = "completed"
    BY <1>10 DEF ListMessages, WholeInv
  <2>2. PICK text : Moves(r, "delete", text, polled[r], run[r])
    <3>1. PICK text : answer' = [answer EXCEPT ![r] = text]
      BY <1>10 DEF ListMessages
    <3>2. Moves(r, "delete", text, polled[r], run[r])
      BY <1>1, <1>10, <3>1 DEF ListMessages, GoTo, Moves, ProgressTypes
    <3>3. QED
      BY <3>2
  <2>3. UNCHANGED results
    BY <1>10 DEF ListMessages
  <2>4. QED
    BY <2>1, <2>2, <2>3, WholeFrame
<1>11. ASSUME NEW r \in Requests, Return(r) PROVE WholeInv'
  <2>1. /\ polled[r] = "completed" => run[r] = "completed"
        /\ answer[r] = "text" => AllUploaded(r) /\ run[r] = "completed"
    BY DEF WholeInv
  <2>2. Moves(r, "returned", answer[r], polled[r], run[r])
    BY <1>1, <1>11 DEF Return, GoTo, Moves, ProgressTypes
  <2>3. UNCHANGED results
    BY <1>11 DEF Return
  <2>4. QED
    BY <2>1, <2>2, <2>3, WholeFrame
<1>12. ASSUME NEW r \in Requests, RunProgress(r) PROVE WholeInv'
  <2>1. run[r] # "completed" /\ pc[r] = "poll"
    BY <1>12 DEF RunProgress
  <2>2. AllUploaded(r) /\ answer[r] # "text" /\ polled[r] # "completed"
    BY <2>1 DEF WholeInv
  <2>3. PICK status : run' = [run EXCEPT ![r] = status]
    BY <1>12 DEF RunProgress
  <2>4. Moves(r, "poll", answer[r], polled[r], status)
    BY <1>1, <1>12, <2>1, <2>3 DEF RunProgress, Moves, ProgressTypes
  <2>5. UNCHANGED results
    BY <1>12 DEF RunProgress
  <2>6. QED
    BY <2>2, <2>4, <2>5, WholeFrame
<1>13. QED
  <2>1. ASSUME NEW r \in Requests, Delete(r) PROVE WholeInv'
    BY <1>2, <2>1 DEF Delete
  <2>2. ASSUME \/ Split \/ Join \/ saveProjectContext \/ ReadOverview \/ Cancel
               \/ LoseFiles(Artifacts) \/ UNCHANGED vars
        PROVE  WholeInv'
    BY <1>2, <2>2 DEF Split, Join, saveProjectContext, ReadOverview, Cancel, LoseFiles, vars
  <2>3. CASE AskOverview
    BY <1>2, <1>3, <2>3, Calls DEF AskOverview
  <2>4. ASSUME NEW i \in ChunkCalls, AskChunk(i) PROVE WholeInv'
    BY <1>2, <1>3, <2>4, Calls DEF AskChunk
  <2>5. ASSUME NEW i \in ChunkCalls, ReadChunk(i) PROVE WholeInv'
    BY <1>2, <2>5 DEF ReadChunk
  <2>6. QED
    BY <1>4, <1>5, <1>6, <1>7, <1>8, <1>9, <1>10, <1>11, <1>12, <2>1, <2>2, <2>3, <2>4, <2>5
       DEF Next, GenStep, CallStep, ChunkCalls

-----------------------------------------------------------------------------
(***************************************************************************)
(* What a call leaves at the provider.                                     *)
(***************************************************************************)
\* An object stays covered until the deletion that covers it has run.
LEMMA Deletions ==
  /\ \A set, object : object \in set => Covers(<<set>>, object)
  /\ \A S : \A list \in Seq(S) : \A set, object :
       /\ object \in set \/ Covers(list, object) => Covers(<<set>> \o list, object)
       /\ list # <<>> /\ Covers(list, object) /\ object \notin Head(list) => Covers(Tail(list), object)
<1>1. \A set, object : object \in set => Covers(<<set>>, object)
  <2> SUFFICES ASSUME NEW set, NEW object \in set PROVE Covers(<<set>>, object)
    OBVIOUS
  <2>1. 1 \in DOMAIN <<set>> /\ <<set>>[1] = set
    OBVIOUS
  <2>2. QED
    BY <2>1 DEF Covers
<1>2. ASSUME NEW S, NEW list \in Seq(S), NEW set, NEW object, object \in set \/ Covers(list, object)
      PROVE  Covers(<<set>> \o list, object)
  <2>1. 1 \in DOMAIN (<<set>> \o list) /\ (<<set>> \o list)[1] = set
    OBVIOUS
  <2>2. \A i \in DOMAIN list : i + 1 \in DOMAIN (<<set>> \o list) /\ (<<set>> \o list)[i + 1] = list[i]
    OBVIOUS
  <2>3. QED
    BY <1>2, <2>1, <2>2 DEF Covers
<1>3. ASSUME NEW S, NEW list \in Seq(S), NEW object, list # <<>>, Covers(list, object),
             object \notin Head(list)
      PROVE  Covers(Tail(list), object)
  <2>1. PICK i \in DOMAIN list : object \in list[i]
    BY <1>3 DEF Covers
  <2>2. i # 1
    BY <1>3, <2>1
  <2>3. i - 1 \in DOMAIN Tail(list) /\ Tail(list)[i - 1] = list[i]
    BY <1>3, <2>1, <2>2
  <2>4. QED
    BY <2>1, <2>3 DEF Covers
<1>4. QED
  BY <1>1, <1>2, <1>3

\* What one call does leaves the account of the others as it is.
LEMMA CleanOthers ==
  ASSUME CleanInv, NEW r \in Requests, Clean(r)',
         \A s \in Requests \ {r} :
           /\ pc'[s] = pc[s] /\ results'[s] = results[s] /\ deferred'[s] = deferred[s]
           /\ created' \cap Objects(s) \subseteq created
  PROVE  CleanInv'
BY DEF CleanInv, Clean

\* Every step keeps the account of what the calls have created.
LEMMA CleanStep == CallTypes /\ CleanInv /\ [Next]_vars => CleanInv'
<1> SUFFICES ASSUME CallTypes, CleanInv, [Next]_vars PROVE CleanInv'
  OBVIOUS
<1> USE DEF code, aiVars, genVars
<1>1. pc \in [Requests -> CallSteps] /\ deferred \in [Requests -> Seq(SUBSET AllObjects)]
  BY DEF CallTypes, ProgressTypes
<1>2. ASSUME UNCHANGED <<pc, results, deferred, created>> PROVE CleanInv'
  BY <1>2 DEF CleanInv, Clean
<1>3. ASSUME NEW r \in Requests, NEW step, pc' = [pc EXCEPT ![r] = step], UNCHANGED <<results, deferred, created>>,
             pc[r] \in {"off", "upload"} <=> step \in {"off", "upload"},
             step = "returned" => deferred[r] = <<>>
      PROVE  CleanInv'
  <2>1. \A s \in Requests : pc'[s] = IF s = r THEN step ELSE pc[s]
    BY <1>1, <1>3
  <2>2. Clean(r)
    BY DEF CleanInv
  <2>3. Clean(r)'
    BY <1>3, <2>1, <2>2 DEF Clean
  <2>4. QED
    BY <1>3, <2>1, <2>3, CleanOthers
<1>4. ASSUME NEW r \in Requests, NEW f \in FilesOf[r], UploadFile(r, f) PROVE CleanInv'
  <2>1. PICK got \in {"ok", "error"} :
          /\ results' = [results EXCEPT ![r][f] = got]
          /\ got = "ok" => created' = created \cup {File(r, f)}
          /\ got # "ok" => created' = created
    BY <1>4 DEF UploadFile
  <2>2. UNCHANGED <<pc, deferred>> /\ results[r][f] = "none"
    BY <1>4 DEF UploadFile
  <2>3. /\ \A s \in Requests \ {r} : results'[s] = results[s]
        /\ \A g \in FilesOf[r] : results'[r][g] = IF g = f THEN got ELSE results[r][g]
    BY <2>1 DEF CallTypes
  <2>4. Clean(r)
    BY DEF CleanInv
  <2>5. pc[r] \in {"off", "upload"}
    BY <2>2, <2>4 DEF Clean
  <2>6. Clean(r)'
    BY <2>1, <2>2, <2>3, <2>4, <2>5 DEF Clean
  <2>7. \A s \in Requests \ {r} : File(r, f) \notin Objects(s)
    BY OwnObjects
  <2>8. QED
    BY <2>1, <2>2, <2>3, <2>6, <2>7, CleanOthers
<1>5. ASSUME NEW r \in Requests, Collect(r) PROVE CleanInv'
  <2>1. PICK step \in {"delete", "assistant"} : pc' = [pc EXCEPT ![r] = step]
    BY <1>5 DEF Collect, GiveUp, GoTo
  <2>2. /\ pc[r] = "upload" /\ deferred' = [deferred EXCEPT ![r] = <<Collected(r)>>]
        /\ UNCHANGED <<results, created>> /\ \A f \in FilesOf[r] : results[r][f] # "none"
    BY <1>5 DEF Collect, UploadsDone
  <2>3. /\ \A s \in Requests \ {r} : pc'[s] = pc[s] /\ deferred'[s] = deferred[s]
        /\ pc'[r] = step /\ deferred'[r] = <<Collected(r)>>
    BY <1>1, <2>1, <2>2
  <2>4. \A object \in created \cap Objects(r) : object \in Collected(r)
    BY <2>2 DEF CleanInv, Clean, Collected
  <2>5. Clean(r)'
    BY <2>2, <2>3, <2>4, Deletions DEF Clean
  <2>6. QED
    BY <2>2, <2>3, <2>5, CleanOthers
<1>6. ASSUME NEW r \in Requests, NewAssistant(r) \/ NewThread(r) PROVE CleanInv'
  <2>1. PICK object \in Objects(r), next \in {"thread", "run"} :
          /\ \/ /\ created' = created \cup {object} /\ deferred' = [deferred EXCEPT ![r] = <<{object}>> \o @]
                /\ pc' = [pc EXCEPT ![r] = next]
             \/ UNCHANGED <<created, deferred>> /\ pc' = [pc EXCEPT ![r] = "delete"]
          /\ UNCHANGED results /\ pc[r] \in {"assistant", "thread"}
    BY <1>6, OwnObjects DEF NewAssistant, NewThread, Create, GiveUp, GoTo
  <2>2. CASE UNCHANGED <<created, deferred>>
    BY <1>3, <2>1, <2>2
  <2>3. CASE /\ created' = created \cup {object} /\ deferred' = [deferred EXCEPT ![r] = <<{object}>> \o @]
             /\ pc' = [pc EXCEPT ![r] = next]
    <3>1. /\ \A s \in Requests \ {r} : pc'[s] = pc[s] /\ deferred'[s] = deferred[s]
          /\ pc'[r] = next /\ deferred'[r] = <<{object}>> \o deferred[r]
      BY <1>1, <2>1, <2>3
    <3>2. \A o \in created \cap Objects(r) : Covers(deferred[r], o)
      BY <2>1 DEF CleanInv, Clean
    <3>3. \A o \in created' \cap Objects(r) : Covers(deferred'[r], o)
      <4> SUFFICES ASSUME NEW o \in created' \cap Objects(r) PROVE Covers(<<{object}>> \o deferred[r], o)
        BY <3>1
      <4>1. o \in {object} \/ Covers(deferred[r], o)
        BY <2>3, <3>2
      <4>2. deferred[r] \in Seq(SUBSET AllObjects)
        BY <1>1
      <4>3. QED
        BY <4>1, <4>2, Deletions
    <3>4. Clean(r)'
      BY <2>1, <3>1, <3>3 DEF CleanInv, Clean
    <3>5. \A s \in Requests \ {r} : object \notin Objects(s)
      BY OwnObjects
    <3>6. QED
      BY <2>1, <2>3, <3>1, <3>4, <3>5, CleanOthers
  <2>4. QED
    BY <2>1, <2>2, <2>3
<1>7. ASSUME NEW r \in Requests, NewRun(r) \/ Poll(r) \/ Polled(r) \/ ListMessages(r) PROVE CleanInv'
  <2>1. /\ pc[r] \in {"run", "poll", "list"} /\ UNCHANGED <<results, deferred, created>>
        /\ pc' = pc \/ \E step \in {"poll", "list", "delete"} : pc' = [pc EXCEPT ![r] = step]
    BY <1>7 DEF NewRun, Poll, Polled, ListMessages, GiveUp, AfterPollError, GoTo
  <2>2. QED
    BY <1>2, <1>3, <2>1
<1>8. ASSUME NEW r \in Requests, Return(r) PROVE CleanInv'
  BY <1>3, <1>8 DEF Return, GoTo
<1>9. ASSUME NEW r \in Requests, Delete(r) PROVE CleanInv'
  <2>1. /\ pc[r] = "delete" /\ deferred[r] # <<>> /\ UNCHANGED <<pc, results>>
        /\ created' = created \ Head(deferred[r]) /\ deferred' = [deferred EXCEPT ![r] = Tail(@)]
    BY <1>9 DEF Delete
  <2>2. /\ \A s \in Requests \ {r} : deferred'[s] = deferred[s]
        /\ deferred'[r] = Tail(deferred[r])
    BY <1>1, <2>1
  <2>3. \A object \in created' \cap Objects(r) : Covers(deferred'[r], object)
    <3> SUFFICES ASSUME NEW object \in created' \cap Objects(r) PROVE Covers(Tail(deferred[r]), object)
      BY <2>2
    <3>1. object \notin Head(deferred[r]) /\ Covers(deferred[r], object)
      BY <2>1 DEF CleanInv, Clean
    <3>2. deferred[r] \in Seq(SUBSET AllObjects)
      BY <1>1
    <3>3. QED
      BY <2>1, <3>1, <3>2, Deletions
  <2>4. Clean(r)'
    BY <2>1, <2>3 DEF CleanInv, Clean
  <2>5. QED
    BY <2>1, <2>2, <2>4, CleanOthers
<1>10. ASSUME \/ Split \/ Join \/ saveProjectContext \/ ReadOverview \/ Cancel
              \/ LoseFiles(Artifacts) \/ UNCHANGED vars
              \/ \E i \in ChunkCalls : ReadChunk(i)
              \/ \E r \in Requests : RunProgress(r)
       PROVE  CleanInv'
  BY <1>2, <1>10 DEF Split, Join, saveProjectContext, ReadOverview, Cancel, LoseFiles, vars,
                     ReadChunk, RunProgress
<1>11. ASSUME NEW r \in Requests, Call(r), UNCHANGED <<results, deferred, created>> PROVE CleanInv'
  BY <1>3, <1>11 DEF Call, GoTo
<1>12. CASE AskOverview
  BY <1>2, <1>11, <1>12, Calls DEF AskOverview
<1>13. ASSUME NEW i \in ChunkCalls, AskChunk(i) PROVE CleanInv'
  BY <1>2, <1>11, <1>13, Calls DEF AskChunk
<1>14. QED
  BY <1>4, <1>5, <1>6, <1>7, <1>8, <1>9, <1>10, <1>12, <1>13
     DEF Next, GenStep, CallStep, ChunkCalls

-----------------------------------------------------------------------------
(***************************************************************************)
(* What a generation leaves on the disk.                                   *)
(***************************************************************************)
\* The files of a call that its reader removes.
LEMMA RemovedFiles ==
  /\ \A i \in ChunkCalls : Removed(i) = {ChunkFile(i)} \ Artifacts
  /\ Removed(Overview) = Temporary
BY Calls DEF Removed

\* A call under way neither starts nor is read, and writes no file.
LEMMA CallFrame ==
  ASSUME CallTypes, NEW r \in Requests, CallStep(r)
  PROVE  /\ UNCHANGED disk
         /\ \A s \in Requests :
              /\ pc'[s] = "off" <=> pc[s] = "off"
              /\ pc[s] = "returned" => pc'[s] = "returned"
              /\ \A f \in FilesOf[s] : results'[s][f] = "none" => results[s][f] = "none"
<1>1. pc \in [Requests -> CallSteps]
  BY DEF CallTypes, ProgressTypes
<1>2. CASE \E f \in FilesOf[r] : UploadFile(r, f)
  <2>1. PICK f \in FilesOf[r], got \in {"ok", "error"} : results' = [results EXCEPT ![r][f] = got]
    BY <1>2 DEF UploadFile
  <2>2. UNCHANGED <<disk, pc>>
    BY <1>2 DEF UploadFile
  <2>3. \A s \in Requests : \A g \in FilesOf[s] : results'[s][g] = "none" => results[s][g] = "none"
    BY <2>1 DEF CallTypes
  <2>4. QED
    BY <2>2, <2>3
<1>3. CASE ~\E f \in FilesOf[r] : UploadFile(r, f)
  <2>1. UNCHANGED <<disk, results>>
    BY <1>3 DEF CallStep, Collect, NewAssistant, NewThread, Create, NewRun, Poll, Polled,
                ListMessages, Delete, Return
  <2>2. pc' = pc \/ /\ pc[r] \notin {"off", "returned"}
                    /\ \E step \in CallSteps \ {"off"} : pc' = [pc EXCEPT ![r] = step]
    BY <1>3 DEF CallStep, Collect, NewAssistant, NewThread, Create, NewRun, Poll, Polled,
                ListMessages, Delete, Return, GiveUp, GoTo, AfterPollError, CallSteps
  <2>3. QED
    BY <1>1, <2>1, <2>2
<1>4. QED
  BY <1>2, <1>3

\* A step that leaves the generation and the starts of its calls alone.
LEMMA StageFrame ==
  ASSUME StageInv, FilesInv, UNCHANGED genVars,
         \A s \in Requests :
           /\ pc'[s] = "off" <=> pc[s] = "off"
           /\ pc[s] = "returned" => pc'[s] = "returned"
           /\ \A f \in FilesOf[s] : results'[s][f] = "none" => results[s][f] = "none",
         disk' = disk \/ disk' = disk \ Artifacts
  PROVE  StageInv' /\ FilesInv'
<1> USE Calls DEF genVars
<1>1. StageInv'
  BY DEF StageInv, Spawned
<1>2. FilesInv'
  BY DEF FilesInv
<1>3. QED
  BY <1>1, <1>2

\* A step of the generation in which no call is started or read.
LEMMA StageMoves ==
  ASSUME StageInv, FilesInv, UNCHANGED <<pc, results, disk, found>>,
         \/ gen = "split" /\ gen' = "chunks"
         \/ /\ gen = "chunks" /\ gen' \in {"failed", "overview"} /\ \A i \in Spawned : found[i] # "none"
            /\ UNCHANGED chunks
         \/ /\ gen \notin {"split", "chunks", "asked"} /\ gen' \notin {"split", "chunks", "asked", "overview"}
            /\ UNCHANGED chunks
  PROVE  StageInv' /\ FilesInv'
<1>1. StageInv'
  <2>1. \A i \in ChunkCalls :
          /\ pc'[i] # "off" => (i \in Spawned)' /\ gen' # "split"
          /\ gen' \notin {"split", "chunks"} /\ (i \in Spawned)' => found'[i] # "none"
    BY DEF StageInv, Spawned
  <2>2. \A i \in ChunkCalls : found'[i] # "none" => pc'[i] \in {"off", "returned"}
    BY DEF StageInv
  <2>3. pc'[Overview] # "off" => gen' \notin {"split", "chunks", "overview"}
    BY DEF StageInv
  <2>4. gen # "asked"
    OBVIOUS
  <2>5. QED
    BY <2>1, <2>2, <2>3, <2>4 DEF StageInv
<1>2. FilesInv'
  BY DEF FilesInv
<1>3. QED
  BY <1>1, <1>2

\* Every step keeps the stage and the files.
LEMMA StageStep ==
  CallTypes /\ CleanInv /\ StageInv /\ FilesInv /\ [Next]_vars => StageInv' /\ FilesInv'
<1> SUFFICES ASSUME CallTypes, CleanInv, StageInv, FilesInv, [Next]_vars
             PROVE  StageInv' /\ FilesInv'
  OBVIOUS
<1>1. pc \in [Requests -> CallSteps] /\ found \in [ChunkCalls -> {"none", "error", "ok"}]
  BY DEF CallTypes, ProgressTypes, ChunkCalls
<1>2. CASE Split \/ Join
  BY <1>2, StageMoves DEF Split, Join, aiVars, code
<1>3. CASE saveProjectContext
  BY <1>3, StageMoves DEF saveProjectContext, code
<1>4. ASSUME NEW i \in ChunkCalls, AskChunk(i) PROVE StageInv' /\ FilesInv'
  <2> USE Calls
  <2>1. /\ gen = "chunks" /\ i \in Spawned /\ found[i] = "none" /\ pc[i] = "off"
        /\ UNCHANGED <<results, gen, chunks>>
    BY <1>4 DEF AskChunk
  <2>2. CASE Call(i) /\ disk' = disk \cup {ChunkFile(i)} /\ UNCHANGED found
    <3>1. \A s \in Requests : pc'[s] = IF s = i THEN "upload" ELSE pc[s]
      BY <1>1, <2>2 DEF Call, GoTo
    <3>2. StageInv'
      BY <2>1, <2>2, <3>1 DEF StageInv, Spawned
    <3>3. FilesInv'
      BY <2>1, <2>2, <3>1 DEF FilesInv
    <3>4. QED
      BY <3>2, <3>3
  <2>3. CASE found' = [found EXCEPT ![i] = "error"] /\ UNCHANGED <<pc, disk>>
    <3>1. \A k \in ChunkCalls : found'[k] = IF k = i THEN "error" ELSE found[k]
      BY <1>1, <2>3
    <3>2. StageInv'
      BY <2>1, <2>3, <3>1 DEF StageInv, Spawned
    <3>3. FilesInv'
      BY <2>1, <2>3 DEF FilesInv
    <3>4. QED
      BY <3>2, <3>3
  <2>4. QED
    BY <1>4, <2>2, <2>3 DEF AskChunk
<1>5. ASSUME NEW i \in ChunkCalls, ReadChunk(i) PROVE StageInv' /\ FilesInv'
  <2> USE Calls
  <2>1. /\ gen = "chunks" /\ i \in Spawned /\ found[i] = "none" /\ pc[i] = "returned"
        /\ UNCHANGED <<pc, results, gen, chunks>>
    BY <1>5 DEF ReadChunk, code
  <2>2. disk' = disk \ ({ChunkFile(i)} \ Artifacts)
    BY <1>5, RemovedFiles DEF ReadChunk
  <2>3. PICK got \in {"error", "ok"} : found' = [found EXCEPT ![i] = got]
    BY <1>5 DEF ReadChunk
  <2>4. \A k \in ChunkCalls : found'[k] = IF k = i THEN got ELSE found[k]
    BY <1>1, <2>3
  <2>5. StageInv'
    <3>1. \A k \in ChunkCalls :
            /\ pc'[k] # "off" => (k \in Spawned)' /\ gen' # "split"
            /\ found'[k] # "none" => pc'[k] \in {"off", "returned"}
            /\ gen' \notin {"split", "chunks"} /\ (k \in Spawned)' => found'[k] # "none"
      BY <2>1, <2>4 DEF StageInv, Spawned
    <3>2. pc'[Overview] # "off" => gen' \notin {"split", "chunks", "overview"}
      BY <2>1 DEF StageInv
    <3>3. disk' \subseteq Artifacts \cup {ChunkFile(k) : k \in {l \in ChunkCalls : pc'[l] # "off" /\ found'[l] = "none"}}
      BY <2>1, <2>2, <2>4 DEF StageInv
    <3>4. QED
      BY <3>1, <3>2, <3>3 DEF StageInv
  <2>6. FilesInv'
    <3> SUFFICES ASSUME NEW r \in Requests, NEW f \in FilesOf[r] \ Artifacts,
                        pc[r] # "off", results[r][f] = "none"
                 PROVE  f \in disk'
      BY <2>1 DEF FilesInv
    <3>1. r \in ChunkCalls
      BY <2>1 DEF StageInv
    <3>2. r # i
      BY <2>1 DEF CleanInv, Clean
    <3>3. f # ChunkFile(i)
      BY <3>1, <3>2 DEF ChunkFile
    <3>4. QED
      BY <2>2, <3>3 DEF FilesInv
  <2>7. QED
    BY <2>5, <2>6
<1>6. CASE AskOverview
  <2> USE Calls
  <2>1. gen = "overview" /\ UNCHANGED <<results, found, chunks>>
    BY <1>6 DEF AskOverview
  <2>2. CASE Call(Overview) /\ disk' = disk \cup Temporary /\ gen' = "asked"
    <3>1. \A s \in Requests : pc'[s] = IF s = Overview THEN "upload" ELSE pc[s]
      BY <1>1, <2>2 DEF Call, GoTo
    <3>2. StageInv'
      BY <2>1, <2>2, <3>1 DEF StageInv, Spawned
    <3>3. FilesInv'
      BY <2>1, <2>2, <3>1 DEF FilesInv
    <3>4. QED
      BY <3>2, <3>3
  <2>3. CASE gen' = "failed" /\ UNCHANGED <<pc, disk>>
    BY <2>1, <2>3, StageMoves
  <2>4. QED
    BY <1>6, <2>2, <2>3 DEF AskOverview
<1>7. CASE ReadOverview
  <2> USE Calls
  <2>1. /\ gen = "asked" /\ pc[Overview] = "returned" /\ gen' \in {"failed", "save"}
        /\ disk' = disk \ Temporary /\ UNCHANGED <<pc, results, found, chunks>>
    BY <1>7, RemovedFiles DEF ReadOverview, code
  <2>2. StageInv'
    BY <2>1 DEF StageInv, Spawned
  <2>3. FilesInv'
    <3> SUFFICES ASSUME NEW r \in Requests, NEW f \in FilesOf[r] \ Artifacts,
                        pc[r] # "off", results[r][f] = "none"
                 PROVE  FALSE
      BY <2>1 DEF FilesInv
    <3>1. pc[r] # "returned"
      BY DEF CleanInv, Clean
    <3>2. r \in ChunkCalls
      BY <2>1, <3>1
    <3>3. QED
      BY <2>1, <3>1, <3>2 DEF StageInv
  <2>4. QED
    BY <2>2, <2>3
<1>8. ASSUME NEW r \in Requests, CallStep(r), UNCHANGED genVars PROVE StageInv' /\ FilesInv'
  BY <1>8, CallFrame, StageFrame
<1>9. ASSUME NEW r \in Requests, RunProgress(r), UNCHANGED genVars PROVE StageInv' /\ FilesInv'
  BY <1>9, StageFrame DEF RunProgress, code
<1>10. ASSUME Cancel \/ LoseFiles(Artifacts), UNCHANGED genVars PROVE StageInv' /\ FilesInv'
  BY <1>10, StageFrame DEF Cancel, LoseFiles, code
<1>11. CASE UNCHANGED vars
  BY <1>11, StageFrame DEF vars, aiVars, code
<1>12. QED
  BY <1>2, <1>3, <1>4, <1>5, <1>6, <1>7, <1>8, <1>9, <1>10, <1>11 DEF Next, GenStep, ChunkCalls

-----------------------------------------------------------------------------
(***************************************************************************)
(* The theorems.                                                           *)
(***************************************************************************)
\* The invariant holds in every state of a generation.
LEMMA GenerationInvariant == Spec => []GenerationInv
<1>1. Init => GenerationInv
  <2> SUFFICES ASSUME Init PROVE GenerationInv
    OBVIOUS
  <2> USE DEF Init, AiInit
  <2>1. CallTypes
    BY DEF CallTypes, ProgressTypes, CallSteps
  <2>2. WholeInv /\ CleanInv
    BY DEF WholeInv, CleanInv, Clean
  <2>3. StageInv /\ FilesInv
    BY Calls DEF StageInv, FilesInv, ChunkCalls
  <2>4. QED
    BY <2>1, <2>2, <2>3 DEF GenerationInv
<1>2. GenerationInv /\ [Next]_vars => GenerationInv'
  BY CallTypesStep, WholeStep, CleanStep, StageStep DEF GenerationInv
<1>3. QED
  BY <1>1, <1>2, PTL DEF Spec

\* An answer with a text comes from a run that was seen completed and was given
\* every file, whatever fails and whenever the context is cancelled.
THEOREM AnswerCorrect == Spec => []AnswerIsWhole
<1>1. GenerationInv => AnswerIsWhole
  BY DEF GenerationInv, WholeInv, AllUploaded, AnswerIsWhole
<1>2. QED
  BY <1>1, GenerationInvariant, PTL

\* On every return path a call has asked for the deletion of all that it created.
THEOREM NothingLeftCorrect == Spec => []NothingLeftBehind
<1>1. GenerationInv => NothingLeftBehind
  BY DEF GenerationInv, CleanInv, Clean, Covers, NothingLeftBehind
<1>2. QED
  BY <1>1, GenerationInvariant, PTL

\* A temporary file is there until its upload has been made, and none is left
\* when the generation is over, on any path.
THEOREM TemporaryFilesCorrect == Spec => []TemporaryFiles
<1>1. GenerationInv => TemporaryFiles
  <2> SUFFICES ASSUME GenerationInv PROVE TemporaryFiles
    OBVIOUS
  <2>1. gen \in Ended => \A i \in ChunkCalls : pc[i] # "off" => found[i] # "none"
    BY DEF GenerationInv, StageInv, Ended
  <2>2. gen \in Ended => disk \subseteq Artifacts
    BY <2>1 DEF GenerationInv, StageInv, Ended
  <2>3. QED
    BY <2>2 DEF GenerationInv, FilesInv, TemporaryFiles
<1>2. QED
  BY <1>1, GenerationInvariant, PTL

-----------------------------------------------------------------------------
(***************************************************************************)
(* Induction and recursion over numbers, with a set in the place of a      *)
(* predicate and a function in the place of an operator.                   *)
(***************************************************************************)
\* A set that has 0, and with a number below N the next one, has all to N.
LEMMA Induction ==
  ASSUME NEW S, NEW N \in Nat, 0 \in S, \A n \in 0..N - 1 : n \in S => n + 1 \in S
  PROVE  \A n \in 0..N : n \in S
<1> DEFINE T == (0..N) \ S
<1> SUFFICES ASSUME T # {} PROVE FALSE
  OBVIOUS
<1>1. T \subseteq Nat
  OBVIOUS
<1>2. PICK m \in T : \A n \in T : <<n, m>> \notin OpToRel(<, Nat)
  BY <1>1, WFMin, NatLessThanWellFounded, Zenon
<1>3. \A n \in T : ~(n < m)
  BY <1>1, <1>2 DEF OpToRel
<1>4. m - 1 \in 0..N - 1
  OBVIOUS
<1>5. m - 1 \in S
  BY <1>3, <1>4
<1>6. QED
  BY <1>4, <1>5

\* A function that takes its values from one another, each from the last.
Follows(u, S, base, N, next) ==
  u \in [0..N -> S] /\ u[0] = base /\ \A n \in 1..N : u[n] = next[n][u[n - 1]]

NextFunctions(S, N) == [1..N -> [S -> S]]

\* There is one, whatever the first value and the way to the next.
LEMMA Recursion ==
  ASSUME NEW S, NEW base \in S, NEW N \in Nat, NEW next \in NextFunctions(S, N)
  PROVE  \E u : Follows(u, S, base, N, next)
<1> USE DEF Follows, NextFunctions
<1> DEFINE K == {k \in 0..N : \E u \in [0..k -> S] :
                   u[0] = base /\ \A n \in 1..k : u[n] = next[n][u[n - 1]]}
<1>1. 0 \in K
  <2> DEFINE u == [n \in 0..0 |-> base]
  <2>1. u \in [0..0 -> S] /\ u[0] = base /\ \A n \in 1..0 : u[n] = next[n][u[n - 1]]
    OBVIOUS
  <2> HIDE DEF u
  <2>2. QED
    BY <2>1
<1>2. ASSUME NEW k \in 0..N - 1, k \in K PROVE k + 1 \in K
  <2>1. PICK u \in [0..k -> S] : u[0] = base /\ \A n \in 1..k : u[n] = next[n][u[n - 1]]
    BY <1>2
  <2> DEFINE v == [n \in 0..k + 1 |-> IF n = k + 1 THEN next[k + 1][u[k]] ELSE u[n]]
  <2>2. k \in 0..k /\ k + 1 \in 1..N /\ k + 1 \in 0..N
    OBVIOUS
  <2>3. v \in [0..k + 1 -> S]
    BY <2>2
  <2>4. v[0] = base
    BY <2>1
  <2>5. ASSUME NEW n \in 1..k + 1 PROVE v[n] = next[n][v[n - 1]]
    <3>1. CASE n = k + 1
      BY <3>1
    <3>2. CASE n # k + 1
      <4>1. n \in 1..k /\ n - 1 \in 0..k + 1 /\ n - 1 # k + 1 /\ n \in 0..k + 1
        BY <3>2
      <4>2. QED
        BY <2>1, <3>2, <4>1
    <3>3. QED
      BY <3>1, <3>2
  <2> HIDE DEF v
  <2>6. QED
    BY <2>2, <2>3, <2>4, <2>5
<1>3. N \in K
  <2>1. N \in 0..N
    OBVIOUS
  <2> HIDE DEF K
  <2>2. QED
    BY <1>1, <1>2, <2>1, Induction, Zenon
<1>4. QED
  BY <1>3


\* Two functions that take their values alike from the value before.
LEMMA Alike ==
  ASSUME NEW N \in Nat, NEW u, NEW v, u[0] = v[0],
         \A n \in 1..N : u[n - 1] = v[n - 1] => u[n] = v[n]
  PROVE  u[N] = v[N]
<1> DEFINE K == {n \in 0..N : u[n] = v[n]}
<1>1. 0 \in K
  OBVIOUS
<1>2. ASSUME NEW n \in 0..N - 1, n \in K PROVE n + 1 \in K
  <2>1. n + 1 \in 1..N /\ (n + 1) - 1 = n
    OBVIOUS
  <2>2. u[n + 1] = v[n + 1]
    BY <1>2, <2>1
  <2>3. QED
    BY <2>1, <2>2
<1>3. N \in 0..N
  OBVIOUS
<1>4. N \in K
  <2> HIDE DEF K
  <2> QED
    BY <1>1, <1>2, <1>3, Induction, Zenon
<1>5. QED
  BY <1>4

-----------------------------------------------------------------------------
(***************************************************************************)
(* The nodes of modules.                                                   *)
(***************************************************************************)
\* The partial sums of the sizes of a sequence of modules.
SumsUp(u, size, modules) ==
  u[0] = 0 /\ \A k \in 1..Len(modules) : u[k] = u[k - 1] + size[modules[k]]

\* Such sums exist, and all are numbers.
LEMMA SumsExist ==
  ASSUME NEW D, NEW size \in [D -> Nat], NEW modules \in Seq(D)
  PROVE  \E u \in [0..Len(modules) -> Nat] : SumsUp(u, size, modules)
<1> DEFINE N == Len(modules)
           S == Nat
           next == [k \in 1..N |-> [x \in S |-> x + size[modules[k]]]]
<1>1. N \in Nat /\ \A k \in 1..N : modules[k] \in D
  OBVIOUS
<1>2. next \in NextFunctions(S, N) /\ 0 \in S
  BY <1>1 DEF NextFunctions
<1>3. ASSUME NEW k \in 1..N, NEW x \in S PROVE next[k][x] = x + size[modules[k]]
  OBVIOUS
<1>4. PICK u : Follows(u, S, 0, N, next)
  <2> HIDE DEF next, N, S
  <2> QED
    BY <1>1, <1>2, Recursion, Zenon
<1> HIDE DEF next
<1>5. ASSUME NEW k \in 1..N PROVE u[k] = u[k - 1] + size[modules[k]]
  <2>1. k - 1 \in 0..N
    BY <1>1
  <2>2. QED
    BY <1>3, <1>4, <2>1 DEF Follows
<1>6. QED
  BY <1>4, <1>5 DEF SumsUp, Follows

\* The number of nodes is the last of the partial sums.
LEMMA NodesAre ==
  ASSUME NEW D, NEW size \in [D -> Nat], NEW modules \in Seq(D), NEW u, SumsUp(u, size, modules)
  PROVE  Nodes(size, modules) = u[Len(modules)]
<1> DEFINE N == Len(modules)
           Solves(v) == v = [k \in 0..N |-> IF k = 0 THEN 0 ELSE v[k - 1] + size[modules[k]]]
           sum == CHOOSE v : Solves(v)
<1>1. N \in Nat
  OBVIOUS
<1>2. \E v : Solves(v)
  <2>1. PICK w \in [0..N -> Nat] : SumsUp(w, size, modules)
    BY SumsExist
  <2>2. w = [k \in 0..N |-> w[k]]
    OBVIOUS
  <2>3. \A k \in 0..N : w[k] = IF k = 0 THEN 0 ELSE w[k - 1] + size[modules[k]]
    BY <1>1, <2>1 DEF SumsUp
  <2>4. Solves(w)
    BY <2>2, <2>3
  <2>5. QED
    BY <2>4
<1>3. Solves(sum)
  <2> HIDE DEF Solves
  <2> QED
    BY <1>2
<1>4. \A k \in 0..N : sum[k] = IF k = 0 THEN 0 ELSE sum[k - 1] + size[modules[k]]
  <2> HIDE DEF sum
  <2> QED
    BY <1>3
<1>5. Nodes(size, modules) = sum[N]
  BY DEF Nodes
<1> HIDE DEF sum
<1>6. sum[0] = u[0]
  BY <1>1, <1>4 DEF SumsUp
<1>7. ASSUME NEW k \in 1..N, sum[k - 1] = u[k - 1] PROVE sum[k] = u[k]
  BY <1>1, <1>4, <1>7 DEF SumsUp
<1>8. QED
  BY <1>1, <1>5, <1>6, <1>7, Alike

\* It is a number, and grows module by module.
LEMMA NodesOf ==
  ASSUME NEW D, NEW size \in [D -> Nat]
  PROVE  /\ Nodes(size, <<>>) = 0
         /\ \A modules \in Seq(D) : Nodes(size, modules) \in Nat
         /\ \A modules \in Seq(D), m \in D :
              Nodes(size, Append(modules, m)) = Nodes(size, modules) + size[m]
<1>1. Nodes(size, <<>>) = 0
  <2>1. <<>> \in Seq(D) /\ Len(<<>>) = 0
    OBVIOUS
  <2>2. PICK u : SumsUp(u, size, <<>>)
    BY <2>1, SumsExist
  <2>3. u[0] = 0
    BY <2>2 DEF SumsUp
  <2>4. Nodes(size, <<>>) = u[Len(<<>>)]
    BY <2>1, <2>2, NodesAre
  <2>5. QED
    BY <2>1, <2>3, <2>4
<1>2. ASSUME NEW modules \in Seq(D) PROVE Nodes(size, modules) \in Nat
  <2>1. PICK u \in [0..Len(modules) -> Nat] : SumsUp(u, size, modules)
    BY SumsExist
  <2>2. QED
    BY <2>1, NodesAre
<1>3. ASSUME NEW modules \in Seq(D), NEW m \in D
      PROVE  Nodes(size, Append(modules, m)) = Nodes(size, modules) + size[m]
  <2> DEFINE N == Len(modules)
             more == Append(modules, m)
  <2>1. /\ more \in Seq(D) /\ Len(more) = N + 1 /\ N \in Nat
        /\ more[N + 1] = m /\ \A k \in 1..N : more[k] = modules[k]
    OBVIOUS
  <2> HIDE DEF more
  <2>2. PICK u \in [0..N + 1 -> Nat] : SumsUp(u, size, more)
    BY <2>1, SumsExist
  <2>3. SumsUp(u, size, modules)
    BY <2>1, <2>2 DEF SumsUp
  <2>4. u[N + 1] = u[N] + size[m]
    BY <2>1, <2>2 DEF SumsUp
  <2>5. Nodes(size, more) = u[N + 1] /\ Nodes(size, modules) = u[N]
    BY <2>1, <2>2, <2>3, NodesAre
  <2>6. QED
    BY <2>4, <2>5 DEF more
<1>4. QED
  BY <1>1, <1>2, <1>3

\* A share is at least one node.
LEMMA ShareIs ==
  ASSUME NEW n \in Nat, NEW size \in [1..n -> Nat], NEW most \in Nat \ {0}
  PROVE  Share(size, most) \in Nat \ {0}
<1> DEFINE all == [m \in 1..n |-> m]
           share == (Nodes(size, all) + most - 1) \div most
<1>1. all \in Seq(1..n) /\ DOMAIN size = 1..n
  OBVIOUS
<1>2. Nodes(size, all) \in Nat
  BY <1>1, NodesOf
<1>3. share \in Int
  BY <1>2
<1>4. Share(size, most) = Max({1, share})
  BY <1>1 DEF Share
<1> HIDE DEF share
<1>5. Max({1, share}) = IF share > 1 THEN share ELSE 1
  <2>1. \E x \in {1, share} : \A y \in {1, share} : x >= y
    BY <1>3
  <2>2. Max({1, share}) \in {1, share} /\ \A y \in {1, share} : Max({1, share}) >= y
    BY <2>1 DEF Max
  <2>3. QED
    BY <1>3, <2>2
<1>6. QED
  BY <1>3, <1>4, <1>5


-----------------------------------------------------------------------------
(***************************************************************************)
(* Chunks in a row.                                                        *)
(***************************************************************************)
\* The first chunk, the first two one after the other, and so on.
JoinsUp(u, seqs) ==
  u[1] = seqs[1] /\ \A i \in 2..Len(seqs) : u[i] = u[i - 1] \o seqs[i]

\* Such a function exists, and all its values are sequences.
LEMMA JoinsExist ==
  ASSUME NEW D, NEW seqs \in Seq(Seq(D)), seqs # <<>>
  PROVE  \E u : JoinsUp(u, seqs) /\ u \in [1..Len(seqs) -> Seq(D)]
<1> DEFINE N == Len(seqs)
           S == Seq(D)
           next == [k \in 1..N |-> [x \in S |-> IF k = 1 THEN seqs[1] ELSE x \o seqs[k]]]
<1>1. N \in Nat \ {0} /\ \A k \in 1..N : seqs[k] \in S
  OBVIOUS
<1>2. next \in NextFunctions(S, N) /\ <<>> \in S
  <2>1. ASSUME NEW k \in 1..N, NEW x \in S PROVE (IF k = 1 THEN seqs[1] ELSE x \o seqs[k]) \in S
    BY <1>1
  <2>2. next \in [1..N -> [S -> S]]
    BY <2>1
  <2>3. QED
    BY <2>2 DEF NextFunctions
<1>3. ASSUME NEW k \in 1..N, NEW x \in S PROVE next[k][x] = IF k = 1 THEN seqs[1] ELSE x \o seqs[k]
  OBVIOUS
<1>4. PICK w : Follows(w, S, <<>>, N, next)
  <2>1. N \in Nat
    BY <1>1
  <2> HIDE DEF next, N, S
  <2> QED
    BY <1>2, <2>1, Recursion, Zenon
<1> HIDE DEF next
<1> DEFINE u == [k \in 1..N |-> w[k]]
<1>5. ASSUME NEW k \in 1..N PROVE w[k] \in S /\ w[k] = IF k = 1 THEN seqs[1] ELSE w[k - 1] \o seqs[k]
  <2>1. k - 1 \in 0..N /\ k \in 0..N
    BY <1>1
  <2>2. w[k - 1] \in S /\ w[k] \in S /\ w[k] = next[k][w[k - 1]]
    BY <1>4, <2>1 DEF Follows
  <2>3. QED
    BY <1>3, <2>2
<1>6. u \in [1..N -> S]
  BY <1>5
<1>7. \A k \in 2..N : u[k] = u[k - 1] \o seqs[k]
  <2> SUFFICES ASSUME NEW k \in 2..N PROVE u[k] = u[k - 1] \o seqs[k]
    OBVIOUS
  <2>1. k \in 1..N /\ k - 1 \in 1..N /\ k # 1
    BY <1>1
  <2>2. u[k] = w[k] /\ u[k - 1] = w[k - 1]
    BY <2>1
  <2>3. QED
    BY <1>5, <2>1, <2>2
<1>8. u[1] = seqs[1]
  BY <1>1, <1>5
<1> HIDE DEF u
<1>9. QED
  BY <1>6, <1>7, <1>8 DEF JoinsUp

\* All chunks in a row are the last value of that function.
LEMMA FlattenIs ==
  ASSUME NEW D, NEW seqs \in Seq(Seq(D)), seqs # <<>>, NEW u, JoinsUp(u, seqs)
  PROVE  FlattenSeq(seqs) = u[Len(seqs)]
<1> DEFINE N == Len(seqs)
           Solves(v) == v = [i \in 1..N |-> IF i = 1 THEN seqs[i] ELSE v[i - 1] \o seqs[i]]
           flatten == CHOOSE v : Solves(v)
<1>1. N \in Nat \ {0}
  OBVIOUS
<1>2. \E v : Solves(v)
  <2>1. PICK w : JoinsUp(w, seqs) /\ w \in [1..N -> Seq(D)]
    BY JoinsExist
  <2>2. w = [i \in 1..N |-> w[i]]
    BY <2>1
  <2>3. \A i \in 1..N : w[i] = IF i = 1 THEN seqs[i] ELSE w[i - 1] \o seqs[i]
    <3> SUFFICES ASSUME NEW i \in 1..N PROVE w[i] = IF i = 1 THEN seqs[i] ELSE w[i - 1] \o seqs[i]
      OBVIOUS
    <3>1. i # 1 => i \in 2..N
      BY <1>1
    <3>2. QED
      BY <2>1, <3>1 DEF JoinsUp
  <2>4. Solves(w)
    BY <2>2, <2>3
  <2>5. QED
    BY <2>4
<1>3. Solves(flatten)
  <2> HIDE DEF Solves
  <2> QED
    BY <1>2
<1>4. \A i \in 1..N : flatten[i] = IF i = 1 THEN seqs[i] ELSE flatten[i - 1] \o seqs[i]
  <2> HIDE DEF flatten
  <2> QED
    BY <1>3
<1>5. FlattenSeq(seqs) = flatten[N]
  BY <1>1 DEF FlattenSeq
<1> HIDE DEF flatten
<1> DEFINE K == {n \in 0..N - 1 : flatten[n + 1] = u[n + 1]}
<1>6. 0 \in K
  BY <1>1, <1>4 DEF JoinsUp
<1>7. ASSUME NEW n \in 0..(N - 1) - 1, n \in K PROVE n + 1 \in K
  <2>1. n + 2 \in 2..N /\ n + 1 \in 0..N - 1 /\ (n + 1) + 1 = n + 2 /\ (n + 2) - 1 = n + 1 /\ n + 2 # 1
    BY <1>1
  <2>2. flatten[n + 2] = flatten[n + 1] \o seqs[n + 2]
    <3>1. n + 2 \in 1..N
      BY <1>1, <2>1
    <3>2. flatten[n + 2] = IF n + 2 = 1 THEN seqs[n + 2] ELSE flatten[(n + 2) - 1] \o seqs[n + 2]
      BY <1>4, <3>1, Zenon
    <3>3. QED
      BY <2>1, <3>2
  <2>3. u[n + 2] = u[n + 1] \o seqs[n + 2]
    BY <2>1 DEF JoinsUp
  <2>4. QED
    BY <1>7, <2>1, <2>2, <2>3
<1>8. N - 1 \in Nat /\ N - 1 \in 0..N - 1 /\ (N - 1) + 1 = N
  BY <1>1
<1>9. N - 1 \in K
  <2> HIDE DEF K
  <2> QED
    BY <1>6, <1>7, <1>8, Induction, Zenon
<1>10. QED
  BY <1>5, <1>8, <1>9

\* All chunks in a row are a sequence, and another chunk comes at its end.
LEMMA FlattenOf ==
  ASSUME NEW D
  PROVE  /\ FlattenSeq(<<>>) = <<>>
         /\ \A seqs \in Seq(Seq(D)) : FlattenSeq(seqs) \in Seq(D)
         /\ \A seqs \in Seq(Seq(D)), c \in Seq(D) :
              FlattenSeq(Append(seqs, c)) = FlattenSeq(seqs) \o c
<1>1. FlattenSeq(<<>>) = <<>>
  BY DEF FlattenSeq
<1>2. ASSUME NEW seqs \in Seq(Seq(D)) PROVE FlattenSeq(seqs) \in Seq(D)
  <2>1. CASE seqs = <<>>
    <3>1. <<>> \in Seq(D)
      OBVIOUS
    <3>2. FlattenSeq(seqs) = <<>>
      BY <1>1, <2>1, Zenon
    <3>3. QED
      BY <3>1, <3>2
  <2>2. CASE seqs # <<>>
    <3>1. PICK u : JoinsUp(u, seqs) /\ u \in [1..Len(seqs) -> Seq(D)]
      BY <2>2, JoinsExist
    <3>2. Len(seqs) \in 1..Len(seqs)
      BY <2>2
    <3>3. u[Len(seqs)] \in Seq(D)
      BY <3>1, <3>2
    <3>4. FlattenSeq(seqs) = u[Len(seqs)]
      BY <2>2, <3>1, FlattenIs
    <3>5. QED
      BY <3>3, <3>4
  <2>3. QED
    BY <2>1, <2>2
<1>3. ASSUME NEW seqs \in Seq(Seq(D)), NEW c \in Seq(D)
      PROVE  FlattenSeq(Append(seqs, c)) = FlattenSeq(seqs) \o c
  <2> DEFINE N == Len(seqs)
             more == Append(seqs, c)
  <2>1. /\ more \in Seq(Seq(D)) /\ more # <<>> /\ Len(more) = N + 1 /\ N \in Nat
        /\ more[N + 1] = c /\ \A i \in 1..N : more[i] = seqs[i]
    BY AppendProperties, LenProperties
  <2> HIDE DEF more
  <2>2. PICK u : JoinsUp(u, more)
    BY <2>1, JoinsExist
  <2>3. FlattenSeq(more) = u[N + 1]
    BY <2>1, <2>2, FlattenIs
  <2>4. CASE seqs = <<>>
    <3>1. N = 0
      BY <2>4
    <3>2. u[N + 1] = c
      BY <2>1, <2>2, <3>1 DEF JoinsUp
    <3>3. <<>> \o c = c
      OBVIOUS
    <3>4. QED
      BY <1>1, <2>3, <2>4, <3>2, <3>3 DEF more
  <2>5. CASE seqs # <<>>
    <3>1. N >= 1
      BY <2>5
    <3>2. u[1] = seqs[1]
      BY <2>1, <2>2, <3>1 DEF JoinsUp
    <3>3. \A i \in 2..N : u[i] = u[i - 1] \o seqs[i]
      <4> SUFFICES ASSUME NEW i \in 2..N PROVE u[i] = u[i - 1] \o seqs[i]
        OBVIOUS
      <4>1. i \in 2..N + 1 /\ i \in 1..N
        BY <2>1
      <4>2. QED
        BY <2>1, <2>2, <4>1 DEF JoinsUp
    <3>4. JoinsUp(u, seqs)
      BY <3>2, <3>3 DEF JoinsUp
    <3>5. FlattenSeq(seqs) = u[N]
      BY <2>5, <3>4, FlattenIs
    <3>6. N + 1 \in 2..N + 1 /\ (N + 1) - 1 = N
      BY <2>1, <3>1
    <3>7. u[N + 1] = u[N] \o c
      BY <2>1, <2>2, <3>6 DEF JoinsUp
    <3>8. QED
      BY <2>3, <3>5, <3>7 DEF more
  <2>6. QED
    BY <2>4, <2>5
<1>4. QED
  BY <1>1, <1>2, <1>3


-----------------------------------------------------------------------------
(***************************************************************************)
(* How modules fall into chunks.                                           *)
(***************************************************************************)
Fits(size, most, chunk) ==
  chunk # <<>> /\ (Len(chunk) = 1 \/ Nodes(size, chunk) <= Share(size, most))

ChunkStates(n) == [chunks : Seq(Seq(1..n)), cur : Seq(1..n), count : Nat]

\* What holds of the loop of chunkModulesByNodeCount after m modules: they are
\* in the chunks and the current one in their order; a closed chunk fits, and
\* the current one does unless it is the last.
Loop(state, n, size, most, m) ==
  /\ state \in ChunkStates(n)
  /\ FlattenSeq(state.chunks) \o state.cur = [k \in 1..m |-> k]
  /\ state.cur = <<>> <=> m = 0
  /\ Len(state.chunks) <= most - 1
  /\ state.count = Nodes(size, state.cur)
  /\ \A i \in DOMAIN state.chunks : Fits(size, most, state.chunks[i])
  /\ \/ Len(state.cur) <= 1 \/ state.count <= Share(size, most)
     \/ Len(state.chunks) = most - 1

\* The numbers to m are those to m - 1, and m.
LEMMA NumbersTo ==
  ASSUME NEW m \in Nat \ {0}
  PROVE  /\ Append([k \in 1..m - 1 |-> k], m) = [k \in 1..m |-> k]
         /\ [k \in 1..m - 1 |-> k] \o <<m>> = [k \in 1..m |-> k]
<1> DEFINE before == [k \in 1..m - 1 |-> k]
           upto == [k \in 1..m |-> k]
<1>1. before \in Seq(Nat) /\ upto \in Seq(Nat) /\ Len(before) = m - 1 /\ Len(upto) = m
  OBVIOUS
<1>2. \A k \in 1..m - 1 : before[k] = k
  OBVIOUS
<1>3. \A k \in 1..m : upto[k] = k
  OBVIOUS
<1> HIDE DEF before, upto
<1>4. /\ Append(before, m) \in Seq(Nat) /\ Len(Append(before, m)) = m
      /\ Append(before, m)[m] = m /\ \A k \in 1..m - 1 : Append(before, m)[k] = before[k]
  BY <1>1
<1>5. \A k \in 1..m : Append(before, m)[k] = upto[k]
  BY <1>2, <1>3, <1>4
<1>6. Append(before, m) = upto
  BY <1>1, <1>4, <1>5, SeqEqual
<1>7. Append(before, m) = before \o <<m>>
  BY <1>1, AppendIsConcat
<1>8. QED
  BY <1>6, <1>7 DEF before, upto

\* A module more keeps the types of the loop.
LEMMA PlaceTypes ==
  ASSUME NEW n \in Nat, NEW size \in [1..n -> Nat], NEW most, NEW limit,
         NEW m \in 1..n, NEW state \in ChunkStates(n)
  PROVE  Place(state, m, size[m], limit, most) \in ChunkStates(n)
<1> DEFINE next == Place(state, m, size[m], limit, most)
<1>1. /\ state.chunks \in Seq(Seq(1..n)) /\ state.cur \in Seq(1..n) /\ state.count \in Nat
      /\ state = [chunks |-> state.chunks, cur |-> state.cur, count |-> state.count]
  BY DEF ChunkStates
<1>2. size[m] \in Nat
  OBVIOUS
<1>3. CASE Closes(state, size[m], limit, most)
  <2>1. next = [chunks |-> Append(state.chunks, state.cur), cur |-> <<m>>, count |-> size[m]]
    BY <1>3 DEF Place
  <2>2. Append(state.chunks, state.cur) \in Seq(Seq(1..n))
    BY <1>1, AppendProperties
  <2>3. <<m>> \in Seq(1..n)
    OBVIOUS
  <2>4. QED
    BY <1>2, <2>1, <2>2, <2>3 DEF ChunkStates
<1>4. CASE ~Closes(state, size[m], limit, most)
  <2>1. next = [chunks |-> state.chunks, cur |-> Append(state.cur, m), count |-> state.count + size[m]]
    BY <1>1, <1>4 DEF Place
  <2>2. Append(state.cur, m) \in Seq(1..n)
    BY <1>1, AppendProperties
  <2>3. QED
    BY <1>1, <1>2, <2>1, <2>2 DEF ChunkStates
<1>5. QED
  BY <1>3, <1>4


\* A module more keeps the rest.
LEMMA PlaceKeeps ==
  ASSUME NEW n \in Nat, NEW size \in [1..n -> Nat], NEW most \in Nat \ {0},
         NEW m \in 1..n, NEW state, Loop(state, n, size, most, m - 1)
  PROVE  Loop(Place(state, m, size[m], Share(size, most), most), n, size, most, m)
<1> DEFINE limit == Share(size, most)
           next == Place(state, m, size[m], limit, most)
           closed == state.chunks
           cur == state.cur
<1>1. /\ state \in ChunkStates(n) /\ closed \in Seq(Seq(1..n)) /\ cur \in Seq(1..n)
      /\ state = [chunks |-> closed, cur |-> cur, count |-> state.count]
  BY DEF Loop, ChunkStates
<1>2. next \in ChunkStates(n)
  BY <1>1, PlaceTypes
<1>3. /\ FlattenSeq(closed) \o cur = [k \in 1..m - 1 |-> k]
      /\ cur = <<>> <=> m - 1 = 0
      /\ Len(closed) <= most - 1 /\ state.count = Nodes(size, cur)
      /\ \A i \in DOMAIN closed : Fits(size, most, closed[i])
      /\ Len(cur) <= 1 \/ state.count <= limit \/ Len(closed) = most - 1
  BY DEF Loop
<1> DEFINE D == 1..n
<1>9. closed \in Seq(Seq(D)) /\ cur \in Seq(D) /\ m \in D /\ size \in [D -> Nat] /\ <<>> \in Seq(D)
  BY <1>1
<1>4. m \in Nat \ {0} /\ size[m] \in Nat /\ limit \in Nat
  BY ShareIs
<1> HIDE DEF limit, closed, cur, D
<1>10. /\ Nodes(size, <<>>) = 0 /\ Nodes(size, cur) \in Nat
       /\ Nodes(size, Append(cur, m)) = Nodes(size, cur) + size[m]
       /\ Nodes(size, Append(<<>>, m)) = Nodes(size, <<>>) + size[m]
  <2>1. /\ Nodes(size, <<>>) = 0
        /\ \A modules \in Seq(D) : Nodes(size, modules) \in Nat
        /\ \A modules \in Seq(D), x \in D :
             Nodes(size, Append(modules, x)) = Nodes(size, modules) + size[x]
    BY <1>9, NodesOf, Zenon
  <2>2. QED
    BY <1>9, <2>1, Zenon
<1>5. FlattenSeq(closed) \in Seq(D) /\ FlattenSeq(Append(closed, cur)) = FlattenSeq(closed) \o cur
  BY <1>9, FlattenOf
<1>11. /\ Len(closed) \in Nat /\ Len(cur) \in Nat /\ DOMAIN closed = 1..Len(closed)
       /\ (Len(cur) = 0 <=> cur = <<>>)
       /\ Append(cur, m) # <<>> /\ Len(Append(cur, m)) = Len(cur) + 1
  <2>1. Len(closed) \in Nat /\ DOMAIN closed = 1..Len(closed)
    BY <1>9
  <2>2. Len(cur) \in Nat /\ (Len(cur) = 0 <=> cur = <<>>)
    BY <1>9
  <2>3. Append(cur, m) # <<>> /\ Len(Append(cur, m)) = Len(cur) + 1
    <3>1. Len(Append(cur, m)) = Len(cur) + 1
      BY <1>9
    <3>2. Len(Append(cur, m)) # 0
      BY <2>2, <3>1
    <3>3. Len(<<>>) = 0
      OBVIOUS
    <3>4. QED
      BY <3>1, <3>2, <3>3, Zenon
  <2>4. QED
    BY <2>1, <2>2, <2>3
<1>6. CASE Closes(state, size[m], limit, most)
  <2>1. /\ next = [chunks |-> Append(closed, cur), cur |-> <<m>>, count |-> size[m]]
        /\ Len(cur) > 0 /\ Len(closed) < most - 1
    BY <1>6 DEF Place, Closes, closed, cur
  <2>2. next.chunks = Append(closed, cur) /\ next.cur = <<m>> /\ next.count = size[m]
    BY <2>1
  <2> HIDE DEF next
  <2>3. FlattenSeq(Append(closed, cur)) = [k \in 1..m - 1 |-> k]
    BY <1>3, <1>5
  <2>4. FlattenSeq(next.chunks) \o next.cur = [k \in 1..m |-> k]
    BY <1>4, <2>2, <2>3, NumbersTo
  <2>5. /\ Len(next.chunks) = Len(closed) + 1 /\ Len(closed) \in Nat
        /\ DOMAIN next.chunks = 1..Len(closed) + 1
    BY <1>9, <2>2, AppendProperties, LenProperties
  <2>6. next.cur # <<>> /\ Len(next.cur) = 1
    BY <2>2
  <2>7. next.count = Nodes(size, next.cur)
    <3>1. Append(<<>>, m) = <<m>>
      OBVIOUS
    <3>2. QED
      BY <1>4, <1>10, <2>2, <3>1
  <2>8. Fits(size, most, cur)
    <3>1. cur # <<>> /\ (Len(cur) = 1 \/ Nodes(size, cur) <= limit)
      <4>5. Len(cur) \in Nat /\ Len(cur) > 0
        BY <1>11, <2>1
      <4>6. Len(cur) # 0
        BY <4>5
      <4>7. cur # <<>>
        BY <1>11, <4>6, Zenon
      <4>8. \A k \in Nat : k > 0 /\ k <= 1 => k = 1
        OBVIOUS
      <4>1. cur # <<>> /\ (Len(cur) <= 1 => Len(cur) = 1)
        BY <4>5, <4>7, <4>8, Zenon
      <4>2. Len(closed) # most - 1
        BY <1>11, <2>1
      <4>3. QED
        BY <1>3, <4>1, <4>2, Zenon
    <3>2. QED
      BY <3>1 DEF Fits, limit
  <2>9. \A i \in DOMAIN next.chunks : Fits(size, most, next.chunks[i])
    <3> SUFFICES ASSUME NEW i \in 1..Len(closed) + 1 PROVE Fits(size, most, next.chunks[i])
      BY <2>5
    <3>1. next.chunks[Len(closed) + 1] = cur /\ (i \in 1..Len(closed) => next.chunks[i] = closed[i])
      BY <1>9, <2>2, AppendProperties
    <3>2. i \in 1..Len(closed) => i \in DOMAIN closed
      BY <1>11
    <3>3. i = Len(closed) + 1 \/ i \in 1..Len(closed)
      BY <2>5
    <3>4. QED
      BY <1>3, <2>8, <3>1, <3>2, <3>3
  <2>10. Len(next.chunks) <= most - 1 /\ m # 0
    BY <1>4, <2>1, <2>5
  <2>12. next \in ChunkStates(n)
    BY <1>2 DEF next
  <2>13. Loop(next, n, size, most, m)
    BY <2>4, <2>6, <2>7, <2>9, <2>10, <2>12 DEF Loop
  <2>11. QED
    BY <2>13 DEF next, limit
<1>7. CASE ~Closes(state, size[m], limit, most)
  <2>1. next = [chunks |-> closed, cur |-> Append(cur, m), count |-> state.count + size[m]]
    BY <1>1, <1>7 DEF Place, closed, cur
  <2>2. next.chunks = closed /\ next.cur = Append(cur, m) /\ next.count = state.count + size[m]
    BY <2>1
  <2>3. Len(cur) = 0 \/ state.count + size[m] <= limit \/ Len(closed) = most - 1
    <3>1. Len(cur) \in Nat /\ Len(closed) \in Nat /\ state.count \in Nat
      BY <1>3, <1>10, <1>11
    <3>2. ~(Len(cur) > 0 /\ state.count + size[m] > limit /\ Len(closed) < most - 1)
      BY <1>7 DEF Closes, closed, cur
    <3>3. QED
      BY <1>3, <1>4, <3>1, <3>2
  <2> HIDE DEF next
  <2>4. FlattenSeq(next.chunks) \o next.cur = [k \in 1..m |-> k]
    <3>1. FlattenSeq(closed) \o Append(cur, m) = Append(FlattenSeq(closed) \o cur, m)
      <4> DEFINE whole == FlattenSeq(closed)
      <4>1. whole \in Seq(D) /\ whole \o cur \in Seq(D) /\ <<m>> \in Seq(D)
        BY <1>5, <1>9
      <4> HIDE DEF whole
      <4>2. Append(cur, m) = cur \o <<m>> /\ Append(whole \o cur, m) = (whole \o cur) \o <<m>>
        BY <1>9, <4>1, AppendIsConcat
      <4>3. whole \o (cur \o <<m>>) = (whole \o cur) \o <<m>>
        BY <1>9, <4>1, ConcatAssociative
      <4>4. QED
        BY <4>2, <4>3 DEF whole
    <3>2. QED
      BY <1>3, <1>4, <2>2, <3>1, NumbersTo
  <2>5. next.cur # <<>> /\ Len(next.cur) = Len(cur) + 1
    BY <1>11, <2>2
  <2>6. next.count = Nodes(size, next.cur)
    BY <1>3, <1>10, <2>2
  <2>7. Len(next.cur) <= 1 \/ next.count <= limit \/ Len(next.chunks) = most - 1
    BY <1>11, <2>2, <2>3, <2>5
  <2>8. next \in ChunkStates(n) /\ m # 0
    BY <1>2, <1>4 DEF next
  <2>10. Loop(next, n, size, most, m)
    BY <1>3, <2>2, <2>4, <2>5, <2>6, <2>7, <2>8 DEF Loop, limit
  <2>9. QED
    BY <2>10 DEF next, limit
<1>8. QED
  BY <1>6, <1>7 DEF limit


\* Before the first module there is no chunk.
LEMMA LoopStarts ==
  ASSUME NEW n \in Nat, NEW size \in [1..n -> Nat], NEW most \in Nat \ {0}
  PROVE  NoChunk \in ChunkStates(n) /\ Loop(NoChunk, n, size, most, 0)
<1>1. NoChunk.chunks = <<>> /\ NoChunk.cur = <<>> /\ NoChunk.count = 0
  BY DEF NoChunk
<1>2. NoChunk \in ChunkStates(n)
  BY DEF NoChunk, ChunkStates
<1>3. FlattenSeq(<<>>) = <<>> /\ Nodes(size, <<>>) = 0
  BY FlattenOf, NodesOf
<1>4. <<>> \o <<>> = [k \in 1..0 |-> k]
  OBVIOUS
<1>5. Len(<<>>) = 0 /\ \A i \in DOMAIN <<>> : Fits(size, most, (<<>>)[i])
  OBVIOUS
<1>6. 0 <= most - 1 /\ 0 <= 1
  OBVIOUS
<1>7. QED
  BY <1>1, <1>2, <1>3, <1>4, <1>5, <1>6 DEF Loop

\* What is returned is what the loop leaves after the last module.
LEMMA ChunkedIs ==
  ASSUME NEW n \in Nat, NEW size \in [1..n -> Nat], NEW most \in Nat \ {0}
  PROVE  \E state : /\ Loop(state, n, size, most, n)
                    /\ Chunked(size, most) = Append(state.chunks, state.cur)
<1> DEFINE limit == Share(size, most)
           S == ChunkStates(n)
           next == [m \in 1..n |-> [state \in S |-> Place(state, m, size[m], limit, most)]]
           Solves(u) ==
             u = [m \in 0..n |->
                    IF m = 0 THEN NoChunk ELSE Place(u[m - 1], m, size[m], limit, most)]
           placed == CHOOSE u : Solves(u)
<1>1. next \in NextFunctions(S, n) /\ NoChunk \in S
  <2>1. \A m \in 1..n : \A state \in S : Place(state, m, size[m], limit, most) \in S
    <3> HIDE DEF limit
    <3> QED
      BY PlaceTypes
  <2>2. QED
    BY <2>1, LoopStarts DEF NextFunctions
<1>2. \E u : Solves(u)
  <2>1. PICK w : Follows(w, S, NoChunk, n, next)
    <3> HIDE DEF S, next
    <3> QED
      BY <1>1, Recursion, Zenon
  <2>2. \A m \in 1..n : w[m] = Place(w[m - 1], m, size[m], limit, most)
    <3> SUFFICES ASSUME NEW m \in 1..n PROVE w[m] = Place(w[m - 1], m, size[m], limit, most)
      OBVIOUS
    <3>1. m - 1 \in 0..n
      OBVIOUS
    <3>2. w[m - 1] \in S /\ w[m] = next[m][w[m - 1]]
      BY <2>1, <3>1 DEF Follows
    <3>3. \A state \in S : next[m][state] = Place(state, m, size[m], limit, most)
      OBVIOUS
    <3> HIDE DEF next, S
    <3>4. QED
      BY <3>2, <3>3
  <2>3. w = [m \in 0..n |-> w[m]] /\ w[0] = NoChunk
    BY <2>1 DEF Follows
  <2>4. \A m \in 0..n : w[m] = IF m = 0 THEN NoChunk ELSE Place(w[m - 1], m, size[m], limit, most)
    <3> SUFFICES ASSUME NEW m \in 0..n, m # 0 PROVE w[m] = Place(w[m - 1], m, size[m], limit, most)
      BY <2>3
    <3>1. m \in 1..n
      OBVIOUS
    <3>2. QED
      BY <2>2, <3>1
  <2>5. Solves(w)
    BY <2>3, <2>4
  <2>6. QED
    BY <2>5
<1>3. Solves(placed)
  <2> HIDE DEF Solves
  <2> QED
    BY <1>2
<1>4. \A m \in 0..n :
        placed[m] = IF m = 0 THEN NoChunk ELSE Place(placed[m - 1], m, size[m], limit, most)
  <2> HIDE DEF placed
  <2> QED
    BY <1>3
<1>5. Chunked(size, most) = Append(placed[n].chunks, placed[n].cur)
  <2>1. Len(size) = n
    OBVIOUS
  <2>2. QED
    BY <2>1 DEF Chunked
<1> HIDE DEF placed
<1> DEFINE K == {m \in 0..n : Loop(placed[m], n, size, most, m)}
<1>6. 0 \in K
  BY <1>4, LoopStarts
<1>7. ASSUME NEW m \in 0..n - 1, m \in K PROVE m + 1 \in K
  <2>1. m + 1 \in 1..n /\ m + 1 \in 0..n /\ m + 1 # 0 /\ (m + 1) - 1 = m
    OBVIOUS
  <2>2. placed[m + 1] = Place(placed[m], m + 1, size[m + 1], limit, most)
    <3>1. placed[m + 1] = IF m + 1 = 0 THEN NoChunk
                          ELSE Place(placed[(m + 1) - 1], m + 1, size[m + 1], limit, most)
      BY <1>4, <2>1, Zenon
    <3>2. QED
      BY <2>1, <3>1, Zenon
  <2>3. Loop(placed[m], n, size, most, (m + 1) - 1)
    BY <1>7, <2>1
  <2>4. Loop(placed[m + 1], n, size, most, m + 1)
    BY <2>1, <2>2, <2>3, PlaceKeeps, Zenon
  <2>5. QED
    BY <2>1, <2>4
<1>8. n \in K
  <2>1. n \in 0..n
    OBVIOUS
  <2> HIDE DEF K
  <2>2. QED
    BY <1>6, <1>7, <2>1, Induction, Zenon
<1>9. QED
  BY <1>5, <1>8

\* Whatever the sizes, and however many the modules and the chunks asked for:
\* at most as many chunks, none empty, each module in one and in its order,
\* and a chunk but the last exceeds its share only if it is a single module.
LEMMA ChunkedPartitions ==
  ASSUME NEW n \in Nat \ {0}, NEW size \in [1..n -> Nat], NEW most \in Nat \ {0}
  PROVE  LET made == Chunked(size, most)
         IN  /\ made \in Seq(Seq(1..n)) /\ Len(made) \in 1..most
             /\ FlattenSeq(made) = [m \in 1..n |-> m]
             /\ \A i \in DOMAIN made :
                  made[i] # <<>> /\ (i < Len(made) => Fits(size, most, made[i]))
<1> DEFINE D == 1..n
<1>1. PICK state : /\ Loop(state, n, size, most, n)
                   /\ Chunked(size, most) = Append(state.chunks, state.cur)
  BY ChunkedIs
<1> DEFINE closed == state.chunks
           cur == state.cur
           made == Append(closed, cur)
<1>2. closed \in Seq(Seq(D)) /\ cur \in Seq(D)
  BY <1>1 DEF Loop, ChunkStates
<1>3. /\ FlattenSeq(closed) \o cur = [k \in 1..n |-> k] /\ cur # <<>> /\ Len(closed) <= most - 1
      /\ \A i \in DOMAIN closed : Fits(size, most, closed[i])
  BY <1>1 DEF Loop
<1> HIDE DEF D, closed, cur
<1>4. /\ made \in Seq(Seq(D)) /\ Len(made) = Len(closed) + 1 /\ DOMAIN made = 1..Len(closed) + 1
      /\ Len(closed) \in Nat /\ DOMAIN closed = 1..Len(closed)
  BY <1>2, AppendProperties, LenProperties
<1>5. made[Len(closed) + 1] = cur /\ \A i \in 1..Len(closed) : made[i] = closed[i]
  BY <1>2, AppendProperties
<1>6. FlattenSeq(made) = [k \in 1..n |-> k]
  BY <1>2, <1>3, FlattenOf
<1> HIDE DEF made
<1>7. ASSUME NEW i \in DOMAIN made
      PROVE  made[i] # <<>> /\ (i < Len(made) => Fits(size, most, made[i]))
  <2>1. i = Len(closed) + 1 \/ i \in 1..Len(closed)
    BY <1>4
  <2>2. CASE i = Len(closed) + 1
    BY <1>3, <1>4, <1>5, <2>2
  <2>3. CASE i \in 1..Len(closed)
    <3>1. Fits(size, most, made[i])
      BY <1>3, <1>4, <1>5, <2>3
    <3>2. QED
      BY <3>1 DEF Fits
  <2>4. QED
    BY <2>1, <2>2, <2>3
<1>8. Len(made) \in 1..most
  BY <1>3, <1>4
<1>9. Chunked(size, most) = made
  BY <1>1 DEF made, closed, cur
<1>10. QED
  BY <1>4, <1>6, <1>7, <1>8, <1>9 DEF D


-----------------------------------------------------------------------------
(***************************************************************************)
(* What becomes of the modules.                                            *)
(***************************************************************************)
\* A call defers the deletion of its own objects; the rest of the types.
OwnTypes ==
  /\ ctx \in {"live", "cancelled"} /\ gen \in Stages /\ errors \in 0..MaxErrors
  /\ created \subseteq AllObjects
  /\ \A r \in Requests : deferred[r] \in Seq(SUBSET Objects(r))

AllModules == [m \in Modules |-> m]

Names == Modules \cup {Unnamed}
Told == {"overview", "asked", "save", "done"}

\* Once they are split, the chunks have all modules in their order; a result
\* that did not go astray has those of its chunk, and the overview is told of
\* the results from then on.
KeptInv ==
  /\ chunks \in Seq(Seq(Modules)) /\ Len(chunks) <= MaxChunks /\ details \in Seq(Names)
  /\ told \in [1..MaxChunks -> Seq(Names)] /\ astray \subseteq 1..MaxChunks
  /\ gen = "split" => \A i \in 1..MaxChunks : found[i] = "none"
  /\ gen # "split" => FlattenSeq(chunks) = AllModules
  /\ \A i \in Spawned : found[i] = "ok" /\ i \notin astray => told[i] = chunks[i]
  /\ DetailsAreWhole
  /\ gen \in Told /\ astray = {} => details = AllModules

\* A list with the names filled in is one of names, and the chunk itself if it
\* keeps to the chunk.
LEMMA FilledKeeps ==
  ASSUME NEW list \in Seq(Names), NEW chunk \in Seq(Modules)
  PROVE  /\ Filled(list, chunk) \in Seq(Names)
         /\ KeepsTo(list, chunk) => Filled(list, chunk) = chunk
<1> DEFINE filled == Filled(list, chunk)
<1>1. DOMAIN list = 1..Len(list) /\ Len(list) \in Nat /\ DOMAIN chunk = 1..Len(chunk) /\ Len(chunk) \in Nat
  OBVIOUS
<1>2. \A k \in DOMAIN list : list[k] \in Names /\ (k <= Len(chunk) => chunk[k] \in Names)
  BY <1>1 DEF Names
<1>3. filled = [k \in 1..Len(list) |-> IF list[k] = Unnamed /\ k <= Len(chunk) THEN chunk[k] ELSE list[k]]
  BY <1>1 DEF Filled
<1>4. \A k \in 1..Len(list) : filled[k] \in Names
  BY <1>1, <1>2, <1>3
<1>5. filled \in Seq(Names)
  <2>1. filled \in [1..Len(list) -> Names]
    BY <1>3, <1>4
  <2>2. QED
    BY <1>1, <2>1
<1>6. ASSUME KeepsTo(list, chunk) PROVE filled = chunk
  <2>1. Len(list) = Len(chunk) /\ \A k \in 1..Len(list) : list[k] \in {chunk[k], Unnamed}
    BY <1>1, <1>6 DEF KeepsTo
  <2>2. \A k \in 1..Len(list) : filled[k] = chunk[k]
    BY <1>1, <1>3, <2>1
  <2>3. filled = [k \in 1..Len(chunk) |-> chunk[k]]
    BY <1>3, <2>1, <2>2
  <2>4. QED
    BY <1>1, <2>3
<1>7. QED
  BY <1>5, <1>6

\* An action either costs an error or does not.
LEMMA ErrorSteps ==
  errors \in 0..MaxErrors /\ (Error \/ UNCHANGED errors \/ Fails \/ Succeeds) => errors' \in 0..MaxErrors
BY AiAssumption DEF Error, Fails, Succeeds

\* Every step keeps them.
LEMMA OwnStep == CallTypes /\ OwnTypes /\ [Next]_vars => OwnTypes'
<1> SUFFICES ASSUME CallTypes, OwnTypes, [Next]_vars PROVE OwnTypes'
  OBVIOUS
<1> USE DEF code, aiVars, genVars
<1>1. errors \in 0..MaxErrors
  BY DEF OwnTypes
<1>2. ASSUME ctx' \in {ctx, "cancelled"}, gen' \in Stages, errors' \in 0..MaxErrors,
             UNCHANGED <<created, deferred>>
      PROVE  OwnTypes'
  BY <1>2 DEF OwnTypes
<1>3. ASSUME NEW r \in Requests, NEW list \in Seq(SUBSET Objects(r)),
             deferred' = [deferred EXCEPT ![r] = list], UNCHANGED <<ctx, gen>>,
             errors' \in 0..MaxErrors, created' \subseteq AllObjects
      PROVE  OwnTypes'
  <2>1. \A s \in Requests : deferred'[s] = IF s = r THEN list ELSE deferred[s]
    BY <1>3 DEF CallTypes
  <2>2. QED
    BY <1>3, <2>1 DEF OwnTypes
<1>4. gen \in Stages /\ {"chunks", "failed", "overview", "asked", "save", "done"} \subseteq Stages
  BY DEF OwnTypes, Stages
<1>5. CASE Split \/ Join
  BY <1>1, <1>2, <1>4, <1>5 DEF Split, Join
<1>6. CASE AskOverview \/ ReadOverview \/ saveProjectContext
  <2>1. UNCHANGED errors \/ Error
    BY <1>6 DEF AskOverview, ReadOverview, saveProjectContext
  <2>2. gen' \in Stages /\ UNCHANGED <<ctx, created, deferred>>
    BY <1>4, <1>6 DEF AskOverview, ReadOverview, saveProjectContext
  <2>3. QED
    BY <1>1, <1>2, <2>1, <2>2, ErrorSteps
<1>7. ASSUME NEW i \in ChunkCalls, AskChunk(i) \/ ReadChunk(i) PROVE OwnTypes'
  <2>1. UNCHANGED errors \/ Error
    BY <1>7 DEF AskChunk, ReadChunk
  <2>2. UNCHANGED <<ctx, gen, created, deferred>>
    BY <1>7 DEF AskChunk, ReadChunk
  <2>3. QED
    BY <1>1, <1>2, <1>4, <2>1, <2>2, ErrorSteps
<1>8. ASSUME NEW r \in Requests, NEW f \in FilesOf[r], UploadFile(r, f), UNCHANGED genVars
      PROVE  OwnTypes'
  <2>1. UNCHANGED errors \/ Fails \/ Succeeds
    BY <1>8 DEF UploadFile
  <2>2. errors' \in 0..MaxErrors
    BY <1>1, <2>1, ErrorSteps
  <2>3. created' \subseteq AllObjects /\ UNCHANGED <<ctx, deferred>>
    BY <1>8, OwnObjects DEF UploadFile, OwnTypes
  <2>4. QED
    BY <1>8, <2>2, <2>3 DEF OwnTypes
<1>9. ASSUME NEW r \in Requests, Collect(r), UNCHANGED genVars PROVE OwnTypes'
  <2>1. Collected(r) \in SUBSET Objects(r)
    BY OwnObjects DEF Collected
  <2>2. <<Collected(r)>> \in Seq(SUBSET Objects(r))
    BY <2>1
  <2>3. /\ deferred' = [deferred EXCEPT ![r] = <<Collected(r)>>]
        /\ UNCHANGED <<ctx, errors, created, gen>>
    BY <1>9 DEF Collect
  <2>4. created' \subseteq AllObjects
    BY <2>3 DEF OwnTypes
  <2>5. QED
    BY <1>1, <1>3, <2>2, <2>3, <2>4
<1>10. ASSUME NEW r \in Requests, NewAssistant(r) \/ NewThread(r), UNCHANGED genVars PROVE OwnTypes'
  <2>1. PICK object \in Objects(r) : \E step, next : Create(r, step, object, next)
    BY <1>10, OwnObjects DEF NewAssistant, NewThread
  <2>2. PICK step, next : Create(r, step, object, next)
    BY <2>1
  <2>3. errors' \in 0..MaxErrors
    <3>1. Succeeds \/ Fails
      BY <2>2 DEF Create
    <3>2. QED
      BY <1>1, <3>1, ErrorSteps
  <2>4. deferred[r] \in Seq(SUBSET Objects(r)) /\ <<{object}>> \in Seq(SUBSET Objects(r))
    BY DEF OwnTypes
  <2>5. <<{object}>> \o deferred[r] \in Seq(SUBSET Objects(r))
    BY <2>4
  <2>6. CASE /\ deferred' = [deferred EXCEPT ![r] = <<{object}>> \o deferred[r]]
             /\ created' = created \cup {object} /\ UNCHANGED ctx
    <3>1. created' \subseteq AllObjects
      BY <2>6, OwnObjects DEF OwnTypes
    <3>2. QED
      BY <1>3, <1>10, <2>3, <2>5, <2>6, <3>1
  <2>7. CASE UNCHANGED <<deferred, created, ctx>>
    BY <1>2, <1>4, <1>10, <2>3, <2>7
  <2>8. QED
    BY <2>2, <2>6, <2>7 DEF Create
<1>11. ASSUME NEW r \in Requests, Delete(r), UNCHANGED genVars PROVE OwnTypes'
  <2>1. deferred[r] \in Seq(SUBSET Objects(r)) /\ deferred[r] # <<>>
    BY <1>11 DEF Delete, OwnTypes
  <2>2. Tail(deferred[r]) \in Seq(SUBSET Objects(r))
    BY <2>1
  <2>3. /\ deferred' = [deferred EXCEPT ![r] = Tail(deferred[r])]
        /\ UNCHANGED <<ctx, errors, gen>> /\ created' \subseteq created
    BY <1>11 DEF Delete
  <2>4. created' \subseteq AllObjects
    BY <2>3 DEF OwnTypes
  <2>5. QED
    BY <1>1, <1>3, <2>2, <2>3, <2>4
<1>12. ASSUME NEW r \in Requests, UNCHANGED genVars,
              \/ NewRun(r) \/ Poll(r) \/ Polled(r) \/ ListMessages(r) \/ Return(r) \/ RunProgress(r)
       PROVE  OwnTypes'
  <2>1. UNCHANGED errors \/ Succeeds \/ Fails
    BY <1>12 DEF NewRun, Poll, Polled, ListMessages, Return, RunProgress
  <2>2. UNCHANGED <<ctx, gen, created, deferred>>
    BY <1>12 DEF NewRun, Poll, Polled, ListMessages, Return, RunProgress
  <2>3. QED
    BY <1>1, <1>2, <1>4, <2>1, <2>2, ErrorSteps
<1>13. ASSUME ((Cancel \/ LoseFiles(Artifacts)) /\ UNCHANGED genVars) \/ UNCHANGED vars PROVE OwnTypes'
  BY <1>1, <1>2, <1>4, <1>13 DEF Cancel, LoseFiles, vars
<1>14. QED
  BY <1>5, <1>6, <1>7, <1>8, <1>9, <1>10, <1>11, <1>12, <1>13
     DEF Next, GenStep, CallStep, ChunkCalls

\* What a call's answer is read as leaves the other results alone.
LEMMA ReadKeeps ==
  ASSUME KeptInv, CallTypes, gen = "chunks", NEW i \in 1..MaxChunks, i \in Spawned, ReadAnswer(i)
  PROVE  /\ told' \in [1..MaxChunks -> Seq(Names)]
         /\ astray' \subseteq 1..MaxChunks
         /\ \A k \in Spawned \ {i} : told'[k] = told[k] /\ (k \in astray' <=> k \in astray)
         /\ i \notin astray' => told'[i] = chunks[i]
<1>1. told \in [1..MaxChunks -> Seq(Names)] /\ astray \subseteq 1..MaxChunks
  BY DEF KeptInv
<1>2. chunks[i] \in Seq(Modules)
  BY DEF KeptInv, Spawned
<1>3. CASE told' = [told EXCEPT ![i] = chunks[i]] /\ UNCHANGED astray
  <2>1. chunks[i] \in Seq(Names)
    BY <1>2 DEF Names
  <2>2. QED
    BY <1>1, <1>3, <2>1 DEF Spawned, KeptInv
<1>4. ASSUME NEW list \in Answers, told' = [told EXCEPT ![i] = Filled(list, chunks[i])],
             astray' = IF KeepsTo(list, chunks[i]) THEN astray ELSE astray \cup {i}
      PROVE  /\ told' \in [1..MaxChunks -> Seq(Names)]
             /\ astray' \subseteq 1..MaxChunks
             /\ \A k \in Spawned \ {i} : told'[k] = told[k] /\ (k \in astray' <=> k \in astray)
             /\ i \notin astray' => told'[i] = chunks[i]
  <2>1. list \in Seq(Names)
    BY GenerationAssumption DEF Names
  <2>2. /\ Filled(list, chunks[i]) \in Seq(Names)
        /\ KeepsTo(list, chunks[i]) => Filled(list, chunks[i]) = chunks[i]
    BY <1>2, <2>1, FilledKeeps
  <2>3. told' \in [1..MaxChunks -> Seq(Names)] /\ told'[i] = Filled(list, chunks[i])
    BY <1>1, <1>4, <2>2
  <2>4. \A k \in Spawned \ {i} : told'[k] = told[k]
    BY <1>1, <1>4 DEF Spawned, KeptInv
  <2>5. /\ astray' \subseteq 1..MaxChunks /\ (i \notin astray' => KeepsTo(list, chunks[i]))
        /\ \A k \in Spawned \ {i} : k \in astray' <=> k \in astray
    BY <1>1, <1>4
  <2>6. QED
    BY <2>2, <2>3, <2>4, <2>5
<1>5. QED
  BY <1>3, <1>4 DEF ReadAnswer

\* What the overview is told when all chunks have ended well.
LEMMA JoinKeeps ==
  ASSUME KeptInv, gen = "chunks", \A i \in Spawned : found[i] = "ok"
  PROVE  LET all == [i \in Spawned |-> told[i]]
         IN  /\ all = [i \in Spawned |-> IF i \in astray THEN told[i] ELSE chunks[i]]
             /\ FlattenSeq(all) \in Seq(Names)
             /\ astray = {} => FlattenSeq(all) = AllModules
<1> DEFINE all == [i \in Spawned |-> told[i]]
<1>1. chunks \in Seq(Seq(Modules)) /\ Len(chunks) \in Nat /\ Len(chunks) <= MaxChunks
  BY DEF KeptInv
<1>2. \A i \in Spawned : told[i] \in Seq(Names) /\ (i \notin astray => told[i] = chunks[i])
  BY <1>1, GenerationAssumption DEF KeptInv, Spawned
<1>3. all \in Seq(Seq(Names))
  <2>1. all \in [1..Len(chunks) -> Seq(Names)]
    BY <1>2 DEF Spawned
  <2>2. QED
    BY <1>1, <2>1
<1>4. FlattenSeq(all) \in Seq(Names)
  <2> HIDE DEF all
  <2> QED
    BY <1>3, FlattenOf
<1>5. astray = {} => all = chunks
  <2>1. chunks = [i \in 1..Len(chunks) |-> chunks[i]]
    BY <1>1
  <2>2. QED
    BY <1>2, <2>1 DEF Spawned
<1>6. FlattenSeq(chunks) = AllModules
  BY DEF KeptInv
<1>7. all = [i \in Spawned |-> IF i \in astray THEN told[i] ELSE chunks[i]]
  BY <1>2
<1>8. QED
  BY <1>4, <1>5, <1>6, <1>7

\* Every step keeps the modules.
LEMMA KeptStep == CallTypes /\ KeptInv /\ [Next]_vars => KeptInv'
<1> SUFFICES ASSUME CallTypes, KeptInv, [Next]_vars PROVE KeptInv'
  OBVIOUS
<1> USE DEF genVars
<1>1. ASSUME UNCHANGED <<chunks, told, details, astray, found>>,
             gen' # "split" => gen # "split", gen' = "split" => gen = "split",
             gen' \in Told => gen \in Told
      PROVE  KeptInv'
  <2>1. Spawned' = Spawned
    BY <1>1 DEF Spawned
  <2>2. DetailsAreWhole'
    BY <1>1, <2>1 DEF KeptInv, DetailsAreWhole, Told
  <2>3. QED
    BY <1>1, <2>1, <2>2 DEF KeptInv
<1>2. CASE Split
  <2>1. PICK size \in Falling(NumModules) : chunks' = Chunked(size, MaxChunks)
    BY <1>2 DEF Split
  <2>2. /\ NumModules \in Nat \ {0} /\ MaxChunks \in Nat \ {0} /\ size \in [1..NumModules -> Nat]
    BY <2>1, GenerationAssumption DEF Falling
  <2>3. /\ chunks' \in Seq(Seq(1..NumModules)) /\ Len(chunks') \in 1..MaxChunks
        /\ FlattenSeq(chunks') = [m \in 1..NumModules |-> m]
    BY <2>1, <2>2, ChunkedPartitions
  <2>4. gen = "split" /\ gen' = "chunks" /\ UNCHANGED <<found, told, details, astray>>
    BY <1>2 DEF Split
  <2>5. Len(chunks') <= MaxChunks /\ \A i \in Spawned' : i \in 1..MaxChunks
    BY <2>2, <2>3 DEF Spawned
  <2>6. \A i \in Spawned' : found'[i] = "none"
    BY <2>4, <2>5 DEF KeptInv
  <2>7. DetailsAreWhole'
    BY <2>4 DEF DetailsAreWhole
  <2>8. QED
    BY <2>3, <2>4, <2>5, <2>6, <2>7 DEF KeptInv, Modules, AllModules, Told
<1>3. CASE Join
  <2>1. gen = "chunks" /\ UNCHANGED <<chunks, found, told, astray>> /\ \A i \in Spawned : found[i] # "none"
    BY <1>3 DEF Join
  <2>2. chunks \in Seq(Seq(Modules)) /\ Len(chunks) <= MaxChunks
    BY <2>1 DEF KeptInv
  <2>3. CASE AnyFailed
    BY <1>1, <1>3, <2>1, <2>3 DEF Join, Told
  <2>4. CASE ~AnyFailed
    <3>1. \A i \in Spawned : found[i] = "ok"
      <4>1. \A i \in Spawned : i \in 1..MaxChunks
        BY <2>2, GenerationAssumption DEF Spawned
      <4>2. QED
        BY <2>1, <2>4, <4>1 DEF AnyFailed, CallTypes
    <3>2. details' = FlattenSeq([i \in Spawned |-> told[i]]) /\ gen' = "overview"
      BY <1>3, <2>4 DEF Join
    <3>3. /\ details' = FlattenSeq([i \in Spawned |-> IF i \in astray THEN told[i] ELSE chunks[i]])
          /\ details' \in Seq(Names) /\ (astray = {} => details' = AllModules)
      BY <2>1, <3>1, <3>2, JoinKeeps
    <3>4. Spawned' = Spawned
      BY <2>1 DEF Spawned
    <3>5. DetailsAreWhole'
      BY <2>1, <3>3, <3>4 DEF DetailsAreWhole
    <3>6. QED
      BY <2>1, <3>2, <3>3, <3>4, <3>5 DEF KeptInv
  <2>5. QED
    BY <2>3, <2>4
<1>4. CASE AskOverview \/ ReadOverview \/ saveProjectContext
  <2>1. /\ gen \in {"overview", "asked", "save"} /\ gen' \in {"asked", "failed", "save", "done"}
        /\ UNCHANGED <<chunks, told, details, astray, found>>
    BY <1>4 DEF AskOverview, ReadOverview, saveProjectContext
  <2>2. QED
    BY <1>1, <2>1 DEF Told
<1>5. ASSUME NEW i \in 1..MaxChunks, AskChunk(i) PROVE KeptInv'
  <2>1. gen = "chunks" /\ UNCHANGED <<gen, chunks, told, details, astray>>
    BY <1>5 DEF AskChunk
  <2>2. found' = found \/ found' = [found EXCEPT ![i] = "error"]
    BY <1>5 DEF AskChunk
  <2>3. \A k \in 1..MaxChunks : found'[k] = "ok" => found[k] = "ok"
    BY <2>2 DEF CallTypes
  <2>4. Spawned' = Spawned /\ \A k \in Spawned : k \in 1..MaxChunks
    BY <2>1, GenerationAssumption DEF Spawned, KeptInv
  <2>5. DetailsAreWhole'
    BY <2>1 DEF DetailsAreWhole
  <2>6. QED
    BY <2>1, <2>3, <2>4, <2>5 DEF KeptInv, Told
<1>6. ASSUME NEW i \in 1..MaxChunks, ReadChunk(i) PROVE KeptInv'
  <2>1. /\ gen = "chunks" /\ i \in Spawned /\ found[i] = "none"
        /\ UNCHANGED <<gen, chunks, details>>
    BY <1>6 DEF ReadChunk
  <2>2. Spawned' = Spawned /\ \A k \in Spawned : k \in 1..MaxChunks
    BY <2>1, GenerationAssumption DEF Spawned, KeptInv
  <2>3. DetailsAreWhole'
    BY <2>1 DEF DetailsAreWhole
  <2>4. CASE found' = [found EXCEPT ![i] = "error"] /\ UNCHANGED <<told, astray>>
    <3>1. \A k \in 1..MaxChunks : found'[k] = "ok" => found[k] = "ok"
      BY <2>4 DEF CallTypes
    <3>2. QED
      BY <2>1, <2>2, <2>3, <2>4, <3>1 DEF KeptInv, Told
  <2>5. CASE found' = [found EXCEPT ![i] = "ok"] /\ ReadAnswer(i)
    <3>1. /\ told' \in [1..MaxChunks -> Seq(Names)] /\ astray' \subseteq 1..MaxChunks
          /\ \A k \in Spawned \ {i} : told'[k] = told[k] /\ (k \in astray' <=> k \in astray)
          /\ i \notin astray' => told'[i] = chunks[i]
      BY <2>1, <2>5, ReadKeeps
    <3>2. \A k \in 1..MaxChunks : k # i => found'[k] = found[k]
      BY <2>5 DEF CallTypes
    <3>3. \A k \in Spawned' : found'[k] = "ok" /\ k \notin astray' => told'[k] = chunks'[k]
      BY <2>1, <2>2, <3>1, <3>2 DEF KeptInv
    <3>4. QED
      BY <2>1, <2>3, <3>1, <3>3 DEF KeptInv, Told
  <2>6. QED
    BY <1>6, <2>4, <2>5 DEF ReadChunk
<1>7. CASE UNCHANGED <<gen, chunks, told, details, astray, found>>
  BY <1>1, <1>7
<1>8. QED
  BY <1>2, <1>3, <1>4, <1>5, <1>6, <1>7 DEF Next, GenStep, vars

\* Both hold in every state of a generation.
LEMMA KeptInvariant == Spec => [](OwnTypes /\ KeptInv)
<1>1. Init => OwnTypes /\ KeptInv
  <2> SUFFICES ASSUME Init PROVE OwnTypes /\ KeptInv
    OBVIOUS
  <2>1. OwnTypes
    BY AiAssumption DEF Init, AiInit, OwnTypes, Stages
  <2>2. /\ chunks = <<>> /\ details = <<>> /\ gen = "split" /\ astray = {}
        /\ told = [i \in 1..MaxChunks |-> <<>>] /\ found = [i \in 1..MaxChunks |-> "none"]
    BY DEF Init
  <2>3. <<>> \in Seq(Seq(Modules)) /\ <<>> \in Seq(Names) /\ Len(<<>>) = 0
    OBVIOUS
  <2>4. told \in [1..MaxChunks -> Seq(Names)] /\ \A i \in 1..MaxChunks : found[i] = "none"
    BY <2>2, <2>3
  <2>5. Spawned = {} /\ DetailsAreWhole
    BY <2>2, <2>3 DEF Spawned, DetailsAreWhole
  <2>6. KeptInv
    BY <2>2, <2>3, <2>4, <2>5, GenerationAssumption DEF KeptInv, Told
  <2>7. QED
    BY <2>1, <2>6
<1>2. CallTypes /\ (OwnTypes /\ KeptInv) /\ [Next]_vars => (OwnTypes /\ KeptInv)'
  BY OwnStep, KeptStep
<1>3. Spec => []CallTypes
  <2>1. GenerationInv => CallTypes
    BY DEF GenerationInv
  <2>2. QED
    BY <2>1, GenerationInvariant, PTL
<1>4. QED
  BY <1>1, <1>2, <1>3, PTL DEF Spec

\* Chunking loses, doubles and disorders no module, whatever the sizes, and the
\* parallel analysis only where a chunk's own answer does: the overview is told
\* of the chunks' results in order, and of all modules if no answer went astray.
THEOREM ModulesKeptCorrect == Spec => []ModulesKept
<1>1. ASSUME GenerationInv, OwnTypes, KeptInv PROVE TypeOK
  <2>1. /\ pc \in [Requests -> CallSteps] /\ answer \in [Requests -> {"none", "error", "text"}]
        /\ {polled, run} \subseteq [Requests -> RunStatus \cup {"none"}]
        /\ \A r \in Requests : results[r] \in [FilesOf[r] -> {"none", "ok", "error"}]
        /\ found \in [1..MaxChunks -> {"none", "error", "ok"}]
    BY <1>1 DEF GenerationInv, CallTypes, ProgressTypes
  <2>2. \A r \in Requests : \A i \in DOMAIN deferred[r] : deferred[r][i] \subseteq Objects(r)
    <3> SUFFICES ASSUME NEW r \in Requests, NEW i \in DOMAIN deferred[r]
                 PROVE  deferred[r][i] \subseteq Objects(r)
      OBVIOUS
    <3>1. deferred[r] \in Seq(SUBSET Objects(r))
      BY <1>1 DEF OwnTypes
    <3>2. QED
      BY <3>1
  <2>3. disk \subseteq UNION {FilesOf[r] : r \in Requests}
    <3> SUFFICES ASSUME NEW f \in disk PROVE \E r \in Requests : f \in FilesOf[r]
      OBVIOUS
    <3>1. f \in Artifacts \cup Temporary \/ \E i \in ChunkCalls : f = ChunkFile(i)
      BY <1>1 DEF GenerationInv, StageInv
    <3>2. QED
      BY <3>1, Calls
  <2>4. ToSet(chunks) \subseteq Seq(Modules)
    BY <1>1 DEF KeptInv, ToSet
  <2>5. QED
    BY <1>1, <2>1, <2>2, <2>3, <2>4 DEF OwnTypes, KeptInv, TypeOK, AllObjects, Names
<1>2. ChunksPartition
  <2> SUFFICES ASSUME NEW n \in 1..(MaxChunks + 2), NEW most \in 1..(MaxChunks + 1), NEW size \in Falling(n)
               PROVE  LET made == Chunked(size, most)
                      IN /\ Len(made) \in 1..most
                         /\ FlattenSeq(made) = [m \in 1..n |-> m]
                         /\ \A i \in DOMAIN made :
                              /\ made[i] # <<>>
                              /\ i < Len(made) =>
                                   Len(made[i]) = 1 \/ Nodes(size, made[i]) <= Share(size, most)
    BY DEF ChunksPartition
  <2>1. n \in Nat \ {0} /\ most \in Nat \ {0} /\ size \in [1..n -> Nat]
    <3>1. MaxChunks \in Nat /\ Sizes \subseteq Nat
      BY GenerationAssumption
    <3>2. n \in Nat \ {0} /\ most \in Nat \ {0}
      BY <3>1
    <3>3. size \in [1..n -> Sizes]
      BY DEF Falling
    <3>4. QED
      BY <3>1, <3>2, <3>3
  <2>2. QED
    BY <2>1, ChunkedPartitions DEF Fits
<1>3. KeptInv => DetailsAreWhole
  BY DEF KeptInv
<1>4. GenerationInv /\ (OwnTypes /\ KeptInv) => ModulesKept
  BY <1>1, <1>2, <1>3 DEF ModulesKept, KeptInv, Told, AllModules
<1>5. QED
  BY <1>4, GenerationInvariant, KeptInvariant, PTL
=============================================================================
