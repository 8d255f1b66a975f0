------------------------------ MODULE AiRequest ------------------------------
(***************************************************************************)
(* Concurrent calls of GenerateMessageWithFiles                            *)
(* (src/ai/strategy/openAiStrategy.go) with files: the call uploads them   *)
(* side by side, creates an assistant, a thread and a run at the provider, *)
(* polls the run, reads the answer, and deletes what it created through    *)
(* deferred calls.  Every call of the provider may fail, and always does   *)
(* once the context is cancelled.  A call without files is one chat        *)
(* completion, which leaves nothing behind; it has no steps here.          *)
(***************************************************************************)
EXTENDS Naturals, FiniteSets, Sequences, SequencesExt

CONSTANTS
  Requests,
  FilesOf,      \* the paths handed to a call
  MaxErrors     \* bound: calls of the provider or of the system that fail

ASSUME AiAssumption == MaxErrors \in Nat

VARIABLES
  ctx,          \* "live" or "cancelled"
  pc,           \* per call: the next step; "off" before, "returned" after
  results,      \* per call: the slots of its uploads, "none", "ok" or "error"
  deferred,     \* per call: sets of objects to delete, the last deferred first
  polled,       \* per call: run.Status as it was last read
  answer,       \* per call: "none", "error" or "text"
  disk,         \* the files that exist
  run,          \* per call: the status of its run at the provider
  created,      \* history: objects created and not asked to be deleted since
  errors

code == <<pc, results, deferred, polled, answer>>
aiVars == <<ctx, code, disk, run, created, errors>>

File(r, f) == <<"file", r, f>>
Assistant(r) == <<"assistant", r>>
Thread(r) == <<"thread", r>>
Objects(r) == {File(r, f) : f \in FilesOf[r]} \cup {Assistant(r), Thread(r)}

CallSteps == {"off", "upload", "assistant", "thread", "run", "poll", "list",
              "delete", "returned"}
RunStatus == {"queued", "in_progress", "completed", "failed"}

GoTo(r, step) == pc' = [pc EXCEPT ![r] = step]

Error == errors < MaxErrors /\ errors' = errors + 1
\* A call that takes the context.
Succeeds == ctx = "live" /\ UNCHANGED errors
Fails == IF ctx = "live" THEN Error ELSE UNCHANGED errors

(***************************************************************************)
(* Rules of the code, each after a plausible mistake in it (...Mutant).    *)
(***************************************************************************)
\* wg.Wait after the uploads.
UploadsDoneMutant(r) == \E f \in FilesOf[r] : results[r][f] # "none"
UploadsDone(r) == \A f \in FilesOf[r] : results[r][f] # "none"

\* uploadErr keeps any of the errors.
UploadFailedMutant(r) == \A f \in FilesOf[r] : results[r][f] = "error"
UploadFailed(r) == \E f \in FilesOf[r] : results[r][f] = "error"

\* The files to delete: every one that was uploaded, also if another was not.
CollectedMutant(r) == IF UploadFailed(r) THEN {} ELSE {File(r, f) : f \in FilesOf[r]}
Collected(r) == {File(r, f) : f \in {g \in FilesOf[r] : results[r][g] = "ok"}}

\* The statuses for which the loop goes on.
PendingMutant == {"queued", "in_progress", "failed"}
Pending == {"queued", "in_progress"}

\* Where a call goes whose poll failed.
AfterPollErrorMutant == "poll"
AfterPollError == "delete"

AiInit ==
  /\ ctx = "live"
  /\ pc = [r \in Requests |-> "off"]
  /\ results = [r \in Requests |-> [f \in FilesOf[r] |-> "none"]]
  /\ deferred = [r \in Requests |-> <<>>]
  /\ polled = [r \in Requests |-> "none"] /\ run = [r \in Requests |-> "none"]
  /\ answer = [r \in Requests |-> "none"]
  /\ created = {} /\ errors = 0

\* The caller starts the goroutine.
Call(r) == pc[r] = "off" /\ GoTo(r, "upload")

\* An early return with an error, through the deferred deletions.
GiveUp(r) == GoTo(r, "delete") /\ answer' = [answer EXCEPT ![r] = "error"]

\* One goroutine per file; a file that is gone cannot be opened.
UploadFile(r, f) ==
  /\ pc[r] # "off" /\ f \in FilesOf[r] /\ results[r][f] = "none"
  /\ \/ /\ f \in disk /\ Succeeds /\ created' = created \cup {File(r, f)}
        /\ results' = [results EXCEPT ![r][f] = "ok"]
     \/ /\ IF f \in disk THEN Fails ELSE UNCHANGED errors
        /\ results' = [results EXCEPT ![r][f] = "error"] /\ UNCHANGED created
  /\ UNCHANGED <<ctx, pc, deferred, polled, answer, disk, run>>

Collect(r) ==
  /\ pc[r] = "upload" /\ UploadsDone(r)
  /\ deferred' = [deferred EXCEPT ![r] = <<Collected(r)>>]
  /\ IF UploadFailed(r) THEN GiveUp(r) ELSE GoTo(r, "assistant") /\ UNCHANGED answer
  /\ UNCHANGED <<ctx, results, polled, disk, run, created, errors>>

\* Assistants.New and Threads.New, each with its deferred Delete.
Create(r, step, object, next) ==
  /\ pc[r] = step
  /\ \/ /\ Succeeds /\ created' = created \cup {object}
        /\ deferred' = [deferred EXCEPT ![r] = <<{object}>> \o @]
        /\ GoTo(r, next) /\ UNCHANGED answer
     \/ Fails /\ GiveUp(r) /\ UNCHANGED <<deferred, created>>
  /\ UNCHANGED <<ctx, results, polled, disk, run>>

NewAssistant(r) == Create(r, "assistant", Assistant(r), "thread")
NewThread(r) == Create(r, "thread", Thread(r), "run")

NewRun(r) ==
  /\ pc[r] = "run"
  /\ \/ /\ Succeeds /\ run' = [run EXCEPT ![r] = "queued"]
        /\ polled' = [polled EXCEPT ![r] = "queued"] /\ GoTo(r, "poll") /\ UNCHANGED answer
     \/ Fails /\ GiveUp(r) /\ UNCHANGED <<run, polled>>
  /\ UNCHANGED <<ctx, results, deferred, disk, created>>

\* A second of sleep, then Runs.Get; there is no limit to the polls.
Poll(r) ==
  /\ pc[r] = "poll" /\ polled[r] \in Pending
  /\ \/ Succeeds /\ polled' = [polled EXCEPT ![r] = run[r]] /\ UNCHANGED <<pc, answer>>
     \/ /\ Fails /\ GoTo(r, AfterPollError) /\ answer' = [answer EXCEPT ![r] = "error"]
        /\ UNCHANGED polled
  /\ UNCHANGED <<ctx, results, deferred, disk, run, created>>

Polled(r) ==
  /\ pc[r] = "poll" /\ polled[r] \notin Pending
  /\ IF polled[r] = "completed" THEN GoTo(r, "list") /\ UNCHANGED answer ELSE GiveUp(r)
  /\ UNCHANGED <<ctx, results, deferred, polled, disk, run, created, errors>>

\* The first text block of an assistant's message, if there is one.
ListMessages(r) ==
  /\ pc[r] = "list" /\ GoTo(r, "delete")
  /\ \/ Succeeds /\ answer' \in {[answer EXCEPT ![r] = a] : a \in {"text", "error"}}
     \/ Fails /\ answer' = [answer EXCEPT ![r] = "error"]
  /\ UNCHANGED <<ctx, results, deferred, polled, disk, run, created>>

\* The deferred deletions, files side by side; nobody looks whether they fail.
Delete(r) ==
  /\ pc[r] = "delete" /\ deferred[r] # <<>>
  /\ created' = created \ Head(deferred[r])
  /\ deferred' = [deferred EXCEPT ![r] = Tail(@)]
  /\ UNCHANGED <<ctx, pc, results, polled, answer, disk, run, errors>>

\* The result goes into the channel.
Return(r) ==
  /\ pc[r] = "delete" /\ deferred[r] = <<>>
  /\ GoTo(r, "returned")
  /\ UNCHANGED <<ctx, results, deferred, polled, answer, disk, run, created, errors>>

CallStep(r) ==
  \/ (\E f \in FilesOf[r] : UploadFile(r, f)) \/ Collect(r)
  \/ NewAssistant(r) \/ NewThread(r) \/ NewRun(r) \/ Poll(r) \/ Polled(r)
  \/ ListMessages(r) \/ Delete(r) \/ Return(r)

\* The provider gets on with a run that the call still waits for.
RunProgress(r) ==
  /\ pc[r] = "poll"
  /\ \/ run[r] = "queued" /\ run' = [run EXCEPT ![r] = "in_progress"]
     \/ run[r] = "in_progress" /\ run' \in {[run EXCEPT ![r] = s] : s \in {"completed", "failed"}}
  /\ UNCHANGED <<ctx, code, disk, created, errors>>

\* Another job's cleanup deletes the clone with the files in it.
LoseFiles(files) ==
  /\ files \cap disk # {} /\ disk' = disk \ files
  /\ UNCHANGED <<ctx, code, run, created, errors>>

\* A signal cancels the context.
Cancel ==
  /\ ctx = "live" /\ ctx' = "cancelled"
  /\ UNCHANGED <<code, disk, run, created, errors>>

-----------------------------------------------------------------------------
(***************************************************************************)
(* Properties.                                                             *)
(***************************************************************************)
\* On every return path a call has asked the provider to delete whatever it
\* created there, files of a partly failed upload included.
NothingLeftBehind ==
  \A r \in Requests : pc[r] = "returned" => created \cap Objects(r) = {}

\* An answer comes from a completed run that was given every file.
AnswerIsWhole ==
  \A r \in Requests :
    answer[r] = "text" =>
      run[r] = "completed" /\ \A f \in FilesOf[r] : results[r][f] = "ok"
=============================================================================
