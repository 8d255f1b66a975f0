-------------------------- MODULE AnalysisPipeline --------------------------
(***************************************************************************)
(* What one claimed job does to S3 and the database, and how it takes it   *)
(* back (steps 8 to 21 of both strategies in src/sqs/strategy, rollback.go,*)
(* the Persist functions, quest.SaveResults, SaveMilestoneEvalResults).    *)
(* An effect is a pair <<what, id>>; an undo call is the set of effects it *)
(* removes.  Every call may fail; a call that reports an error may still   *)
(* have taken effect (its reply was lost); the context may be cancelled    *)
(* and the process may die at any point.  Another job of the project, on a *)
(* clone of its own, may evaluate the same quests meanwhile.               *)
(***************************************************************************)
EXTENDS Sequences

CONSTANTS
  Quests,       \* active quests the AI evaluates
  NewQuests,    \* quests the AI proposes
  Milestones    \* active milestones the AI evaluates

VARIABLES
  kind,         \* "normal" or "full": the strategy
  at,           \* the next step
  artifact,     \* the report being persisted: "kb" or "uv"
  left,         \* items of the loop under way not yet handled
  world,        \* the job's effects on S3 and the database
  result,       \* StrategyResult: effects the success notification names
  changed,      \* milestones in prevStatuses
  rb,           \* undo calls, in the order rollbackList.Run makes them
  status,       \* analysis_jobs.job_status
  cancelled,    \* ctx is done
  alive,        \* the process runs
  astray,       \* history: effects the code cannot know of or failed to undo
  completed,    \* quests whose progress_status is COMPLETED
  mine,         \* history: quests this job has completed
  other,        \* how far the other job is with the quests
  asked,        \* quests the other job found ACTIVE and may still complete
  theirs        \* quests the other job has completed

otherVars == <<other, asked, theirs>>
questVars == <<completed, mine, otherVars>>
frame == <<kind, cancelled, alive, questVars>>
vars == <<kind, at, artifact, left, world, result, changed, rb, status,
          cancelled, alive, astray, questVars>>

Object(x) == <<"object", x>>
Row(x)    == <<"row", x>>
All(what, ids) == {<<what, i>> : i \in ids}
Stamps == All("stamp", Quests)
MilestoneEvals == All("milestoneEval", Milestones)
MilestoneStatuses == All("milestoneStatus", Milestones)
Roadmap == <<"roadmap", "project">>
Keywords == <<"keywords", "project">>
Final == {Roadmap, Keywords}

Effects ==
  All("object", {"kb", "uv"}) \cup All("row", {"kb", "uv"}) \cup Final
    \cup All("eval", Quests) \cup Stamps \cup All("done", Quests)
    \cup All("new", NewQuests) \cup MilestoneEvals \cup MilestoneStatuses

\* Effects a success notification can name.
Nameable == All("row", {"kb", "uv"}) \cup All("done", Quests) \cup All("new", NewQuests)

Steps ==
  {"context", "plan", "ask", "view",
   "upload", "insert", "orphan", "saveQuests", "milestones", "saveMilestones",
   "roadmap", "keywords", "complete", "undo", "abandon", "end"}

(***************************************************************************)
(* The rollback list, and the branches of the strategies.  An operator     *)
(* named ...Mutant is a plausible mistake in the one after it.             *)
(***************************************************************************)
\* rb.Add: Run starts with what was added last; within one closure the calls
\* keep their order.
AddMutant(calls) == rb \o calls
Add(calls) == calls \o rb

\* The closure added once a report is stored.
ReportUndoMutant(x) == <<{Object(x)}>>
ReportUndo(x) == <<{Object(x)}, {Row(x)}>>

\* The closure added once the quests are stored: evaluations by job id, new
\* quests and completions by the ids in the result.
QuestUndoMutant == <<All("eval", Quests), result \cap All("new", NewQuests)>>
QuestUndoAllMutant == <<All("eval", Quests), result \cap All("new", NewQuests), All("done", Quests)>>
QuestUndo == <<All("eval", Quests), result \cap All("new", NewQuests),
               result \cap All("done", Quests)>>

\* The closure added if a milestone changed its status.
MilestoneUndo == IF changed = {} THEN <<>>
                 ELSE <<MilestoneEvals, All("milestoneStatus", changed)>>

\* A quest is reported as completed only if CompleteQuest returned no error.
CompletedIDsMutant(q, known) == IF <<"eval", q>> \in known THEN {<<"done", q>>} ELSE {}
CompletedIDs(q, known) == {<<"done", q>>} \cap known

\* A loop over the AI's answer handles every item.
LoopEndsMutant == TRUE
LoopEnds == left = {}

\* Keyword extraction is best effort.
AfterKeywordErrorMutant == "undo"
AfterKeywordError == "complete"

AfterInsert == IF artifact = "kb" THEN (IF kind = "full" THEN "plan" ELSE "ask")
               ELSE (IF kind = "full" THEN "roadmap" ELSE "keywords")
AfterQuests == IF kind = "full" THEN "view" ELSE "milestones"

Init ==
  /\ kind \in {"normal", "full"}
  /\ at = "context" /\ artifact = "kb" /\ left = {}
  /\ world = {} /\ result = {} /\ changed = {} /\ rb = <<>>
  /\ status = "RUNNING" /\ cancelled = FALSE /\ alive = TRUE /\ astray = {}
  /\ completed = {} /\ mine = {}
  /\ other = "waiting" /\ asked = {} /\ theirs = {}

(***************************************************************************)
(* Steps without effects: building the context, planning the roadmap,      *)
(* asking for quests, writing the user view.  All need S3 or the AI, which *)
(* refuse a cancelled context; any failure starts the rollback.            *)
(***************************************************************************)
Prepare(stage, next) ==
  /\ alive /\ at = stage
  /\ (~cancelled /\ at' = next) \/ at' = "undo"
  /\ UNCHANGED <<frame, world, result, changed, rb, status, astray>>

BuildContext == Prepare("context", "upload") /\ UNCHANGED <<artifact, left>>
PlanRoadmap == Prepare("plan", "ask") /\ UNCHANGED <<artifact, left>>

\* FetchActiveQuests leaves out what is completed already.
ActiveQuests == Quests \ completed

AskQuests ==
  /\ Prepare("ask", "saveQuests") /\ UNCHANGED artifact
  /\ left' = IF at' = "undo" THEN left ELSE ActiveQuests \cup NewQuests

WriteUserView ==
  /\ Prepare("view", "upload") /\ UNCHANGED left
  /\ artifact' = IF at' = "undo" THEN artifact ELSE "uv"

\* s3.Upload...: without a URL nothing is known of an object.
Upload ==
  /\ alive /\ at = "upload"
  /\ \/ /\ ~cancelled /\ at' = "insert"
        /\ world' = world \cup {Object(artifact)} /\ UNCHANGED astray
     \/ /\ at' = "undo"
        /\ \/ UNCHANGED <<world, astray>>
           \/ /\ ~cancelled
              /\ world' = world \cup {Object(artifact)}
              /\ astray' = astray \cup {Object(artifact)}
  /\ UNCHANGED <<frame, artifact, left, result, changed, rb, status>>

\* db.InsertAnalysisReport, the result and rb.Add.
Insert ==
  /\ alive /\ at = "insert"
  /\ \/ /\ at' = AfterInsert
        /\ world' = world \cup {Row(artifact)}
        /\ result' = result \cup {Row(artifact)}
        /\ rb' = Add(ReportUndo(artifact)) /\ UNCHANGED astray
     \/ /\ at' = "orphan"
        /\ \/ UNCHANGED <<world, astray>>
           \/ /\ world' = world \cup {Row(artifact)}
              /\ astray' = astray \cup {Row(artifact)}
        /\ UNCHANGED <<result, rb>>
  /\ UNCHANGED <<frame, artifact, left, changed, status>>

(***************************************************************************)
(* One undo call: it removes its effects, or fails with some of them still *)
(* there: all or none of one statement, any of a loop of statements.       *)
(***************************************************************************)
\* RevertQuestCompletion goes by id, whoever completed the quest last.
Reopened(call) == {q \in Quests : <<"done", q>> \in call}

UndoCall(call) ==
  /\ \/ /\ ~cancelled \/ call \cap All("object", {"kb", "uv"}) = {}
        /\ world' = world \ call /\ UNCHANGED astray
        /\ completed' = completed \ Reopened(call)
     \/ \E kept \in SUBSET (call \cap world) :
          /\ kept \in {{}, call \cap world} \/ call \subseteq MilestoneStatuses
          /\ world' = (world \ call) \cup kept
          /\ astray' = astray \cup kept
          /\ completed' = IF kept = {} THEN completed \ Reopened(call) ELSE completed
  /\ UNCHANGED <<kind, cancelled, alive, mine, otherVars>>

\* The object of a report whose row could not be inserted.
DropOrphan ==
  /\ alive /\ at = "orphan"
  /\ UndoCall({Object(artifact)}) /\ at' = "undo"
  /\ UNCHANGED <<artifact, left, result, changed, rb, status>>

(***************************************************************************)
(* quest.SaveResults.  "known" are the effects whose call returned no      *)
(* error.  A failed insert skips the rest for that quest; CompleteQuest    *)
(* writes last_evaluated_at as well.                                       *)
(***************************************************************************)
EvaluateQuest(q) ==
  /\ alive /\ at = "saveQuests" /\ q \in left \cap Quests
  /\ \E new \in SUBSET {<<"eval", q>>, <<"stamp", q>>, <<"done", q>>} :
     \E known \in SUBSET new :
       /\ <<"eval", q>> \in known \/ new \subseteq {<<"eval", q>>}
       /\ <<"done", q>> \in new => <<"stamp", q>> \in new
       /\ world' = world \cup new
       /\ result' = result \cup CompletedIDs(q, known)
       /\ astray' = astray \cup ((new \cap {<<"done", q>>}) \ known)
       /\ completed' = completed \cup Reopened(new)
       /\ mine' = mine \cup Reopened(new)
  /\ left' = left \ {q}
  /\ UNCHANGED <<kind, cancelled, alive, otherVars, at, artifact, changed, rb, status>>

InsertQuest(n) ==
  /\ alive /\ at = "saveQuests" /\ n \in left \cap NewQuests
  /\ left \cap Quests = {}
  /\ \/ UNCHANGED <<world, result, astray>>
     \/ /\ world' = world \cup {<<"new", n>>}
        /\ \/ result' = result \cup {<<"new", n>>} /\ UNCHANGED astray
           \/ astray' = astray \cup {<<"new", n>>} /\ UNCHANGED result
  /\ left' = left \ {n}
  /\ UNCHANGED <<frame, at, artifact, changed, rb, status>>

QuestsSaved ==
  /\ alive /\ at = "saveQuests" /\ LoopEnds
  /\ rb' = Add(QuestUndo) /\ at' = AfterQuests
  /\ UNCHANGED <<frame, artifact, left, world, result, changed, status, astray>>

(***************************************************************************)
(* Milestone evaluation, normal analysis only: a failure of the request or *)
(* of the AI is only logged.                                               *)
(***************************************************************************)
AskMilestones ==
  /\ alive /\ at = "milestones"
  /\ \/ ~cancelled /\ at' = "saveMilestones" /\ left' = Milestones
     \/ at' = "view" /\ UNCHANGED left
  /\ UNCHANGED <<frame, artifact, world, result, changed, rb, status, astray>>

EvaluateMilestone(m) ==
  /\ alive /\ at = "saveMilestones" /\ m \in left
  /\ \E new \in SUBSET {<<"milestoneEval", m>>, <<"milestoneStatus", m>>} :
     \E known \in SUBSET new :
       /\ <<"milestoneEval", m>> \in known \/ new \subseteq {<<"milestoneEval", m>>}
       /\ world' = world \cup new
       /\ changed' = IF <<"milestoneStatus", m>> \in known THEN changed \cup {m} ELSE changed
       /\ astray' = astray \cup ((new \cap {<<"milestoneStatus", m>>}) \ known)
  /\ left' = left \ {m}
  /\ UNCHANGED <<frame, at, artifact, result, rb, status>>

MilestonesSaved ==
  /\ alive /\ at = "saveMilestones" /\ LoopEnds
  /\ rb' = Add(MilestoneUndo) /\ at' = "view"
  /\ UNCHANGED <<frame, artifact, left, world, result, changed, status, astray>>

(***************************************************************************)
(* The end of a full scan, then of both.                                   *)
(***************************************************************************)
\* ReplaceProjectRoadMap is one transaction, and the last step that can fail.
PersistRoadmap ==
  /\ alive /\ at = "roadmap"
  /\ \/ at' = "keywords" /\ world' = world \cup {Roadmap} /\ UNCHANGED astray
     \/ /\ at' = "undo"
        /\ \/ UNCHANGED <<world, astray>>
           \/ world' = world \cup {Roadmap} /\ astray' = astray \cup {Roadmap}
  /\ UNCHANGED <<frame, artifact, left, result, changed, rb, status>>

ExtractKeywords ==
  /\ alive /\ at = "keywords"
  /\ \/ ~cancelled /\ at' = "complete" /\ world' = world \cup {Keywords}
     \/ at' = AfterKeywordError /\ world' \in {world, world \cup {Keywords}}
  /\ UNCHANGED <<frame, artifact, left, result, changed, rb, status, astray>>

SetStatus(new) == status' \in {status, new}

Complete ==
  /\ alive /\ at = "complete"
  /\ SetStatus("ANALYSIS_JOB_COMPLETED") /\ at' = "end"
  /\ UNCHANGED <<frame, artifact, left, world, result, changed, rb, astray>>

\* rollbackList.Run, then the status; Handle returns no result.
Undo ==
  /\ alive /\ at = "undo"
  /\ IF rb = <<>>
     THEN at' = "abandon" /\ UNCHANGED <<frame, world, astray, rb>>
     ELSE UndoCall(Head(rb)) /\ rb' = Tail(rb) /\ UNCHANGED at
  /\ UNCHANGED <<artifact, left, result, changed, status>>

Abandon ==
  /\ alive /\ at = "abandon"
  /\ SetStatus("NOTIFICATION_QUEUED") /\ at' = "end" /\ result' = {}
  /\ UNCHANGED <<frame, artifact, left, world, changed, rb, astray>>

Cancel ==
  /\ alive /\ ~cancelled /\ cancelled' = TRUE
  /\ UNCHANGED <<kind, at, artifact, left, world, result, changed, rb, status, alive, astray, questVars>>

Crash ==
  /\ alive /\ at # "end" /\ alive' = FALSE
  /\ UNCHANGED <<kind, at, artifact, left, world, result, changed, rb, status, cancelled, astray, questVars>>

(***************************************************************************)
(* Another job of the project: it reads the active quests, completes some  *)
(* and ends, or rolls back what it completed.                              *)
(***************************************************************************)
OtherAsks ==
  /\ other = "waiting" /\ other' = "saving"
  /\ asked' = ActiveQuests
  /\ UNCHANGED <<completed, theirs>>

OtherCompletes(q) ==
  /\ other = "saving" /\ q \in asked
  /\ completed' = completed \cup {q} /\ theirs' = theirs \cup {q}
  /\ asked' = asked \ {q} /\ UNCHANGED other

OtherEnds ==
  /\ other = "saving" /\ asked' = {}
  /\ \/ other' = "succeeded" /\ UNCHANGED completed
     \/ other' = "undone" /\ completed' = completed \ theirs
  /\ UNCHANGED theirs

OtherJob ==
  /\ OtherAsks \/ OtherEnds \/ \E q \in Quests : OtherCompletes(q)
  /\ UNCHANGED <<kind, at, artifact, left, world, result, changed, rb, status,
                 cancelled, alive, astray, mine>>

Next ==
  \/ BuildContext \/ PlanRoadmap \/ AskQuests \/ WriteUserView \/ Upload \/ Insert \/ DropOrphan
  \/ \E q \in Quests : EvaluateQuest(q)
  \/ \E n \in NewQuests : InsertQuest(n)
  \/ QuestsSaved \/ AskMilestones
  \/ \E m \in Milestones : EvaluateMilestone(m)
  \/ MilestonesSaved \/ PersistRoadmap \/ ExtractKeywords \/ Complete
  \/ Undo \/ Abandon \/ Cancel \/ Crash \/ OtherJob

Spec == Init /\ [][Next]_vars

-----------------------------------------------------------------------------
(***************************************************************************)
(* Properties.                                                             *)
(***************************************************************************)
\* Every variable has its type, and items are left only inside their loop.
TypeOK ==
  /\ kind \in {"normal", "full"} /\ at \in Steps /\ artifact \in {"kb", "uv"}
  /\ left \subseteq Quests \cup NewQuests \cup Milestones
  /\ left # {} => at \in {"saveQuests", "saveMilestones"}
  /\ world \subseteq Effects /\ astray \subseteq Effects
  /\ result \subseteq Nameable /\ changed \subseteq Milestones
  /\ rb \in Seq(SUBSET Effects)
  /\ status \in {"RUNNING", "ANALYSIS_JOB_COMPLETED", "NOTIFICATION_QUEUED"}
  /\ cancelled \in BOOLEAN /\ alive \in BOOLEAN
  /\ completed \subseteq mine \cup theirs
  /\ mine \cup theirs \cup asked \subseteq Quests
  /\ other \in {"waiting", "saving", "succeeded", "undone"}

\* What a rollback never touches: last_evaluated_at, and milestone evaluations
\* of a job that changed no milestone's status (no closure is added for them).
Residue == Stamps \cup (IF changed = {} THEN MilestoneEvals ELSE {})

\* A failed job leaves only the residue, calls whose outcome it could not know
\* and calls it could not undo, at whichever step it failed.
FailureLeavesNoTrace ==
  (at = "abandon" \/ status = "NOTIFICATION_QUEUED") =>
    world \subseteq Residue \cup astray

\* A report row stands without its S3 object in two cases only: the rollback,
\* which deletes the object first, comes to the row with its very next call (and
\* may die before it), or a call about the row itself gave no sure answer: its
\* insert took effect unnoticed, or its deletion failed.
NextUndo == IF rb = <<>> THEN {} ELSE Head(rb)

RowHasObject ==
  \A x \in {"kb", "uv"} :
    Row(x) \in world =>
      Object(x) \in world \/ Row(x) \in astray \/ (at = "undo" /\ Row(x) \in NextUndo)

\* The rollback goes backwards: whatever the job derived from its knowledge
\* base goes before the row of the knowledge base does.
DerivedNeedsKB ==
  (world \ (Residue \cup astray)) \subseteq {Object("kb"), Row("kb")}
    \/ Row("kb") \in world

\* What S3 and the database hold of a job fits together all through its life
\* and its rollback and after its death, but for the two kinds of row without an
\* object and for effects gone astray.
StorageInv == TypeOK /\ RowHasObject /\ DerivedNeedsKB

\* Nothing is rolled back once the roadmap is replaced or keywords are stored,
\* for neither has an undo.
FinalIsFinal ==
  (world \ astray) \cap Final # {} => at \in {"keywords", "complete", "end"}

\* The notification of a finished job names what the database holds: all of
\* it, apart from calls whose reply was lost, and nothing else.
ResultIsStored ==
  at \in {"complete", "end"} => (world \cap Nameable) \ astray = result \ astray

\* Two jobs evaluate the quests of a project, and rolling back goes by id: a
\* completed quest is active again only if a job that completed it took that
\* back.  Where both completed it, one rollback undoes what the other announced.
CompletionStays ==
  \A q \in (mine \cup theirs) \ completed :
    \/ q \in mine /\ <<"done", q>> \notin world
    \/ q \in theirs /\ other = "undone"
=============================================================================
