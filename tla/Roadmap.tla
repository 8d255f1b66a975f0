------------------------------- MODULE Roadmap -------------------------------
(***************************************************************************)
(* The roadmap of one project across its jobs (src/artifact/roadmap, the   *)
(* roadmap and milestone queries of src/db, and the steps of the           *)
(* strategies that call them): a full scan has a plan generated, links new *)
(* quests to it by key and replaces the stored roadmap; a normal analysis  *)
(* evaluates the milestones it read earlier, raises their statuses and, if *)
(* it fails later, takes that back.  Any two jobs may overlap: a project   *)
(* has a clone per installation, and the lock of a clone may be overwritten *)
(* or deleted, as it may be left behind (module Workspace).                *)
(***************************************************************************)
EXTENDS Naturals, FiniteSets, Sequences, SequencesExt

CONSTANTS
  Scans, Evals,     \* full scans, each with a new quest, and normal analyses
  Names, Words,     \* what keys are named and statuses called
  Plans,            \* roadmaps the AI may answer with
  Results,          \* evaluation results the AI may answer with
  MaxAnswer,        \* bound: evaluations in one answer
  MaxErrors         \* bound: database calls that report an error

Jobs == Scans \cup Evals

\* A key: the numbers at its end, and the name before them: "a" and 3 for "a-3".
Key == [name : Names, numbers : Seq(Nat)]
Named(name) == [name |-> name, numbers |-> <<>>]
WithNumber(key, i) == [name |-> key.name, numbers |-> Append(key.numbers, i)]

\* A roadmap as the AI writes it.
Raw == [phases : Seq(Key), milestones : Seq([key : Key, phase : Key, status : Words])]
Statuses == {"PENDING", "IN_PROGRESS", "ACHIEVED", "FAILED"}

ASSUME RoadmapAssumption ==
  /\ {"", "phase", "milestone"} \subseteq Names /\ Statuses \subseteq Words
  /\ Scans \cap Evals = {}
  /\ MaxAnswer \in Nat /\ MaxErrors \in Nat
  /\ Plans \subseteq Raw

VARIABLES
  pc,           \* per job: the next step
  phases,       \* rows of project_phase
  milestones,   \* rows of project_milestone, each with the key it had in its plan
  lastId,       \* the auto-increment keys
  related,      \* per quest in the table: related_milestone_id, 0 for NULL
  evaluations,  \* rows of project_milestone_evaluation
  plan,         \* per scan: its plan, normalised once
  seen,         \* per scan: ids of the rows its transaction has read
  link,         \* per scan: the milestone key its quest names
  read,         \* per analysis: the statuses it fetched, by milestone id
  left,         \* per analysis: how many evaluations of the answer are unsaved
  prev,         \* per analysis: prevStatuses, for the rollback
  errors,
  overlapped,   \* history: jobs that ran at the same time as another
  untame,       \* history: scans whose plan is not tame (see TamePlan)
  muddled,      \* history: the rows come of such a plan, or of several transactions
  botched       \* history: jobs with a database call that reported an error

rows == <<phases, milestones, lastId>>
history == <<untame, muddled>>
vars == <<pc, rows, related, evaluations, plan, seen, link, read, left, prev,
          errors, overlapped, history, botched>>
local == <<plan, seen, link, read, left, prev>>

Idle == {"new", "done", "failed"}
Steps == Idle \cup {"generate", "quests", "persist", "replace", "fetch", "ask", "evaluate", "rest", "undo"}
Final == {"ACHIEVED", "FAILED"}
Empty == [x \in {} |-> x]

GoTo(j, step) == pc' = [pc EXCEPT ![j] = step]

\* A job that ends forgets what it knew.
EndEval(j, step) ==
  /\ GoTo(j, step)
  /\ read' = [read EXCEPT ![j] = Empty] /\ prev' = [prev EXCEPT ![j] = Empty]
EndScan(j, step) ==
  /\ GoTo(j, step)
  /\ plan' = [plan EXCEPT ![j] = <<>>] /\ link' = [link EXCEPT ![j] = Named("")]
  /\ seen' = [seen EXCEPT ![j] = {}]

\* A database call that reports an error may have taken effect.
Fails(j) == errors < MaxErrors /\ errors' = errors + 1 /\ botched' = botched \cup {j}
Works == UNCHANGED <<errors, botched>>

(***************************************************************************)
(* Plan.Normalize                                                          *)
(***************************************************************************)
Numbered(raw, default) ==
  [i \in DOMAIN raw |-> IF raw[i] = Named("") THEN WithNumber(Named(default), i) ELSE raw[i]]

\* A key that an earlier element has by now gets its own number appended.
UniqueKeysMutant(raw) == [i \in DOMAIN raw |-> WithNumber(raw[i], i)]
UniqueKeys(raw) ==
  LET keys[i \in DOMAIN raw] ==
        IF \E k \in 1..(i - 1) : keys[k] = raw[i] THEN WithNumber(raw[i], i) ELSE raw[i]
  IN keys

\* Anything else is taken for PENDING.
normalizeMilestoneStatus(s) ==
  CASE s \in {"IN_PROGRESS", "FAILED"} -> s
    [] s \in {"ACHIEVED", "COMPLETED"} -> "ACHIEVED"
    [] OTHER -> "PENDING"

\* The keys of the milestones of a plan.
Keys(p) == [i \in DOMAIN p.milestones |-> p.milestones[i].key]

\* An unknown phase is replaced by the first one.
Normalize(p) ==
  LET phaseKeys == UniqueKeys(Numbered(p.phases, "phase"))
      raw       == Keys(p)
      keys      == UniqueKeys(Numbered(raw, "milestone"))
      InPhase(k) == IF k \in ToSet(phaseKeys) THEN k ELSE phaseKeys[1]
  IN [phases |-> phaseKeys,
      milestones |-> [i \in DOMAIN raw |->
        [key |-> keys[i], phase |-> InPhase(p.milestones[i].phase),
         status |-> normalizeMilestoneStatus(p.milestones[i].status)]]]

\* Normalize reports an error for the others.
WellFormed(p) == p.phases # <<>> /\ p.milestones # <<>>

\* Whether no key of a plan is another of its keys with the place of that one
\* appended twice (a-4-4 next to an a in the fourth place): such a key stays double.
Tame(raw) == \A i, k \in DOMAIN raw : raw[i] # WithNumber(WithNumber(raw[k], k), k)
TamePlan(p) == Tame(Numbered(p.phases, "phase")) /\ Tame(Numbered(Keys(p), "milestone"))

(***************************************************************************)
(* Rules of the evaluation, each after a plausible mistake (...Mutant).    *)
(***************************************************************************)
\* WHERE pm.status IN ('PENDING', 'IN_PROGRESS').
ActiveMutant == Statuses \ {"FAILED"}
Active == {"PENDING", "IN_PROGRESS"}

Rank(s) == CASE s = "PENDING" -> 0 [] s = "IN_PROGRESS" -> 1
             [] s = "ACHIEVED" -> 2 [] s = "FAILED" -> 3
shouldUpgrade(current, next) == Rank(next) > Rank(current)

StatusNow(id) == (CHOOSE m \in milestones : m.id = id).status
WithStatus(status, ids) ==
  {IF m.id \in ids THEN [m EXCEPT !.status = status[m.id]] ELSE m : m \in milestones}

\* What the rollback will restore: the status read at the start.
PreviousMutant(j, id) == IF \E m \in milestones : m.id = id THEN StatusNow(id) ELSE read[j][id]
Previous(j, id) == read[j][id]

\* deleteProjectRoadMapTx: quests are unlinked from the milestones it deletes.
UnlinkedMutant(j) == related
Unlinked(j) ==
  [q \in DOMAIN related |-> IF related[q] \in seen[j] THEN 0 ELSE related[q]]

Init ==
  /\ pc = [j \in Jobs |-> "new"]
  /\ phases = {} /\ milestones = {} /\ lastId = 0
  /\ related = Empty /\ evaluations = {}
  /\ plan = [j \in Scans |-> <<>>] /\ link = [j \in Scans |-> Named("")]
  /\ seen = [j \in Scans |-> {}]
  /\ read = [j \in Evals |-> Empty] /\ left = [j \in Evals |-> 0]
  /\ prev = [j \in Evals |-> Empty]
  /\ errors = 0 /\ overlapped = {} /\ botched = {}
  /\ untame = {} /\ muddled = FALSE

\* A job finds its clone locked, rightly or not, or goes to work.
Start(j) ==
  LET others == {k \in Jobs \ {j} : pc[k] \notin Idle} IN
  /\ pc[j] = "new"
  /\ \/ GoTo(j, "failed") /\ UNCHANGED overlapped
     \/ /\ GoTo(j, IF j \in Scans THEN "generate" ELSE "fetch")
        /\ overlapped' = IF others = {} THEN overlapped ELSE overlapped \cup others \cup {j}
  /\ UNCHANGED <<rows, related, evaluations, local, errors, history, botched>>

(***************************************************************************)
(* A full scan: Generate, then the new quest, then Persist.                *)
(***************************************************************************)
Generate(j) ==
  /\ pc[j] = "generate"
  /\ \/ \E p \in Plans :
          /\ WellFormed(p) /\ plan' = [plan EXCEPT ![j] = Normalize(p)] /\ GoTo(j, "quests")
          /\ untame' = IF TamePlan(p) THEN untame ELSE untame \cup {j}
     \/ GoTo(j, "failed") /\ UNCHANGED <<plan, untame>>
  /\ UNCHANGED <<rows, related, evaluations, seen, link, read, left, prev, errors, overlapped,
                 muddled, botched>>

\* The quest's AI saw the keys of the plan; it names one of them, or another.
SaveQuest(j) ==
  /\ pc[j] = "quests"
  /\ related' = [q \in DOMAIN related \cup {j} |-> IF q = j THEN 0 ELSE related[q]]
  /\ \E k \in {plan[j].milestones[i].key : i \in DOMAIN plan[j].milestones} \cup {Named("?")} :
       link' = [link EXCEPT ![j] = k]
  /\ GoTo(j, "persist") \/ GoTo(j, "undo")
  /\ UNCHANGED <<rows, evaluations, plan, seen, read, left, prev, errors, overlapped, history,
                 botched>>

\* ToDBInputs gathers under each phase the milestones that name its key.
Inputs(p) == {r \in (DOMAIN p.phases) \X (DOMAIN p.milestones) : p.milestones[r[2]].phase = p.phases[r[1]]}
UpTo(r, inputs) == {q \in inputs : q[1] < r[1] \/ (q[1] = r[1] /\ q[2] <= r[2])}

\* The rows ReplaceProjectRoadMap inserts in this order, numbered from lastId.
Inserted(p) ==
  LET first == lastId + Len(p.phases)
  IN [phases |-> {[id |-> lastId + i, key |-> p.phases[i]] : i \in DOMAIN p.phases},
      milestones |->
        {[id |-> first + Cardinality(UpTo(r, Inputs(p))), phase |-> lastId + r[1],
          key |-> p.milestones[r[2]].key, status |-> p.milestones[r[2]].status] : r \in Inputs(p)},
      last |-> first + Cardinality(Inputs(p))]

\* MilestoneIDsByKey: the last milestone inserted with the key.
LinkTarget(new, key) ==
  LET ids == {m.id : m \in {n \in new.milestones : n.key = key}}
  IN IF ids = {} THEN 0 ELSE Max(ids)

\* The transaction reads, in one snapshot and without locking, which rows to delete.
BeginReplace(j) ==
  /\ pc[j] = "persist" /\ GoTo(j, "replace")
  /\ seen' = [seen EXCEPT ![j] = {p.id : p \in phases} \cup {m.id : m \in milestones}]
  /\ UNCHANGED <<rows, related, evaluations, plan, link, read, left, prev, errors, overlapped,
                 history, botched>>

\* Persist normalises a second time what Generate normalised already.  The rows
\* that were read are deleted by their ids, and those of the plan inserted.
Kept(table, j) == {r \in table : r.id \notin seen[j]}
Replace(j) ==
  LET new == Inserted(Normalize(plan[j]))
  IN /\ phases' = Kept(phases, j) \cup new.phases
     /\ milestones' = Kept(milestones, j) \cup new.milestones
     /\ lastId' = new.last
     /\ related' = [Unlinked(j) EXCEPT ![j] = LinkTarget(new, link[j])]
     /\ muddled' = (j \in untame \/ Kept(phases, j) # {} \/ Kept(milestones, j) # {})

\* The transaction commits or is rolled back, whatever is reported.
Persist(j) ==
  /\ pc[j] = "replace"
  /\ \/ Replace(j) /\ Works /\ EndScan(j, "done")
     \/ /\ Fails(j) /\ GoTo(j, "undo") /\ UNCHANGED <<plan, seen, link>>
        /\ Replace(j) \/ UNCHANGED <<rows, related, muddled>>
  /\ UNCHANGED <<evaluations, read, left, prev, overlapped, untame>>

\* The rollback deletes the new quest.
UndoScan(j) ==
  /\ pc[j] = "undo" /\ j \in Scans
  /\ EndScan(j, "failed")
  /\ \/ related' = [q \in DOMAIN related \ {j} |-> related[q]] /\ Works
     \/ UNCHANGED related /\ Fails(j)
  /\ UNCHANGED <<rows, evaluations, read, left, prev, overlapped, history>>

(***************************************************************************)
(* A normal analysis: read, ask, save one evaluation after the other.      *)
(***************************************************************************)
FetchActiveMilestones(j) ==
  LET active == {m \in milestones : m.status \in Active} IN
  /\ pc[j] = "fetch"
  /\ \/ /\ active # {} /\ GoTo(j, "ask")
        /\ read' = [read EXCEPT ![j] =
             [id \in {m.id : m \in active} |-> (CHOOSE m \in active : m.id = id).status]]
     \/ GoTo(j, "rest") /\ UNCHANGED read
  /\ UNCHANGED <<rows, related, evaluations, plan, seen, link, left, prev, errors, overlapped,
                 history, botched>>

EvaluateMilestones(j) ==
  /\ pc[j] = "ask"
  /\ \/ \E n \in 0..MaxAnswer : left' = [left EXCEPT ![j] = n] /\ GoTo(j, "evaluate")
     \/ GoTo(j, "rest") /\ UNCHANGED left
  /\ UNCHANGED <<rows, related, evaluations, plan, seen, link, read, prev, errors, overlapped,
                 history, botched>>

\* One round of the loop of SaveMilestoneEvalResults: the evaluation is stored,
\* then the status is raised if it is above the one that was read.  The answer
\* may repeat a milestone, and name one (0) that was not asked about.
SaveEvaluation(j, id, result) ==
  LET new == normalizeMilestoneStatus(result)
      raised == WithStatus([i \in {id} |-> new], {id})
      row == [milestone |-> id, job |-> j]
  IN
  /\ pc[j] = "evaluate" /\ left[j] > 0
  /\ left' = [left EXCEPT ![j] = @ - 1]
  /\ \/ id \notin DOMAIN read[j] /\ Works /\ UNCHANGED <<evaluations, milestones, prev>>
     \/ /\ id \in DOMAIN read[j] /\ Fails(j)
        /\ evaluations' \in {evaluations, evaluations \cup {row}}
        /\ UNCHANGED <<milestones, prev>>
     \/ /\ id \in DOMAIN read[j] /\ evaluations' = evaluations \cup {row}
        /\ IF shouldUpgrade(read[j][id], new)
           THEN \/ /\ Works /\ milestones' = raised
                   /\ prev' = [prev EXCEPT ![j] =
                        [i \in DOMAIN @ \cup {id} |-> IF i = id THEN Previous(j, i) ELSE @[i]]]
                \/ Fails(j) /\ milestones' \in {milestones, raised} /\ UNCHANGED prev
           ELSE Works /\ UNCHANGED <<milestones, prev>>
  /\ UNCHANGED <<pc, phases, lastId, related, plan, seen, link, read, overlapped, history>>

Saved(j) ==
  /\ pc[j] = "evaluate" /\ left[j] = 0 /\ GoTo(j, "rest")
  /\ UNCHANGED <<rows, related, evaluations, local, errors, overlapped, history, botched>>

\* The user view and the keywords succeed, or fail and start the rollback.
Rest(j) ==
  /\ pc[j] = "rest"
  /\ \/ EndEval(j, "done")
     \/ GoTo(j, "undo") /\ UNCHANGED <<read, prev>>
  /\ UNCHANGED <<rows, related, evaluations, plan, seen, link, left, errors, overlapped, history,
                 botched>>

\* Only a job that raised a status has an undo.  RevertMilestoneStatuses goes
\* through the map in any order and stops at the first error.
UndoEval(j) ==
  /\ pc[j] = "undo" /\ j \in Evals /\ EndEval(j, "failed")
  /\ IF DOMAIN prev[j] = {}
     THEN Works /\ UNCHANGED <<milestones, evaluations>>
     ELSE \E deleted \in BOOLEAN, reverted \in SUBSET DOMAIN prev[j] :
            /\ evaluations' = IF deleted THEN {e \in evaluations : e.job # j} ELSE evaluations
            /\ milestones' = WithStatus(prev[j], reverted)
            /\ IF deleted /\ reverted = DOMAIN prev[j] THEN Works ELSE Fails(j)
  /\ UNCHANGED <<phases, lastId, related, plan, seen, link, left, overlapped, history>>

Next ==
  \/ \E j \in Jobs : Start(j)
  \/ \E j \in Scans : Generate(j) \/ SaveQuest(j) \/ BeginReplace(j) \/ Persist(j) \/ UndoScan(j)
  \/ \E j \in Evals :
       \/ FetchActiveMilestones(j) \/ EvaluateMilestones(j)
       \/ \E id \in DOMAIN read[j] \cup {0}, result \in Results : SaveEvaluation(j, id, result)
       \/ Saved(j) \/ Rest(j) \/ UndoEval(j)

Spec == Init /\ [][Next]_vars

-----------------------------------------------------------------------------
(***************************************************************************)
(* Properties.                                                             *)
(***************************************************************************)
\* Every variable has its type.
TypeOK ==
  /\ pc \in [Jobs -> Steps] /\ lastId \in Nat
  /\ \A p \in phases : p.id \in 1..lastId
  /\ \A m \in milestones :
       /\ m.id \in 1..lastId /\ m.status \in Statuses /\ m.phase \in {p.id : p \in phases}
  /\ DOMAIN related \subseteq Scans /\ \A q \in DOMAIN related : related[q] \in 0..lastId
  /\ \A e \in evaluations : e.job \in Evals /\ e.milestone \in 1..lastId
  /\ \A j \in Evals : DOMAIN prev[j] \subseteq DOMAIN read[j]
  /\ errors \in 0..MaxErrors /\ overlapped \subseteq Jobs /\ botched \subseteq Jobs
  /\ untame \subseteq Scans /\ muddled \in BOOLEAN

\* A quest is linked to a milestone of the roadmap that is stored, or to none:
\* replacing a roadmap leaves no link to a milestone of the old one.
LinksResolve ==
  \A q \in DOMAIN related : related[q] # 0 => \E m \in milestones : m.id = related[q]

\* For plans with repeated, missing and numbered keys a stored roadmap has every
\* milestone once: the second normalisation, in Persist, parts keys that the
\* first one made equal by numbering.  That does not hold of a plan that is not
\* tame, nor when a scan stored its roadmap after another scan had read what to
\* delete: then both roadmaps stay, until the next scan that overlaps no other.
MilestonesOnce ==
  muddled \/ /\ \A p, q \in phases : p.key = q.key => p = q
             /\ \A m, n \in milestones : m.key = n.key => m = n

\* The rows of a project have sound links at every moment, while full scans
\* replace them and analyses evaluate them, and form one roadmap but for the two
\* cases named.
RoadmapInv == TypeOK /\ LinksResolve /\ MilestonesOnce

\* A quest that names a milestone of the plan the AI was shown is linked to the
\* milestone with that key, although the plan is normalised again in between.
LinkFollowsKey ==
  [][\A j \in Scans :
       pc[j] = "replace" /\ pc'[j] = "done" /\ link[j] # Named("?") =>
         \E m \in milestones' : m.id = related'[j] /\ m.key = link[j]]_vars

\* The rollback of an analysis that ran alone, and whose database calls worked,
\* restores every status to what it was before, however often the answer
\* evaluated a milestone, and takes back its evaluations.
RollbackRestores ==
  [][\A j \in Evals \ overlapped :
       pc[j] = "undo" /\ pc'[j] = "failed" /\ j \notin botched' =>
         \A m \in milestones' : m.id \in DOMAIN prev[j] =>
           /\ m.status = read[j][m.id]
           /\ \A e \in evaluations' : e.job # j]_vars

\* A milestone that is achieved or failed stays so until the roadmap is
\* replaced, unless the job that made it so goes on, or jobs overlap.
FinalStays ==
  [][\A m \in milestones, n \in milestones' :
       m.id = n.id /\ m.status \in Final /\ m.status # n.status =>
         \E j \in Evals :
           \/ m.id \in DOMAIN prev[j] /\ pc[j] \in {"evaluate", "undo"}
           \/ j \in overlapped \/ j \in botched]_vars

(***************************************************************************)
(* What the code says of itself and does not keep.                         *)
(***************************************************************************)
\* milestoneEval.go: shouldUpgrade prevents downgrades; so saving an answer
\* never lowers a status.
NeverDowngraded ==
  [][\A m \in milestones, n \in milestones', j \in Evals :
       pc[j] = "evaluate" /\ pc'[j] = "evaluate" /\ m.id = n.id /\ left'[j] # left[j] =>
         Rank(n.status) >= Rank(m.status)]_vars
=============================================================================
