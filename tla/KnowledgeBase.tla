---------------------------- MODULE KnowledgeBase ----------------------------
(***************************************************************************)
(* The PROJECT_KB reports of one project (project_analysis_reports), as    *)
(* the jobs of that project read, extend and take them back: steps 8 to 14 *)
(* of the normal analysis, 9 and 10 of the full scan, the report queries   *)
(* of src/db and UpdateProjectContext.  Commits of the branch are numbered *)
(* 1, 2, ...; each push adds one.  Jobs on the same clone exclude each     *)
(* other by its lock as far as the lock goes: it is looked at first and    *)
(* written later, checkouts and cleanups may delete it, and removing it    *)
(* may fail (module Workspace).  A project may have several clones, one    *)
(* per installation and repository.                                        *)
(***************************************************************************)
EXTENDS Naturals, FiniteSets, FiniteSetsExt

CONSTANTS
  Jobs,
  FullScans,    \* the jobs that are full scans; the others analyse a push
  PushOf,       \* the commit such a job analyses: after_commit_hash
  Merges,       \* pushes of a merge commit
  Clones,
  Layouts,      \* the ways the jobs may be spread over the clones
  None,
  MaxCommit,    \* bound: pushes
  MaxErrors     \* bound: database and git calls whose error is only logged

ASSUME KnowledgeBaseAssumption ==
  /\ FullScans \subseteq Jobs /\ Merges \subseteq Jobs \ FullScans
  /\ MaxCommit \in Nat \ {0} /\ MaxErrors \in Nat
  /\ PushOf \in [Jobs -> 1..MaxCommit] /\ Layouts \subseteq [Jobs -> Clones]
  /\ None \notin Jobs /\ None \notin Nat

VARIABLES
  cloneOf,      \* per job: the clone it works in, fixed from the start
  head,         \* the tip of the branch
  pc,           \* per job: the next step
  holder,       \* per clone: the job that holds its lock
  rows,         \* PROJECT_KB rows of the project
  lastId,       \* the auto-increment key
  base,         \* per job: the row it read as the latest
  version,      \* per job: the version it will store
  guessing,     \* jobs whose version query failed
  own,          \* per job: the id of the row it stored
  errors,
  disturbed     \* history: clones whose lock was overwritten or deleted

lockVars == <<holder, disturbed>>
vars == <<cloneOf, head, pc, lockVars, rows, lastId, base, version, guessing, own, errors>>
local == <<base, version, guessing, own>>

\* A row, with the commit its analysis describes and three facts about it
\* the table does not record: guessed (its version is not from the query),
\* sound (the analysis follows from that of its base) and blamed (the code had
\* a known reason to lose changes).
Report == [id : Nat, version : Nat \ {0}, prev : Nat, before : 0..MaxCommit,
           after : 0..MaxCommit, at : 1..MaxCommit,
           guessed : BOOLEAN, sound : BOOLEAN, blamed : BOOLEAN]
\* 0 stands for NULL in prev and for "" in before and after.

Steps == {"new", "grab", "latest", "version", "insert", "rest", "undo", "unlock",
          "done", "failed"}

GoTo(j, step) == pc' = [pc EXCEPT ![j] = step]
Logged == errors < MaxErrors /\ errors' = errors + 1

(***************************************************************************)
(* Queries and rules, each after a plausible mistake in it (...Mutant).    *)
(***************************************************************************)
\* SELECT COALESCE(MAX(version), 0) + 1.
NextReportVersionMutant == Max({0} \cup {r.version : r \in rows})
NextReportVersion == Max({0} \cup {r.version : r \in rows}) + 1

\* ORDER BY version DESC, and gorm's First adds the primary key, ascending.
Latest == CHOOSE r \in rows : \A s \in rows :
            s.version < r.version \/ (s.version = r.version /\ r.id <= s.id)

\* A push follows the commit before it.
BeforeOf(j) == PushOf[j] - 1

\* The commit the diff starts from: the latest knowledge's if it is recorded.
BaseCommitMutant(j) == BeforeOf(j)
BaseCommit(j) == IF base[j].after # 0 THEN base[j].after ELSE BeforeOf(j)

\* git.Diff and DiffFileList: a merge is compared with its first parent.
DiffFrom(j) == IF j \in Merges THEN BeforeOf(j) ELSE BaseCommit(j)

\* Where a job goes that finds the clone locked.
WhenLockedMutant == "latest"
WhenLocked == "failed"

Init ==
  /\ cloneOf \in Layouts
  /\ head \in 1..MaxCommit
  /\ pc = [j \in Jobs |-> "new"] /\ holder = [c \in Clones |-> None]
  /\ rows = {} /\ lastId = 0
  /\ base = [j \in Jobs |-> None]
  /\ version = [j \in Jobs |-> 0] /\ own = [j \in Jobs |-> 0]
  /\ guessing = {}
  /\ errors = 0 /\ disturbed = {}

Push ==
  /\ head < MaxCommit /\ head' = head + 1
  /\ UNCHANGED <<cloneOf, pc, lockVars, rows, lastId, local, errors>>

\* Looking at the lock, and the rename that replaces one made in between.
PeekLock(j) ==
  /\ pc[j] = "new" /\ (j \in FullScans \/ PushOf[j] <= head)
  /\ GoTo(j, IF holder[cloneOf[j]] = None THEN "grab" ELSE WhenLocked)
  /\ UNCHANGED <<cloneOf, head, lockVars, rows, lastId, local, errors>>

CreateLock(j) ==
  LET c == cloneOf[j] IN
  /\ pc[j] = "grab"
  /\ holder' = [holder EXCEPT ![c] = j]
  /\ disturbed' = IF holder[c] = None THEN disturbed ELSE disturbed \cup {c}
  /\ GoTo(j, IF j \in FullScans THEN "version" ELSE "latest")
  /\ UNCHANGED <<cloneOf, head, rows, lastId, local, errors>>

\* A cleanup or the checkout of another job deletes the lock.
LoseLock(c) ==
  /\ holder[c] # None
  /\ holder' = [holder EXCEPT ![c] = None] /\ disturbed' = disturbed \cup {c}
  /\ UNCHANGED <<cloneOf, head, pc, rows, lastId, local, errors>>

\* A normal analysis needs knowledge to extend.
GetLatest(j) ==
  /\ pc[j] = "latest"
  /\ \/ /\ rows # {} /\ base' = [base EXCEPT ![j] = Latest] /\ GoTo(j, "version")
     \/ GoTo(j, "unlock") /\ UNCHANGED base
  /\ UNCHANGED <<cloneOf, head, lockVars, rows, lastId, version, guessing, own, errors>>

\* An error of the query is logged, and the version is 1.
GetVersion(j) ==
  /\ pc[j] = "version"
  /\ \/ version' = [version EXCEPT ![j] = NextReportVersion]
        /\ UNCHANGED <<guessing, errors>>
     \/ version' = [version EXCEPT ![j] = 1]
        /\ guessing' = guessing \cup {j} /\ Logged
  /\ GoTo(j, "insert")
  /\ UNCHANGED <<cloneOf, head, lockVars, rows, lastId, base, own>>

Store(j, report) ==
  /\ rows' = rows \cup {report} /\ lastId' = lastId + 1
  /\ own' = [own EXCEPT ![j] = lastId + 1]
  /\ GoTo(j, "rest")

\* A full scan describes the tip it checked out, and records no commit.
StoreFullScan(j) ==
  /\ pc[j] = "insert" /\ j \in FullScans
  /\ \E tip \in 1..head :
       Store(j, [id |-> lastId + 1, version |-> version[j], prev |-> 0,
                 before |-> 0, after |-> 0, at |-> tip, guessed |-> j \in guessing,
                 sound |-> TRUE, blamed |-> FALSE])
  /\ UNCHANGED <<cloneOf, head, lockVars, base, version, guessing, errors>>

\* UpdateProjectContext keeps the base's analysis when the file list is empty,
\* also because listing failed, and when the AI's answer does not parse.
StoreUpdate(j) ==
  /\ pc[j] = "insert" /\ j \notin FullScans
  /\ \E listed, parsed \in BOOLEAN :
     LET changes == DiffFrom(j) # PushOf[j]
         kept    == ~listed \/ ~changes \/ ~parsed
     IN /\ IF listed THEN UNCHANGED errors ELSE Logged
        /\ Store(j, [id |-> lastId + 1, version |-> version[j], prev |-> base[j].id,
                     before |-> BaseCommit(j), after |-> PushOf[j], at |-> PushOf[j],
                     guessed |-> j \in guessing,
                     sound |-> /\ base[j].sound
                               /\ base[j].at = IF kept THEN PushOf[j] ELSE DiffFrom(j),
                     blamed |-> \/ base[j].blamed
                                \/ base[j].after = 0 /\ base[j].at # BeforeOf(j)
                                \/ DiffFrom(j) # BaseCommit(j)
                                \/ changes /\ kept])
  /\ UNCHANGED <<cloneOf, head, lockVars, base, version, guessing>>

\* Any step up to the insert may fail: nothing is stored yet.
FailEarly(j) ==
  /\ pc[j] \in {"version", "insert"}
  /\ GoTo(j, "unlock")
  /\ UNCHANGED <<cloneOf, head, lockVars, rows, lastId, local, errors>>

\* Quests, user view and roadmap succeed, or fail and start the rollback.
Finish(j) ==
  /\ pc[j] = "rest"
  /\ GoTo(j, "unlock") \/ GoTo(j, "undo")
  /\ UNCHANGED <<cloneOf, head, lockVars, rows, lastId, local, errors>>

\* DeleteAnalysisReport; its error is logged.
Undo(j) ==
  /\ pc[j] = "undo"
  /\ \/ rows' = {r \in rows : r.id # own[j]} /\ UNCHANGED errors
     \/ UNCHANGED rows /\ Logged
  /\ GoTo(j, "unlock")
  /\ UNCHANGED <<cloneOf, head, lockVars, lastId, local>>

\* The lock file is removed, whoever wrote it, or that fails and is logged.  Handle
\* returns, and its variables are gone.
Unlock(j) ==
  /\ pc[j] = "unlock"
  /\ \/ holder' = [holder EXCEPT ![cloneOf[j]] = None] /\ UNCHANGED errors
     \/ UNCHANGED holder /\ Logged
  /\ GoTo(j, "done")
  /\ base' = [base EXCEPT ![j] = None] /\ version' = [version EXCEPT ![j] = 0]
  /\ own' = [own EXCEPT ![j] = 0] /\ guessing' = guessing \ {j}
  /\ UNCHANGED <<cloneOf, head, rows, lastId, disturbed>>

Next ==
  \/ Push
  \/ \E j \in Jobs :
       \/ PeekLock(j) \/ CreateLock(j) \/ GetLatest(j) \/ GetVersion(j)
       \/ StoreFullScan(j) \/ StoreUpdate(j) \/ FailEarly(j) \/ Finish(j) \/ Undo(j)
       \/ Unlock(j)
  \/ \E c \in Clones : LoseLock(c)

Spec == Init /\ [][Next]_vars

-----------------------------------------------------------------------------
(***************************************************************************)
(* Properties.                                                             *)
(***************************************************************************)
\* Every variable has its type; versions start at 1 and keys are not reused.
TypeOK ==
  /\ cloneOf \in Layouts
  /\ head \in 1..MaxCommit /\ pc \in [Jobs -> Steps]
  /\ holder \in [Clones -> Jobs \cup {None}]
  /\ \A r \in rows : r \in Report /\ r.id \in 1..lastId
  /\ \A j \in Jobs : base[j] # None => base[j] \in Report
  /\ version \in [Jobs -> Nat] /\ guessing \subseteq Jobs
  /\ own \in [Jobs -> 0..lastId] /\ errors \in 0..MaxErrors
  /\ disturbed \subseteq Clones

\* One clone, whose lock nobody replaced or deleted under a job.
OneClone == (\A i, j \in Jobs : cloneOf[i] = cloneOf[j]) /\ disturbed = {}

\* If the project has one clone with a lock that held, a later report, rolled
\* back ones aside, has a higher version, unless its own version query failed:
\* versions are not reused while a report with them is there.
VersionsFollowIds ==
  OneClone =>
    \A r, s \in rows : r.id < s.id /\ ~s.guessed => r.version < s.version

\* If the project has one such clone, its rows form one chain: an update extends
\* the report stored just before it, and no rollback takes that one away.
ChainUnbroken ==
  OneClone /\ (\A r \in rows : ~r.guessed) =>
    \A r \in rows : r.prev # 0 =>
      \E s \in rows : s.id = r.prev /\ \A t \in rows : t.id <= s.id \/ t.id >= r.id

\* As long as the lock of its one clone holds, the reports of a project are a
\* history: whatever fails, comes late, is refused or rolled back, versions and
\* the chain of updates agree with the order of the rows.
ReportsInv == TypeOK /\ VersionsFollowIds /\ ChainUnbroken

\* The diff of an update starts where the knowledge it extends ends, however
\* many pushes failed, came late or ran side by side.  The code loses changes
\* in four cases, which it inherits: a full scan recorded no commit and was not
\* of the push's parent, a merge's parent is not where the knowledge ends, and
\* an unreadable file list or answer keeps the old text for changed files.
KBSound == \A r \in rows : r.sound \/ r.blamed
=============================================================================
