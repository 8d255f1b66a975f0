------------------------------ MODULE Workspace ------------------------------
(***************************************************************************)
(* The clones under WorkspaceBaseDir that concurrent jobs share: cleanup,  *)
(* clone or fetch, checkout, the .lock file, the analysis that reads the   *)
(* working tree, and the deferred removal of the lock (src/disk, src/git   *)
(* and steps 2 to 7 of both strategies).  A clone lives in                 *)
(* <base>/<installation>/<repository>, its lock inside it.                 *)
(***************************************************************************)
EXTENDS Naturals, FiniteSets

CONSTANTS
  Jobs,
  Repos, Installations,
  RepoOf,       \* the repository a job analyses
  InstOf,       \* the installation directory a repository lies in
  CommitOf,     \* the commit a job must analyse; Tip for a full scan
  Tip,          \* the tip of the branch, which CheckoutBranch selects
  None,
  MaxSweeps,    \* bound: times the disk is found 70% full
  MaxFaults,    \* bound: removals of a lock or of a failed clone that fail
  MaxCrashes    \* bound: times the process dies

ASSUME WorkspaceAssumption ==
  /\ RepoOf \in [Jobs -> Repos] /\ InstOf \in [Repos -> Installations]
  /\ None \notin Jobs /\ Tip # None
  /\ Repos \cap Installations = {}
  /\ \A j \in Jobs : CommitOf[j] # None
  /\ MaxSweeps \in Nat /\ MaxFaults \in Nat /\ MaxCrashes \in Nat

VARIABLES
  pc,           \* per job: the next step
  dir,          \* per repository: "absent", "partial", "cloned" or "hollow"
  tree,         \* per repository: the commit checked out
  lock,         \* per directory: the job that wrote <directory>/.lock
  seen,         \* per job: the commits its analysis has read
  toClean,      \* per job: candidates of its cleanup, not yet deleted
  fresh,        \* jobs whose clone found no directory, and will clear it if it fails
  sweeps, crashes, faults,
  disturbed,    \* history: repositories whose lock was overwritten, swept or cleaned
  unremoved,    \* history: jobs that could not remove the lock
  halfMade      \* history: repositories where a failed clone was not cleared away

diskVars == <<dir, tree, lock>>
bounds == <<sweeps, crashes, faults>>
history == <<disturbed, unremoved, halfMade>>
vars == <<pc, diskVars, seen, toClean, fresh, bounds, history>>

Ended == {"done", "failed", "killed"}
Steps == {"new", "cleanup", "sweep", "exists", "clone", "cloning", "fetch", "branch",
          "commit", "peek", "grab", "analyse", "unlockOk", "unlockFail"} \cup Ended
\* Between CreateLockFileAtomic and the deferred RemoveLockAtomic.
Section == {"analyse", "unlockOk", "unlockFail"}

Commits == {CommitOf[j] : j \in Jobs} \cup {Tip}
Dirs == Repos \cup Installations

GoTo(j, step) == pc' = [pc EXCEPT ![j] = step]
ReposIn(i) == {r \in Repos : InstOf[r] = i}
Exists(r) == dir[r] # "absent"
\* git.PlainOpen finds a repository.
HasRepo(r) == dir[r] \in {"partial", "cloned"}

(***************************************************************************)
(* Guards and branches, each after a plausible mistake in it (...Mutant).  *)
(***************************************************************************)
\* IsLocked: whether the lock file exists, whoever wrote it.
IsLockedMutant(r) == lock[r] # None /\ pc[lock[r]] # "killed"
IsLocked(r) == lock[r] # None

\* Where a job goes that finds the repository locked.
WhenLockedMutant == "unlockFail"
WhenLocked == "failed"

\* Where a job goes whose analysis fails: through the deferred removal.
WhenFailedMutant == "failed"
WhenFailed == "unlockFail"

\* What go-git leaves of a clone that failed: PlainClone clears the directory it
\* made, or found empty.
AfterFailedCloneMutant == "partial"
AfterFailedClone == "absent"

\* After clone or fetch: checkout of the branch; after the branch, a normal
\* analysis checks out its commit, a full scan stays at the tip.
AfterBranch(j) == IF CommitOf[j] = Tip THEN "peek" ELSE "commit"

\* The installation directories a cleanup may delete: it looks for a .lock
\* directly inside each, while locks lie one level deeper.
CandidatesMutant ==
  {r \in Repos : Exists(r) /\ lock[r] = None}
Candidates ==
  {i \in Installations : (\E r \in ReposIn(i) : Exists(r)) /\ lock[i] = None}

Init ==
  /\ pc = [j \in Jobs |-> "new"]
  /\ dir = [r \in Repos |-> "absent"] /\ tree = [r \in Repos |-> None]
  /\ lock = [d \in Dirs |-> None]
  /\ seen = [j \in Jobs |-> {}] /\ toClean = [j \in Jobs |-> {}]
  /\ fresh = {} /\ sweeps = 0 /\ crashes = 0 /\ faults = 0
  /\ disturbed = {} /\ unremoved = {} /\ halfMade = {}

Start(j) ==
  /\ pc[j] = "new" /\ GoTo(j, "cleanup")
  /\ UNCHANGED <<diskVars, seen, toClean, fresh, bounds, history>>

(***************************************************************************)
(* IfNeedDoCleanWorkspace: candidates first, then one RemoveAll at a time  *)
(* until usage is at most 30%.  Errors are only logged.                    *)
(***************************************************************************)
Cleanup(j) ==
  /\ pc[j] = "cleanup"
  /\ \/ /\ GoTo(j, "exists") /\ UNCHANGED <<toClean, sweeps>>
     \/ /\ sweeps < MaxSweeps /\ sweeps' = sweeps + 1
        /\ toClean' = [toClean EXCEPT ![j] = Candidates]
        /\ GoTo(j, "sweep")
  /\ UNCHANGED <<diskVars, seen, fresh, crashes, faults, history>>

RemoveAll(j, i) ==
  /\ pc[j] = "sweep" /\ i \in toClean[j]
  /\ dir'  = [r \in Repos |-> IF InstOf[r] = i THEN "absent" ELSE dir[r]]
  /\ tree' = [r \in Repos |-> IF InstOf[r] = i THEN None ELSE tree[r]]
  /\ lock' = [d \in Dirs |-> IF d = i \/ d \in ReposIn(i) THEN None ELSE lock[d]]
  /\ toClean' = [toClean EXCEPT ![j] = @ \ {i}]
  /\ disturbed' = disturbed \cup {r \in ReposIn(i) : IsLocked(r)}
  /\ UNCHANGED <<pc, seen, fresh, bounds, unremoved, halfMade>>

SweepEnds(j) ==
  /\ pc[j] = "sweep"
  /\ GoTo(j, "exists") /\ toClean' = [toClean EXCEPT ![j] = {}]
  /\ UNCHANGED <<diskVars, seen, fresh, bounds, history>>

(***************************************************************************)
(* Clone or fetch, then checkout.  Any of these may fail.                  *)
(***************************************************************************)
CheckDir(j) ==
  /\ pc[j] = "exists"
  /\ GoTo(j, IF Exists(RepoOf[j]) THEN "fetch" ELSE "clone") \/ GoTo(j, "failed")
  /\ UNCHANGED <<diskVars, seen, toClean, fresh, bounds, history>>

\* PlainClone refuses a directory that holds a repository by now; into any other
\* it clones, and remembers whether it found something there.
BeginClone(j) ==
  LET r == RepoOf[j] IN
  /\ pc[j] = "clone"
  /\ \/ /\ ~HasRepo(r)
        /\ dir' = [dir EXCEPT ![r] = "partial"]
        /\ fresh' = IF Exists(r) THEN fresh ELSE fresh \cup {j}
        /\ GoTo(j, "cloning")
     \/ GoTo(j, "failed") /\ UNCHANGED <<dir, fresh>>
  /\ UNCHANGED <<tree, lock, seen, toClean, bounds, history>>

CloneSucceeds(j) ==
  LET r == RepoOf[j] IN
  /\ pc[j] = "cloning" /\ HasRepo(r)
  /\ dir' = [dir EXCEPT ![r] = "cloned"] /\ tree' = [tree EXCEPT ![r] = Tip]
  /\ GoTo(j, "branch") /\ fresh' = fresh \ {j}
  /\ UNCHANGED <<lock, seen, toClean, bounds, history>>

\* A clone that fails clears a directory it made, whatever came into it meanwhile.
CloneCleared(j) ==
  LET r == RepoOf[j] IN
  /\ pc[j] = "cloning" /\ j \in fresh
  /\ dir' = [dir EXCEPT ![r] = IF Exists(r) THEN AfterFailedClone ELSE @]
  /\ tree' = [tree EXCEPT ![r] = None] /\ lock' = [lock EXCEPT ![r] = None]
  /\ disturbed' = IF IsLocked(r) THEN disturbed \cup {r} ELSE disturbed
  /\ GoTo(j, "failed") /\ fresh' = fresh \ {j}
  /\ UNCHANGED <<seen, toClean, bounds, unremoved, halfMade>>

\* What a clone left in a directory that was not empty stays there when it
\* fails, and so it does when clearing fails, whose error nobody sees.
CloneAbandoned(j) ==
  LET r == RepoOf[j] IN
  /\ pc[j] = "cloning"
  /\ IF j \in fresh THEN faults < MaxFaults /\ faults' = faults + 1 ELSE UNCHANGED faults
  /\ halfMade' = IF Exists(r) THEN halfMade \cup {r} ELSE halfMade
  /\ GoTo(j, "failed") /\ fresh' = fresh \ {j}
  /\ UNCHANGED <<diskVars, seen, toClean, sweeps, crashes, disturbed, unremoved>>

EndClone(j) == CloneSucceeds(j) \/ CloneCleared(j) \/ CloneAbandoned(j)

\* Fetching into a half-made clone may complete it.
Fetch(j) ==
  LET r == RepoOf[j] IN
  /\ pc[j] = "fetch"
  /\ \/ /\ HasRepo(r) /\ GoTo(j, "branch")
        /\ dir' \in {dir, [dir EXCEPT ![r] = "cloned"]}
     \/ GoTo(j, "failed") /\ UNCHANGED dir
  /\ UNCHANGED <<tree, lock, seen, toClean, fresh, bounds, history>>

\* A forced checkout may delete untracked files: go-git's does or does not,
\* depending on what the repository ignores; .lock is such a file.
CheckoutTo(j, step, commit, next) ==
  LET r == RepoOf[j] IN
  /\ pc[j] = step
  /\ \/ /\ dir[r] = "cloned"
        /\ tree' = [tree EXCEPT ![r] = commit] /\ GoTo(j, next)
        /\ \/ UNCHANGED <<lock, disturbed>>
           \/ /\ IsLocked(r)
              /\ lock' = [lock EXCEPT ![r] = None] /\ disturbed' = disturbed \cup {r}
     \/ GoTo(j, "failed") /\ UNCHANGED <<tree, lock, disturbed>>
  /\ UNCHANGED <<dir, seen, toClean, fresh, bounds, unremoved, halfMade>>

CheckoutBranch(j) == CheckoutTo(j, "branch", Tip, AfterBranch(j))
Checkout(j) == CheckoutTo(j, "commit", CommitOf[j], "peek")

(***************************************************************************)
(* The lock: a look, then a rename that replaces whatever is there.        *)
(***************************************************************************)
PeekLock(j) ==
  /\ pc[j] = "peek"
  /\ GoTo(j, IF IsLocked(RepoOf[j]) THEN WhenLocked ELSE "grab") \/ GoTo(j, "failed")
  /\ UNCHANGED <<diskVars, seen, toClean, fresh, bounds, history>>

CreateLock(j) ==
  LET r == RepoOf[j] IN
  /\ pc[j] = "grab"
  /\ \/ /\ Exists(r)
        /\ lock' = [lock EXCEPT ![r] = j]
        /\ disturbed' = IF IsLocked(r) THEN disturbed \cup {r} ELSE disturbed
        /\ GoTo(j, "analyse")
     \/ GoTo(j, "failed") /\ UNCHANGED <<lock, disturbed>>
  /\ UNCHANGED <<dir, tree, seen, toClean, fresh, bounds, unremoved, halfMade>>

\* Code graph, diff and file contents are read from the tree as it is then.
ReadTree(j) ==
  /\ pc[j] = "analyse"
  /\ seen' = [seen EXCEPT ![j] = @ \cup {tree[RepoOf[j]]}]
  /\ UNCHANGED <<pc, diskVars, toClean, fresh, bounds, history>>

\* os.MkdirAll(<clone>/artifact) brings a deleted directory back, empty.
WriteArtifact(j) ==
  /\ pc[j] = "analyse" /\ ~Exists(RepoOf[j])
  /\ dir' = [dir EXCEPT ![RepoOf[j]] = "hollow"]
  /\ UNCHANGED <<pc, tree, lock, seen, toClean, fresh, bounds, history>>

EndAnalysis(j) ==
  /\ pc[j] = "analyse"
  /\ (seen[j] # {} /\ GoTo(j, "unlockOk")) \/ GoTo(j, WhenFailed)
  /\ UNCHANGED <<diskVars, seen, toClean, fresh, bounds, history>>

\* RemoveLockAtomic removes the file by name, whoever wrote it; that it could not
\* is only logged, and the lock stays.
RemoveLock(j) ==
  /\ pc[j] \in {"unlockOk", "unlockFail"}
  /\ \/ lock' = [lock EXCEPT ![RepoOf[j]] = None] /\ UNCHANGED <<faults, unremoved>>
     \/ /\ faults < MaxFaults /\ faults' = faults + 1
        /\ unremoved' = unremoved \cup {j} /\ UNCHANGED lock
  /\ GoTo(j, IF pc[j] = "unlockOk" THEN "done" ELSE "failed")
  /\ UNCHANGED <<dir, tree, seen, toClean, fresh, sweeps, crashes, disturbed, halfMade>>

JobStep(j) ==
  \/ Start(j) \/ Cleanup(j) \/ (\E i \in Installations : RemoveAll(j, i)) \/ SweepEnds(j)
  \/ CheckDir(j) \/ BeginClone(j) \/ EndClone(j) \/ Fetch(j) \/ CheckoutBranch(j)
  \/ Checkout(j) \/ PeekLock(j) \/ CreateLock(j) \/ EndAnalysis(j) \/ RemoveLock(j)

\* The process dies: jobs under way are gone, the disk stays as it is.
Crash ==
  /\ crashes < MaxCrashes /\ crashes' = crashes + 1
  /\ pc' = [j \in Jobs |-> IF pc[j] \in Ended \cup {"new"} THEN pc[j] ELSE "killed"]
  /\ toClean' = [j \in Jobs |-> {}] /\ fresh' = {}
  /\ UNCHANGED <<diskVars, seen, sweeps, faults, history>>

Next ==
  \/ \E j \in Jobs : JobStep(j) \/ ReadTree(j) \/ WriteArtifact(j)
  \/ Crash

Spec == Init /\ [][Next]_vars

-----------------------------------------------------------------------------
(***************************************************************************)
(* Properties.                                                             *)
(***************************************************************************)
\* Every variable has its type.
TypeOK ==
  /\ pc \in [Jobs -> Steps]
  /\ dir \in [Repos -> {"absent", "partial", "cloned", "hollow"}]
  /\ tree \in [Repos -> Commits \cup {None}]
  /\ lock \in [Dirs -> Jobs \cup {None}]
  /\ seen \in [Jobs -> SUBSET (Commits \cup {None})]
  /\ toClean \in [Jobs -> SUBSET Installations]
  /\ sweeps \in Nat /\ crashes \in Nat /\ faults \in Nat
  /\ fresh \subseteq Jobs /\ unremoved \subseteq Jobs
  /\ disturbed \subseteq Repos /\ halfMade \subseteq Repos

InSection(r) == {j \in Jobs : RepoOf[j] = r /\ pc[j] \in Section}

\* Two jobs are between lock and unlock of a repository only if one looked
\* before the other's rename, or a cleanup or checkout deleted the lock: no
\* refusal, failure or release path opens the door.
ExclusiveUnlessDisturbed ==
  \A r \in Repos \ disturbed : \A j, k \in InSection(r) : j = k

\* A lock file names a job that still holds it, was killed holding it, or tried
\* to remove it and could not: no return path of the strategies forgets a lock.
LockHasHolder ==
  \A r \in Repos : lock[r] # None =>
    /\ RepoOf[lock[r]] = r
    /\ pc[lock[r]] \in Section \cup {"killed"} \/ lock[r] \in unremoved

\* A half-made clone is one somebody is making, or was killed making, unless the
\* clone went into a directory an artifact had brought back or could not be
\* cleared: otherwise a failed clone never blocks the repository for later jobs.
PartialIsInProgress ==
  \A r \in Repos \ halfMade : dir[r] = "partial" =>
    \E j \in Jobs : RepoOf[j] = r /\ pc[j] \in {"cloning", "killed"}

\* No return path and no cleanup leaves a lock without a holder or a directory
\* without a maker; only the named failures of removing them do.
DiskInv == TypeOK /\ LockHasHolder /\ PartialIsInProgress

\* The lock of a killed job is never taken over: unless a checkout happens to
\* delete it, only the removal of the whole clone frees the repository again.
StaleLockStays ==
  [][\A r \in Repos :
       lock[r] # None /\ pc[lock[r]] = "killed" /\ lock'[r] # lock[r] =>
         \/ dir'[r] = "absent"
         \/ \E j \in Jobs : pc[j] \in {"branch", "commit"} /\ pc'[j] # pc[j]]_vars

(***************************************************************************)
(* What the code says of itself and does not keep.                         *)
(***************************************************************************)
\* disk.go: the lock file is created atomically, or creating it fails.
LockExclusive == \A r \in Repos : \A j, k \in InSection(r) : j = k

\* git.go: checking out the branch after clone or fetch guarantees the right
\* state; so an analysis that completes has read its own commit only.
AnalysisReadsOwnCommit ==
  \A j \in Jobs : pc[j] = "done" => seen[j] = {CommitOf[j]}
=============================================================================
