--------------------------- MODULE Workspace_proofs ---------------------------
(***************************************************************************)
(* Proofs about Workspace for any jobs, repositories, installations and    *)
(* commits and any number of cleanups and crashes: what a lock file says,  *)
(* when the section it guards is exclusive, and who may remove the lock of *)
(* a dead job.                                                             *)
(***************************************************************************)
EXTENDS Workspace, TLAPS

\* The steps of a job that change pc only.
Moves(j) ==
  \/ Start(j) \/ Cleanup(j) \/ SweepEnds(j) \/ CheckDir(j) \/ PeekLock(j) \/ EndAnalysis(j)

\* The types are preserved.
LEMMA TypeStep == TypeOK /\ [Next]_vars => TypeOK'
<1> SUFFICES ASSUME TypeOK, [Next]_vars PROVE TypeOK'
  OBVIOUS
<1> USE WorkspaceAssumption DEF TypeOK, diskVars, bounds, history
<1>1. ASSUME NEW j \in Jobs, Moves(j) PROVE TypeOK'
  <2>1. UNCHANGED <<dir, tree, lock, seen, fresh, crashes, faults, history>>
    BY <1>1 DEF Moves, Start, Cleanup, SweepEnds, CheckDir, PeekLock, EndAnalysis
  <2>2. sweeps' \in Nat /\ toClean' \in [Jobs -> SUBSET Installations]
    BY <1>1 DEF Moves, Start, Cleanup, SweepEnds, CheckDir, PeekLock, EndAnalysis, Candidates
  <2>3. pc' \in [Jobs -> Steps]
    BY <1>1 DEF Moves, Start, Cleanup, SweepEnds, CheckDir, PeekLock, EndAnalysis, GoTo, Steps,
                Ended, WhenLocked, WhenFailed
  <2>4. QED
    BY <2>1, <2>2, <2>3
<1>2. ASSUME NEW j \in Jobs, NEW i \in Installations, RemoveAll(j, i) PROVE TypeOK'
  BY <1>2 DEF RemoveAll, ReposIn
<1>3. ASSUME NEW j \in Jobs, BeginClone(j) \/ Fetch(j) PROVE TypeOK'
  BY <1>3 DEF BeginClone, Fetch, GoTo, Steps, Ended
<1>4. ASSUME NEW j \in Jobs, EndClone(j) PROVE TypeOK'
  <2> USE DEF EndClone, CloneSucceeds, CloneCleared, CloneAbandoned
  <2>1. RepoOf[j] \in Repos /\ Tip \in Commits
    BY DEF Commits
  <2>2. pc' \in [Jobs -> Steps]
    BY <1>4 DEF EndClone, GoTo, Steps, Ended
  <2>3. dir' \in [Repos -> {"absent", "partial", "cloned", "hollow"}]
    BY <1>4, <2>1 DEF EndClone, AfterFailedClone
  <2>4. tree' \in [Repos -> Commits \cup {None}] /\ lock' \in [Dirs -> Jobs \cup {None}]
    BY <1>4, <2>1 DEF EndClone
  <2>5. faults' \in Nat /\ fresh' \subseteq Jobs
    BY <1>4, <2>1
  <2>6. disturbed' \subseteq Repos /\ halfMade' \subseteq Repos
    BY <1>4, <2>1
  <2>7. QED
    BY <1>4, <2>1, <2>2, <2>3, <2>4, <2>5, <2>6
<1>5. ASSUME NEW j \in Jobs, CheckoutBranch(j) \/ Checkout(j) PROVE TypeOK'
  <2>1. PICK commit \in Commits, step \in Steps, next \in Steps : CheckoutTo(j, step, commit, next)
    BY <1>5 DEF CheckoutBranch, Checkout, AfterBranch, Commits, Steps
  <2>2. QED
    BY <2>1 DEF CheckoutTo, GoTo, Steps, Ended
<1>6. ASSUME NEW j \in Jobs, CreateLock(j) \/ RemoveLock(j) PROVE TypeOK'
  <2>1. pc' \in [Jobs -> Steps]
    BY <1>6 DEF CreateLock, RemoveLock, GoTo, Steps, Ended
  <2>2. lock' \in [Dirs -> Jobs \cup {None}]
    BY <1>6 DEF CreateLock, RemoveLock
  <2>3. QED
    BY <1>6, <2>1, <2>2 DEF CreateLock, RemoveLock
<1>7. ASSUME NEW j \in Jobs, ReadTree(j) \/ WriteArtifact(j) PROVE TypeOK'
  BY <1>7 DEF ReadTree, WriteArtifact
<1>8. CASE Crash
  BY <1>8 DEF Crash, Steps, Ended
<1>9. CASE UNCHANGED vars
  BY <1>9 DEF vars
<1>10. QED
  BY <1>1, <1>2, <1>3, <1>4, <1>5, <1>6, <1>7, <1>8, <1>9 DEF Next, JobStep, Moves

-----------------------------------------------------------------------------
(***************************************************************************)
(* What a lock file says.  Unless the repository is disturbed, whoever is  *)
(* in the section wrote the lock (LockIsOfSection); a lock whose job was   *)
(* killed keeps everybody out of the section and from the rename.          *)
(***************************************************************************)
LockIsOfSection ==
  \A r \in Repos \ disturbed : \A j \in Jobs :
    RepoOf[j] = r /\ pc[j] \in Section => lock[r] = j

Stale(r) == lock[r] # None /\ pc[lock[r]] = "killed"

StaleKeepsOut ==
  \A r \in Repos : Stale(r) =>
    \A j \in Jobs : RepoOf[j] = r => pc[j] \notin Section \cup {"grab"}

LockInv == LockHasHolder /\ LockIsOfSection /\ StaleKeepsOut

\* A step of a job that leaves the locks alone, and neither enters the section
\* nor, unless it saw no lock, goes to the rename.
LEMMA LockFrame ==
  ASSUME TypeOK, LockInv, UNCHANGED lock,
         disturbed \subseteq disturbed', unremoved \subseteq unremoved',
         \A j \in Jobs :
           /\ pc'[j] \in Section <=> pc[j] \in Section
           /\ pc'[j] = "killed" <=> pc[j] = "killed"
           /\ pc'[j] = "grab" => pc[j] = "grab" \/ lock[RepoOf[j]] = None
  PROVE  LockInv'
<1>1. \A r \in Repos : lock[r] \in Jobs \cup {None}
  BY DEF TypeOK, Dirs
<1>2. LockHasHolder'
  BY <1>1, WorkspaceAssumption DEF LockInv, LockHasHolder
<1>3. LockIsOfSection'
  BY DEF LockInv, LockIsOfSection
<1>4. \A r \in Repos : Stale(r)' => Stale(r)
  BY <1>1 DEF Stale
<1>5. StaleKeepsOut'
  BY <1>4 DEF LockInv, StaleKeepsOut, Stale
<1>6. QED
  BY <1>2, <1>3, <1>5 DEF LockInv

\* A step that only takes locks away, of repositories it disturbs.
LEMMA LocksTaken ==
  ASSUME TypeOK, LockInv, disturbed \subseteq disturbed', unremoved \subseteq unremoved',
         \A r \in Repos :
           \/ lock'[r] = lock[r]
           \/ lock'[r] = None /\ (lock[r] # None => r \in disturbed'),
         \A j \in Jobs :
           /\ pc'[j] \in Section <=> pc[j] \in Section
           /\ pc'[j] = "killed" <=> pc[j] = "killed"
           /\ pc'[j] = "grab" => pc[j] = "grab"
  PROVE  LockInv'
<1>1. \A r \in Repos : lock[r] \in Jobs \cup {None}
  BY DEF TypeOK, Dirs
<1>2. LockHasHolder'
  BY <1>1, WorkspaceAssumption DEF LockInv, LockHasHolder
<1>3. LockIsOfSection'
  BY WorkspaceAssumption DEF LockInv, LockIsOfSection
<1>4. \A r \in Repos : Stale(r)' => Stale(r)
  BY <1>1 DEF Stale
<1>5. StaleKeepsOut'
  BY <1>4 DEF LockInv, StaleKeepsOut
<1>6. QED
  BY <1>2, <1>3, <1>5 DEF LockInv

\* Every step keeps what the locks say.
LEMMA LockStep == TypeOK /\ LockInv /\ [Next]_vars => LockInv'
<1> SUFFICES ASSUME TypeOK, LockInv, [Next]_vars PROVE LockInv'
  OBVIOUS
<1> USE WorkspaceAssumption DEF diskVars, bounds, history
<1>1. ASSUME NEW j \in Jobs, Moves(j) PROVE LockInv'
  <2>1. UNCHANGED <<lock, disturbed, unremoved>>
    BY <1>1 DEF Moves, Start, Cleanup, SweepEnds, CheckDir, PeekLock, EndAnalysis
  <2>2. PICK s \in Steps :
          /\ pc' = [pc EXCEPT ![j] = s]
          /\ s \in Section <=> pc[j] \in Section
          /\ s # "killed" /\ pc[j] # "killed"
          /\ s = "grab" => lock[RepoOf[j]] = None
    BY <1>1 DEF Moves, Start, Cleanup, SweepEnds, CheckDir, PeekLock, EndAnalysis, GoTo, Steps,
                Ended, Section, WhenLocked, WhenFailed, IsLocked
  <2>3. \A k \in Jobs : pc'[k] = IF k = j THEN s ELSE pc[k]
    BY <2>2 DEF TypeOK
  <2>4. QED
    BY <2>1, <2>2, <2>3, LockFrame
<1>2. ASSUME NEW j \in Jobs, NEW i \in Installations, RemoveAll(j, i) PROVE LockInv'
  <2>1. UNCHANGED <<pc, unremoved>>
    BY <1>2 DEF RemoveAll
  <2>2. disturbed' = disturbed \cup {r \in ReposIn(i) : lock[r] # None}
    BY <1>2 DEF RemoveAll, IsLocked
  <2>3. \A r \in Repos : lock'[r] = IF r \in ReposIn(i) THEN None ELSE lock[r]
    BY <1>2 DEF RemoveAll, Dirs, ReposIn
  <2>4. QED
    BY <2>1, <2>2, <2>3, LocksTaken
<1>3. ASSUME NEW j \in Jobs, BeginClone(j) \/ Fetch(j) PROVE LockInv'
  <2>1. UNCHANGED <<lock, disturbed, unremoved>>
    BY <1>3 DEF BeginClone, Fetch
  <2>2. PICK s \in Steps :
          /\ pc' = [pc EXCEPT ![j] = s] /\ s \notin Section \cup {"killed", "grab"}
          /\ pc[j] \notin Section \cup {"killed"}
    BY <1>3 DEF BeginClone, Fetch, GoTo, Steps, Ended, Section
  <2>3. \A k \in Jobs : pc'[k] = IF k = j THEN s ELSE pc[k]
    BY <2>2 DEF TypeOK
  <2>4. QED
    BY <2>1, <2>2, <2>3, LockFrame
<1>4. ASSUME NEW j \in Jobs, EndClone(j) \/ CheckoutBranch(j) \/ Checkout(j) PROVE LockInv'
  <2>1. PICK s \in Steps :
          /\ pc' = [pc EXCEPT ![j] = s] /\ s \notin Section \cup {"killed", "grab"}
          /\ pc[j] \notin Section \cup {"killed"}
    BY <1>4 DEF EndClone, CloneSucceeds, CloneCleared, CloneAbandoned, CheckoutBranch, Checkout,
                CheckoutTo, AfterBranch, GoTo, Steps, Ended, Section
  <2>2. \A k \in Jobs : pc'[k] = IF k = j THEN s ELSE pc[k]
    BY <2>1 DEF TypeOK
  <2>3. \/ UNCHANGED <<lock, disturbed>>
        \/ lock' = [lock EXCEPT ![RepoOf[j]] = None]
           /\ disturbed' = IF lock[RepoOf[j]] # None THEN disturbed \cup {RepoOf[j]} ELSE disturbed
    BY <1>4 DEF EndClone, CloneSucceeds, CloneCleared, CloneAbandoned, CheckoutBranch, Checkout,
                CheckoutTo, IsLocked
  <2>4. disturbed \subseteq disturbed' /\ UNCHANGED unremoved
    BY <1>4, <2>3 DEF EndClone, CloneSucceeds, CloneCleared, CloneAbandoned, CheckoutBranch,
                      Checkout, CheckoutTo
  <2>5. \A r \in Repos : \/ lock'[r] = lock[r]
                         \/ lock'[r] = None /\ (lock[r] # None => r \in disturbed')
    BY <2>3 DEF TypeOK, Dirs
  <2>6. QED
    BY <2>1, <2>2, <2>4, <2>5, LocksTaken
<1>5. ASSUME NEW j \in Jobs, CreateLock(j) PROVE LockInv'
  <2>1. CASE UNCHANGED <<lock, disturbed>> /\ GoTo(j, "failed")
    <3>1. \A k \in Jobs : pc'[k] = IF k = j THEN "failed" ELSE pc[k]
      BY <2>1 DEF GoTo, TypeOK
    <3>2. pc[j] = "grab" /\ UNCHANGED unremoved
      BY <1>5 DEF CreateLock
    <3>3. QED
      BY <2>1, <3>1, <3>2, LockFrame DEF Section
  <2>2. CASE /\ GoTo(j, "analyse") /\ lock' = [lock EXCEPT ![RepoOf[j]] = j]
             /\ disturbed' = IF IsLocked(RepoOf[j]) THEN disturbed \cup {RepoOf[j]} ELSE disturbed
    <3>1. \A k \in Jobs : pc'[k] = IF k = j THEN "analyse" ELSE pc[k]
      BY <2>2 DEF GoTo, TypeOK
    <3>2. \A r \in Repos : lock'[r] = IF r = RepoOf[j] THEN j ELSE lock[r]
      BY <2>2 DEF TypeOK, Dirs
    <3>3. /\ RepoOf[j] \in Repos /\ pc[j] = "grab" /\ UNCHANGED unremoved
          /\ \A r \in Repos : lock[r] \in Jobs \cup {None}
      BY <1>5 DEF CreateLock, TypeOK, Dirs
    <3>4. LockHasHolder'
      BY <3>1, <3>2, <3>3 DEF LockInv, LockHasHolder, Section
    <3>5. LockIsOfSection'
      <4>1. ASSUME NEW r \in Repos \ disturbed', NEW k \in Jobs, RepoOf[k] = r, pc'[k] \in Section
            PROVE  lock'[r] = k
        <5>1. CASE k = j
          BY <3>2, <4>1, <5>1
        <5>2. CASE k # j
          <6>1. pc[k] \in Section /\ r \notin disturbed
            BY <2>2, <3>1, <4>1, <5>2
          <6>2. lock[r] = k
            BY <4>1, <6>1 DEF LockInv, LockIsOfSection
          <6>3. r # RepoOf[j]
            BY <2>2, <3>3, <4>1, <6>2 DEF IsLocked
          <6>4. QED
            BY <3>2, <6>2, <6>3
        <5>3. QED
          BY <5>1, <5>2
      <4>2. QED
        BY <4>1 DEF LockIsOfSection
    <3>6. StaleKeepsOut'
      <4>1. \A r \in Repos : Stale(r)' => Stale(r) /\ r # RepoOf[j]
        BY <3>1, <3>2, <3>3 DEF Stale
      <4>2. QED
        BY <3>1, <4>1 DEF LockInv, StaleKeepsOut
    <3>7. QED
      BY <3>4, <3>5, <3>6 DEF LockInv
  <2>3. QED
    BY <1>5, <2>1, <2>2 DEF CreateLock
<1>6. ASSUME NEW j \in Jobs, RemoveLock(j) PROVE LockInv'
  <2>1. PICK s \in {"done", "failed"} : pc' = [pc EXCEPT ![j] = s]
    BY <1>6 DEF RemoveLock, GoTo
  <2>2. \A k \in Jobs : pc'[k] = IF k = j THEN s ELSE pc[k]
    BY <2>1 DEF TypeOK
  <2>3. \/ UNCHANGED unremoved /\ \A r \in Repos : lock'[r] = IF r = RepoOf[j] THEN None ELSE lock[r]
        \/ unremoved' = unremoved \cup {j} /\ UNCHANGED lock
    BY <1>6 DEF RemoveLock, TypeOK, Dirs
  <2>4. /\ RepoOf[j] \in Repos /\ pc[j] \in Section /\ UNCHANGED disturbed
        /\ \A r \in Repos : lock[r] \in Jobs \cup {None}
    BY <1>6 DEF RemoveLock, TypeOK, Dirs, Section
  <2>5. LockHasHolder'
    BY <2>2, <2>3, <2>4 DEF LockInv, LockHasHolder
  <2>6. LockIsOfSection'
    BY <2>2, <2>3, <2>4 DEF LockInv, LockIsOfSection, Section
  <2>7. \A r \in Repos : Stale(r)' => Stale(r)
    BY <2>2, <2>3, <2>4 DEF Stale
  <2>8. StaleKeepsOut'
    BY <2>2, <2>7 DEF LockInv, StaleKeepsOut, Section
  <2>9. QED
    BY <2>5, <2>6, <2>8 DEF LockInv
<1>7. CASE (\E j \in Jobs : ReadTree(j) \/ WriteArtifact(j)) \/ UNCHANGED vars
  <2>1. UNCHANGED <<pc, lock, disturbed, unremoved>>
    BY <1>7 DEF ReadTree, WriteArtifact, vars
  <2>2. QED
    BY <2>1, LockFrame
<1>8. CASE Crash
  <2>1. /\ UNCHANGED <<lock, disturbed, unremoved>>
        /\ \A j \in Jobs : pc'[j] = IF pc[j] \in Ended \cup {"new"} THEN pc[j] ELSE "killed"
    BY <1>8 DEF Crash
  <2>2. \A r \in Repos : lock[r] \in Jobs \cup {None}
    BY DEF TypeOK, Dirs
  <2>3. \A j \in Jobs : /\ pc'[j] \notin Section \cup {"grab"}
                        /\ pc[j] \in Section \cup {"killed"} => pc'[j] = "killed"
    BY <2>1 DEF Section, Ended
  <2>4. LockHasHolder'
    BY <2>1, <2>2, <2>3 DEF LockInv, LockHasHolder
  <2>5. LockIsOfSection' /\ StaleKeepsOut'
    BY <2>3 DEF LockIsOfSection, StaleKeepsOut
  <2>6. QED
    BY <2>4, <2>5 DEF LockInv
<1>9. QED
  BY <1>1, <1>2, <1>3, <1>4, <1>5, <1>6, <1>7, <1>8 DEF Next, JobStep, Moves

-----------------------------------------------------------------------------
\* A step that makes no half-made clone, and ends none of a job's clonings.
LEMMA PartialFrame ==
  ASSUME PartialIsInProgress, halfMade \subseteq halfMade',
         \A r \in Repos : dir'[r] = "partial" => dir[r] = "partial",
         \A j \in Jobs : pc[j] \in {"cloning", "killed"} => pc'[j] \in {"cloning", "killed"}
  PROVE  PartialIsInProgress'
<1>1. ASSUME NEW r \in Repos \ halfMade', dir'[r] = "partial"
      PROVE  \E j \in Jobs : RepoOf[j] = r /\ pc'[j] \in {"cloning", "killed"}
  <2>1. PICK j \in Jobs : RepoOf[j] = r /\ pc[j] \in {"cloning", "killed"}
    BY <1>1 DEF PartialIsInProgress
  <2>2. QED
    BY <2>1
<1>2. QED
  BY <1>1 DEF PartialIsInProgress

\* Every step keeps a half-made clone in somebody's hands.
LEMMA PartialStep == TypeOK /\ PartialIsInProgress /\ [Next]_vars => PartialIsInProgress'
<1> SUFFICES ASSUME TypeOK, PartialIsInProgress, [Next]_vars PROVE PartialIsInProgress'
  OBVIOUS
<1> USE WorkspaceAssumption DEF TypeOK, diskVars, bounds, history
<1>1. ASSUME NEW j \in Jobs,
             \/ Moves(j) \/ Fetch(j) \/ CheckoutBranch(j) \/ Checkout(j)
             \/ CreateLock(j) \/ RemoveLock(j)
      PROVE  PartialIsInProgress'
  <2>1. PICK s \in Steps : pc' = [pc EXCEPT ![j] = s] /\ pc[j] \notin {"cloning", "killed"}
    BY <1>1 DEF Moves, Start, Cleanup, SweepEnds, CheckDir, PeekLock, EndAnalysis, Fetch,
                CheckoutBranch, Checkout, CheckoutTo, CreateLock, RemoveLock, AfterBranch, GoTo,
                Steps, Ended, WhenLocked, WhenFailed
  <2>2. dir' = dir \/ \E r \in Repos : dir' = [dir EXCEPT ![r] = "cloned"]
    BY <1>1 DEF Moves, Start, Cleanup, SweepEnds, CheckDir, PeekLock, EndAnalysis, Fetch,
                CheckoutBranch, Checkout, CheckoutTo, CreateLock, RemoveLock
  <2>3. UNCHANGED halfMade
    BY <1>1 DEF Moves, Start, Cleanup, SweepEnds, CheckDir, PeekLock, EndAnalysis, Fetch,
                CheckoutBranch, Checkout, CheckoutTo, CreateLock, RemoveLock
  <2>4. QED
    BY <2>1, <2>2, <2>3, PartialFrame
<1>2. ASSUME NEW j \in Jobs, NEW i \in Installations, RemoveAll(j, i) PROVE PartialIsInProgress'
  BY <1>2, PartialFrame DEF RemoveAll
<1>3. ASSUME NEW j \in Jobs, BeginClone(j) PROVE PartialIsInProgress'
  <2>1. CASE dir' = [dir EXCEPT ![RepoOf[j]] = "partial"] /\ GoTo(j, "cloning")
    <3>1. \A k \in Jobs : pc'[k] = IF k = j THEN "cloning" ELSE pc[k]
      BY <2>1 DEF GoTo
    <3>2. \A r \in Repos : dir'[r] = IF r = RepoOf[j] THEN "partial" ELSE dir[r]
      BY <2>1
    <3>3. ASSUME NEW r \in Repos \ halfMade', dir'[r] = "partial"
          PROVE  \E k \in Jobs : RepoOf[k] = r /\ pc'[k] \in {"cloning", "killed"}
      <4>1. CASE r = RepoOf[j]
        BY <3>1, <4>1
      <4>2. CASE r # RepoOf[j]
        <5>1. PICK k \in Jobs : RepoOf[k] = r /\ pc[k] \in {"cloning", "killed"}
          BY <1>3, <3>2, <3>3, <4>2 DEF PartialIsInProgress, BeginClone
        <5>2. QED
          BY <3>1, <5>1
      <4>3. QED
        BY <4>1, <4>2
    <3>4. QED
      BY <3>3 DEF PartialIsInProgress
  <2>2. CASE UNCHANGED dir /\ GoTo(j, "failed")
    <3>1. pc[j] = "clone" /\ UNCHANGED halfMade
      BY <1>3 DEF BeginClone
    <3>2. QED
      BY <2>2, <3>1, PartialFrame DEF GoTo
  <2>3. QED
    BY <1>3, <2>1, <2>2 DEF BeginClone
<1>4. ASSUME NEW j \in Jobs, EndClone(j) PROVE PartialIsInProgress'
  <2>1. \A k \in Jobs \ {j} : pc'[k] = pc[k]
    BY <1>4 DEF EndClone, CloneSucceeds, CloneCleared, CloneAbandoned, GoTo
  <2>2. (RepoOf[j] \notin halfMade' => dir'[RepoOf[j]] # "partial") /\ \A r \in Repos \ {RepoOf[j]} : dir'[r] = dir[r]
    BY <1>4 DEF EndClone, CloneSucceeds, CloneCleared, CloneAbandoned, AfterFailedClone, Exists
  <2>3. ASSUME NEW r \in Repos \ halfMade', dir'[r] = "partial"
        PROVE  \E k \in Jobs : RepoOf[k] = r /\ pc'[k] \in {"cloning", "killed"}
    <3>0. r \notin halfMade
      BY <1>4, <2>3 DEF EndClone, CloneSucceeds, CloneCleared, CloneAbandoned
    <3>1. PICK k \in Jobs : RepoOf[k] = r /\ pc[k] \in {"cloning", "killed"}
      BY <2>2, <2>3, <3>0 DEF PartialIsInProgress
    <3>2. k # j
      BY <2>2, <2>3, <3>1
    <3>3. QED
      BY <2>1, <3>1, <3>2
  <2>4. QED
    BY <2>3 DEF PartialIsInProgress
<1>5. ASSUME NEW j \in Jobs, ReadTree(j) \/ WriteArtifact(j) PROVE PartialIsInProgress'
  BY <1>5, PartialFrame DEF ReadTree, WriteArtifact
<1>6. CASE Crash
  <2>1. UNCHANGED <<dir, halfMade>> /\ \A j \in Jobs :
          pc[j] \in {"cloning", "killed"} => pc'[j] \in {"cloning", "killed"}
    BY <1>6 DEF Crash, Ended
  <2>2. QED
    BY <2>1, PartialFrame
<1>7. CASE UNCHANGED vars
  BY <1>7, PartialFrame DEF vars
<1>8. QED
  BY <1>1, <1>2, <1>3, <1>4, <1>5, <1>6, <1>7 DEF Next, JobStep, Moves

\* The empty disk satisfies all of it.
LEMMA DiskInit == Init => TypeOK /\ LockInv /\ PartialIsInProgress
<1> SUFFICES ASSUME Init PROVE TypeOK /\ LockInv /\ PartialIsInProgress
  OBVIOUS
<1>1. TypeOK
  BY WorkspaceAssumption DEF Init, TypeOK, Steps
<1>2. \A r \in Repos : lock[r] = None
  BY DEF Init, Dirs
<1>3. LockInv
  BY <1>2 DEF Init, LockInv, LockHasHolder, LockIsOfSection, StaleKeepsOut, Stale, Section
<1>4. PartialIsInProgress
  BY DEF Init, PartialIsInProgress
<1>5. QED
  BY <1>1, <1>3, <1>4

\* No return path and no cleanup leaves a lock without a holder or a directory
\* without a maker: only a lock that could not be removed and a failed clone that
\* was not cleared are left behind.
THEOREM DiskCorrect == Spec => []DiskInv
<1>1. LockInv /\ TypeOK /\ PartialIsInProgress => DiskInv
  BY DEF LockInv, DiskInv
<1>2. QED
  BY <1>1, DiskInit, TypeStep, LockStep, PartialStep, PTL DEF Spec

\* Two jobs are in the section of one repository only after its lock was
\* overwritten by the rename, swept, or deleted by a checkout.
THEOREM ExclusiveCorrect == Spec => []ExclusiveUnlessDisturbed
<1>1. LockInv => ExclusiveUnlessDisturbed
  BY DEF LockInv, LockIsOfSection, ExclusiveUnlessDisturbed, InSection
<1>2. QED
  BY <1>1, DiskInit, TypeStep, LockStep, PTL DEF Spec

\* What a step may do to the lock of a killed job.
LEMMA StaleLockStep ==
  ASSUME TypeOK, LockInv, [Next]_vars, NEW r \in Repos, Stale(r), lock'[r] # lock[r]
  PROVE  \/ dir'[r] = "absent"
         \/ \E j \in Jobs : pc[j] \in {"branch", "commit"} /\ pc'[j] # pc[j]
<1> USE WorkspaceAssumption DEF TypeOK, diskVars, Dirs, bounds, history
<1>1. CASE \E j \in Jobs : \/ Moves(j) \/ BeginClone(j) \/ Fetch(j)
                           \/ ReadTree(j) \/ WriteArtifact(j)
  BY <1>1 DEF Moves, Start, Cleanup, SweepEnds, CheckDir, PeekLock, EndAnalysis, BeginClone,
              Fetch, ReadTree, WriteArtifact
<1>2. CASE Crash \/ UNCHANGED vars
  BY <1>2 DEF Crash, vars
<1>3. ASSUME NEW j \in Jobs, NEW i \in Installations, RemoveAll(j, i) PROVE dir'[r] = "absent"
  BY <1>3 DEF RemoveAll, ReposIn
<1>4. ASSUME NEW j \in Jobs, EndClone(j) PROVE dir'[r] = "absent"
  <2>1. lock' = [lock EXCEPT ![RepoOf[j]] = None] /\ r = RepoOf[j]
    BY <1>4 DEF EndClone, CloneSucceeds, CloneCleared, CloneAbandoned
  <2>2. dir' = [dir EXCEPT ![r] = IF Exists(r) THEN "absent" ELSE @]
    BY <1>4, <2>1 DEF EndClone, CloneSucceeds, CloneCleared, CloneAbandoned, AfterFailedClone
  <2>3. QED
    BY <2>2 DEF Exists
<1>5. ASSUME NEW j \in Jobs, CheckoutBranch(j) \/ Checkout(j)
      PROVE  pc[j] \in {"branch", "commit"} /\ pc'[j] # pc[j]
  <2>1. pc[j] \in {"branch", "commit"}
    BY <1>5 DEF CheckoutBranch, Checkout, CheckoutTo
  <2>2. CASE CheckoutBranch(j)
    BY <2>2 DEF CheckoutBranch, CheckoutTo, GoTo, AfterBranch
  <2>3. CASE Checkout(j)
    BY <2>3 DEF Checkout, CheckoutTo, GoTo
  <2>4. QED
    BY <1>5, <2>1, <2>2, <2>3
<1>6. ASSUME NEW j \in Jobs, CreateLock(j) \/ RemoveLock(j) PROVE FALSE
  <2>1. r = RepoOf[j]
    BY <1>6 DEF CreateLock, RemoveLock
  <2>2. pc[j] \in Section \cup {"grab"}
    BY <1>6 DEF CreateLock, RemoveLock, Section
  <2>3. QED
    BY <2>1, <2>2 DEF LockInv, StaleKeepsOut
<1>7. QED
  BY <1>1, <1>2, <1>3, <1>4, <1>5, <1>6 DEF Next, JobStep, Moves

\* Nobody takes over the lock of a killed job: only a checkout, or the removal
\* of the whole clone, frees the repository again.
THEOREM StaleLockCorrect == Spec => StaleLockStays
<1>1. TypeOK /\ LockInv /\ [Next]_vars =>
        [\A r \in Repos :
           lock[r] # None /\ pc[lock[r]] = "killed" /\ lock'[r] # lock[r] =>
             \/ dir'[r] = "absent"
             \/ \E j \in Jobs : pc[j] \in {"branch", "commit"} /\ pc'[j] # pc[j]]_vars
  BY StaleLockStep DEF Stale
<1>2. QED
  BY <1>1, DiskInit, TypeStep, LockStep, PTL DEF Spec, StaleLockStays
===============================================================================
