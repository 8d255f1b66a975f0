------------------------ MODULE KnowledgeBase_proofs ------------------------
(***************************************************************************)
(* Theorems about KnowledgeBase: for any jobs, pushes, clones and errors,  *)
(* the versions and the chain of the reports of a project on one clone     *)
(* whose lock held, and on any clones what an update may lose.             *)
(***************************************************************************)
EXTENDS KnowledgeBase, WellFoundedInduction, TLAPS

\* The steps at which a job holds the lock of its clone.
Holding == {"latest", "version", "insert", "rest", "undo", "unlock"}

\* Jobs on one clone work one after the other until its lock is overwritten or deleted.
LockInv ==
  \A j \in Jobs :
    pc[j] \in Holding /\ cloneOf[j] \notin disturbed => holder[cloneOf[j]] = j

\* What TypeOK leaves open.
TypeInv == TypeOK /\ lastId \in Nat /\ base \in [Jobs -> Report \cup {None}]

Extends(j) == j \notin FullScans /\ pc[j] \in {"version", "insert"}

\* A version is at most the number of reports that were ever stored, and a base
\* is older than what extends it.
NumberInv ==
  /\ \A r \in rows : r.version <= r.id /\ r.prev < r.id
  /\ \A j \in Jobs :
       /\ version[j] <= lastId + 1 /\ (pc[j] = "insert" => version[j] > 0)
       /\ Extends(j) => base[j] \in Report /\ base[j].id \in 1..lastId

\* A report tells what it describes, or was blamed when it was stored.
Honest(r) == (r.sound \/ r.blamed) /\ (r.after # 0 => r.at = r.after)

HonestInv ==
  /\ \A r \in rows : Honest(r)
  /\ \A j \in Jobs : Extends(j) => Honest(base[j])

NoGuess == \A r \in rows : ~r.guessed

\* What a job at work on the only clone knows of the rows: its version is above
\* all, unless its query failed; its base is the last of them, unless the
\* query of an earlier one failed; and what it has stored is the last row.
KnowsRows(j) ==
  /\ pc[j] = "insert" /\ j \notin guessing => \A r \in rows : r.version < version[j]
  /\ Extends(j) => /\ base[j] \in rows
                   /\ NoGuess => \A r \in rows : r.id <= base[j].id
  /\ pc[j] \in {"rest", "undo"} => own[j] = lastId

\* An update extends the row before it, if no version up to then was guessed.
Chained(r) ==
  r.prev # 0 /\ (\A t \in rows : t.id < r.id => ~t.guessed) =>
    \E s \in rows : s.id = r.prev /\ \A t \in rows : t.id <= s.id \/ t.id >= r.id

HistoryInv ==
  OneClone => VersionsFollowIds /\ (\A j \in Jobs : KnowsRows(j)) /\ (\A r \in rows : Chained(r))

KBInv == TypeInv /\ LockInv /\ NumberInv /\ HonestInv /\ HistoryInv

-----------------------------------------------------------------------------
(***************************************************************************)
(* The queries.                                                            *)
(***************************************************************************)
\* A set of numbers that is not empty has a least one.
LEMMA Least ==
  ASSUME NEW T \in SUBSET Nat, T # {}
  PROVE  \E m \in T : \A n \in T : m <= n
<1>1. PICK m \in T : \A n \in T : <<n, m>> \notin OpToRel(<, Nat)
  BY WFMin, NatLessThanWellFounded, Zenon
<1>2. \A n \in T : ~(n < m)
  BY <1>1 DEF OpToRel
<1>3. QED
  BY <1>2

\* If it is bounded, Max is its greatest.
LEMMA Greatest ==
  ASSUME NEW S \in SUBSET Nat, S # {}, NEW b \in Nat, \A n \in S : n <= b
  PROVE  Max(S) \in S /\ \A n \in S : n <= Max(S)
<1> DEFINE Bounds == {u \in Nat : \A n \in S : n <= u}
<1>1. PICK m \in Bounds : \A u \in Bounds : m <= u
  BY Least
<1>2. m \in S
  <2> SUFFICES ASSUME m \notin S PROVE FALSE
    OBVIOUS
  <2>1. \A n \in S : n < m
    BY <1>1
  <2>2. PICK n \in S : TRUE
    OBVIOUS
  <2>3. m - 1 \in Nat
    BY <1>1, <2>1, <2>2
  <2>4. m - 1 \in Bounds
    BY <2>1, <2>3
  <2>5. QED
    BY <1>1, <2>3, <2>4
<1>3. \E x \in S : \A y \in S : x >= y
  BY <1>1, <1>2
<1>4. Max(S) \in S /\ \A y \in S : Max(S) >= y
  BY <1>3 DEF Max
<1>5. QED
  BY <1>4

\* The next version is above all that are stored.
LEMMA NextVersion ==
  ASSUME TypeInv, NumberInv
  PROVE  /\ NextReportVersion \in Nat \ {0} /\ NextReportVersion <= lastId + 1
         /\ \A r \in rows : r.version < NextReportVersion
<1> DEFINE S == {0} \cup {r.version : r \in rows}
<1>1. \A r \in rows : r.version \in Nat /\ r.version <= lastId
  <2> TAKE r \in rows
  <2>1. r \in Report /\ r.id \in 1..lastId /\ r.version <= r.id
    BY DEF TypeInv, TypeOK, NumberInv
  <2>2. r.version \in Nat /\ r.id \in Nat /\ lastId \in Nat
    BY <2>1 DEF Report, TypeInv
  <2>3. QED
    BY <2>1, <2>2
<1>2. S \in SUBSET Nat /\ S # {} /\ lastId \in Nat /\ \A n \in S : n <= lastId
  BY <1>1 DEF TypeInv
<1>3. Max(S) \in S /\ \A n \in S : n <= Max(S)
  <2> HIDE DEF S
  <2> QED
    BY <1>2, Greatest
<1>4. Max(S) \in Nat /\ Max(S) <= lastId /\ NextReportVersion = Max(S) + 1
  <2>1. Max(S) \in Nat /\ Max(S) <= lastId
    <3> HIDE DEF S
    <3> QED
      BY <1>2, <1>3
  <2>2. NextReportVersion = Max(S) + 1
    BY DEF NextReportVersion
  <2>3. QED
    BY <2>1, <2>2
<1>5. \A r \in rows : r.version <= Max(S)
  BY <1>3
<1>6. QED
  <2> HIDE DEF S
  <2> QED
    BY <1>1, <1>2, <1>4, <1>5

\* The latest report has the highest version.
LEMMA LatestIs ==
  ASSUME TypeInv, NumberInv, rows # {}
  PROVE  Latest \in rows /\ \A s \in rows : s.version <= Latest.version
<1> DEFINE S == {r.version : r \in rows}
<1>1. \A r \in rows : r.version \in Nat /\ r.id \in Nat /\ r.version <= lastId
  <2> TAKE r \in rows
  <2>1. r \in Report /\ r.id \in 1..lastId /\ r.version <= r.id
    BY DEF TypeInv, TypeOK, NumberInv
  <2>2. r.version \in Nat /\ r.id \in Nat /\ lastId \in Nat
    BY <2>1 DEF Report, TypeInv
  <2>3. QED
    BY <2>1, <2>2
<1>2. S \in SUBSET Nat /\ S # {} /\ lastId \in Nat /\ \A n \in S : n <= lastId
  BY <1>1 DEF TypeInv
<1>3. PICK v \in S : \A n \in S : n <= v
  <2> HIDE DEF S
  <2> QED
    BY <1>2, Greatest
<1> DEFINE T == {r.id : r \in {s \in rows : s.version = v}}
<1>4. T \in SUBSET Nat /\ T # {}
  BY <1>1, <1>3
<1>5. PICK m \in T : \A n \in T : m <= n
  <2> HIDE DEF T
  <2> QED
    BY <1>4, Least
<1>6. PICK r \in rows : r.version = v /\ r.id = m
  BY <1>5
<1>7. \A s \in rows : s.version < r.version \/ (s.version = r.version /\ r.id <= s.id)
  <2> TAKE s \in rows
  <2>1. s.version \in Nat /\ r.version \in Nat /\ s.version <= r.version
    BY <1>1, <1>3, <1>6
  <2>2. CASE s.version = r.version
    BY <2>2, <1>5, <1>6
  <2>3. QED
    BY <2>1, <2>2
<1>8. /\ Latest \in rows
      /\ \A s \in rows : s.version < Latest.version \/ (s.version = Latest.version /\ Latest.id <= s.id)
  <2> HIDE DEF S, T
  <2> QED
    BY <1>7 DEF Latest
<1>9. QED
  BY <1>1, <1>8

-----------------------------------------------------------------------------
(***************************************************************************)
(* The steps.                                                              *)
(***************************************************************************)
JobNext(j) ==
  \/ PeekLock(j) \/ CreateLock(j) \/ GetLatest(j) \/ GetVersion(j)
  \/ StoreFullScan(j) \/ StoreUpdate(j) \/ FailEarly(j) \/ Finish(j) \/ Undo(j)
  \/ Unlock(j)

\* A job changes nothing that another one knows.
Alone(j) ==
  \A k \in Jobs \ {j} : /\ pc'[k] = pc[k] /\ base'[k] = base[k] /\ version'[k] = version[k]
                        /\ own'[k] = own[k] /\ (k \in guessing' <=> k \in guessing)

\* A step of a job leaves the others alone.
LEMMA JobStep ==
  ASSUME TypeInv, NEW j \in Jobs, JobNext(j)
  PROVE  /\ Alone(j) /\ cloneOf' = cloneOf /\ DOMAIN pc' = Jobs /\ pc'[j] \in Steps
         /\ disturbed \subseteq disturbed'
<1>1. pc \in [Jobs -> Steps]
  BY DEF TypeInv, TypeOK
<1>2. base \in [Jobs -> Report \cup {None}]
  BY DEF TypeInv
<1>3. version \in [Jobs -> Nat] /\ own \in [Jobs -> 0..lastId]
  BY DEF TypeInv, TypeOK
<1>4. CASE PeekLock(j) \/ CreateLock(j)
  BY <1>1, <1>4 DEF PeekLock, CreateLock, GoTo, local, lockVars, Alone, Steps, WhenLocked
<1>5. CASE GetLatest(j)
  BY <1>1, <1>2, <1>5 DEF GetLatest, GoTo, lockVars, Alone, Steps
<1>6. CASE GetVersion(j)
  BY <1>1, <1>3, <1>6 DEF GetVersion, GoTo, lockVars, Alone, Steps
<1>7. CASE StoreFullScan(j)
  BY <1>1, <1>3, <1>7 DEF StoreFullScan, Store, GoTo, lockVars, Alone, Steps
<1>8. CASE StoreUpdate(j)
  BY <1>1, <1>3, <1>8 DEF StoreUpdate, Store, GoTo, lockVars, Alone, Steps
<1>9. CASE FailEarly(j) \/ Finish(j)
  BY <1>1, <1>9 DEF FailEarly, Finish, GoTo, local, lockVars, Alone, Steps
<1>10. CASE Undo(j)
  BY <1>1, <1>10 DEF Undo, GoTo, local, lockVars, Alone, Steps
<1>11. CASE Unlock(j)
  BY <1>1, <1>2, <1>3, <1>11 DEF Unlock, GoTo, Alone, Steps
<1>12. QED
  BY <1>4, <1>5, <1>6, <1>7, <1>8, <1>9, <1>10, <1>11 DEF JobNext

\* What is stored has the next key and the version of the job, and an update
\* has the base as its predecessor.
Adds(j, new) ==
  /\ new \in Report /\ rows' = rows \cup {new} /\ lastId' = lastId + 1
  /\ own' = [own EXCEPT ![j] = lastId + 1] /\ pc' = [pc EXCEPT ![j] = "rest"]
  /\ pc[j] = "insert" /\ version' = version /\ base' = base /\ guessing' = guessing
  /\ new.id = lastId + 1 /\ new.version = version[j] /\ (new.guessed <=> j \in guessing)
  /\ new.prev # 0 => Extends(j) /\ new.prev = base[j].id

\* A full scan adds a report without a predecessor.
LEMMA FullScanAdds ==
  ASSUME TypeInv, NumberInv, NEW j \in Jobs, StoreFullScan(j)
  PROVE  \E new \in Report : Adds(j, new) /\ Honest(new)
<1>1. lastId + 1 \in Nat /\ version[j] \in Nat \ {0}
  BY DEF TypeInv, TypeOK, NumberInv, StoreFullScan
<1>2. PICK tip \in 1..head :
        Store(j, [id |-> lastId + 1, version |-> version[j], prev |-> 0,
                 before |-> 0, after |-> 0, at |-> tip, guessed |-> j \in guessing,
                 sound |-> TRUE, blamed |-> FALSE])
  BY DEF StoreFullScan
<1>3. tip \in 1..MaxCommit /\ 0 \in 0..MaxCommit
  BY KnowledgeBaseAssumption DEF TypeInv, TypeOK
<1>4. (j \in guessing) \in BOOLEAN
  OBVIOUS
<1> DEFINE new == [id |-> lastId + 1, version |-> version[j], prev |-> 0,
                   before |-> 0, after |-> 0, at |-> tip, guessed |-> j \in guessing,
                   sound |-> TRUE, blamed |-> FALSE]
<1>5. new \in Report
  BY <1>1, <1>3, <1>4 DEF Report
<1>6. Adds(j, new)
  BY <1>2, <1>5 DEF StoreFullScan, Store, GoTo, Adds
<1>7. Honest(new)
  BY DEF Honest
<1>8. QED
  BY <1>5, <1>6, <1>7

\* Changes are lost only where the code is known to lose them.
LEMMA UpdateAdds ==
  ASSUME TypeInv, NumberInv, HonestInv, NEW j \in Jobs, StoreUpdate(j)
  PROVE  \E new \in Report : Adds(j, new) /\ Honest(new)
<1>1. /\ Extends(j) /\ lastId + 1 \in Nat /\ version[j] \in Nat \ {0}
      /\ base[j] \in Report /\ Honest(base[j])
  BY DEF TypeInv, TypeOK, NumberInv, HonestInv, StoreUpdate, Extends
<1>2. /\ base[j].id \in Nat /\ base[j].after \in 0..MaxCommit /\ base[j].at \in 1..MaxCommit
      /\ base[j].sound \in BOOLEAN /\ base[j].blamed \in BOOLEAN
  BY <1>1 DEF Report
<1>3. /\ PushOf[j] \in 1..MaxCommit /\ PushOf[j] \in 0..MaxCommit
      /\ BeforeOf(j) \in 0..MaxCommit /\ BaseCommit(j) \in 0..MaxCommit
  BY <1>2, KnowledgeBaseAssumption DEF BeforeOf, BaseCommit
<1> DEFINE
  Kept(listed, parsed) == ~listed \/ ~(DiffFrom(j) # PushOf[j]) \/ ~parsed
  Sound(listed, parsed) ==
    base[j].sound /\ base[j].at = IF Kept(listed, parsed) THEN PushOf[j] ELSE DiffFrom(j)
  Blamed(listed, parsed) ==
    \/ base[j].blamed
    \/ base[j].after = 0 /\ base[j].at # BeforeOf(j)
    \/ DiffFrom(j) # BaseCommit(j)
    \/ (DiffFrom(j) # PushOf[j]) /\ Kept(listed, parsed)
  New(listed, parsed) ==
    [id |-> lastId + 1, version |-> version[j], prev |-> base[j].id,
     before |-> BaseCommit(j), after |-> PushOf[j], at |-> PushOf[j],
     guessed |-> j \in guessing,
     sound |-> Sound(listed, parsed), blamed |-> Blamed(listed, parsed)]
<1>4. PICK listed, parsed \in BOOLEAN : Store(j, New(listed, parsed))
  BY DEF StoreUpdate
<1>5. Sound(listed, parsed) \in BOOLEAN /\ Blamed(listed, parsed) \in BOOLEAN
  OBVIOUS
<1>6. (j \in guessing) \in BOOLEAN
  OBVIOUS
<1>7. New(listed, parsed) \in Report
  <2> HIDE DEF Sound, Blamed
  <2> QED
    BY <1>1, <1>2, <1>3, <1>5, <1>6 DEF Report
<1>8. Adds(j, New(listed, parsed))
  <2> HIDE DEF Sound, Blamed
  <2> QED
    BY <1>1, <1>4, <1>7 DEF StoreUpdate, Store, GoTo, Adds
<1>9. Sound(listed, parsed) \/ Blamed(listed, parsed)
  <2>1. base[j].sound \/ base[j].blamed
    BY <1>1 DEF Honest
  <2>2. base[j].at = BaseCommit(j) \/ Blamed(listed, parsed)
    BY <1>1 DEF Honest, BaseCommit
  <2>3. QED
    BY <2>1, <2>2
<1>10. Honest(New(listed, parsed))
  <2> HIDE DEF Sound, Blamed
  <2> QED
    BY <1>9 DEF Honest
<1>11. QED
  BY <1>7, <1>8, <1>10

-----------------------------------------------------------------------------
(***************************************************************************)
(* The inductive invariant.                                                *)
(***************************************************************************)
LEMMA KBInit ==
  ASSUME Init
  PROVE  KBInv
<1>1. TypeInv
  BY KnowledgeBaseAssumption DEF Init, TypeInv, TypeOK, Steps
<1>2. \A j \in Jobs : pc[j] = "new"
  BY DEF Init
<1>3. LockInv
  BY <1>2 DEF LockInv, Holding
<1>4. NumberInv
  BY <1>2 DEF Init, NumberInv, Extends
<1>5. HonestInv
  BY <1>2 DEF Init, HonestInv, Extends
<1>6. HistoryInv
  BY <1>2 DEF Init, HistoryInv, VersionsFollowIds, KnowsRows, Extends
<1>7. QED
  BY <1>1, <1>3, <1>4, <1>5, <1>6 DEF KBInv

\* A new report keeps the types.
LEMMA TypeAdds ==
  ASSUME TypeInv, NEW j \in Jobs, NEW new \in Report, Adds(j, new),
         cloneOf' = cloneOf, head' = head, lockVars' = lockVars, errors' \in 0..MaxErrors
  PROVE  TypeInv'
<1>1. lastId \in Nat /\ lastId' = lastId + 1
  BY DEF TypeInv, Adds
<1>2. \A r \in rows' : r \in Report /\ r.id \in 1..lastId'
  BY <1>1 DEF TypeInv, TypeOK, Adds
<1>3. own' \in [Jobs -> 0..lastId']
  <2>1. \A k \in Jobs : own[k] \in 0..lastId
    BY DEF TypeInv, TypeOK
  <2>2. 0..lastId \subseteq 0..lastId' /\ lastId + 1 \in 0..lastId'
    BY <1>1
  <2>3. own \in [Jobs -> 0..lastId]
    BY DEF TypeInv, TypeOK
  <2>4. QED
    BY <2>1, <2>2, <2>3 DEF Adds
<1>4. pc' \in [Jobs -> Steps]
  BY DEF TypeInv, TypeOK, Adds, Steps
<1>5. /\ cloneOf' \in Layouts /\ head' \in 1..MaxCommit
      /\ holder' \in [Clones -> Jobs \cup {None}] /\ base' \in [Jobs -> Report \cup {None}]
      /\ version' \in [Jobs -> Nat] /\ guessing' \subseteq Jobs /\ disturbed' \subseteq Clones
  BY DEF TypeInv, TypeOK, Adds, lockVars
<1>6. \A k \in Jobs : base'[k] # None => base'[k] \in Report
  BY <1>5
<1>7. lastId' \in Nat
  BY <1>1
<1>8. QED
  BY <1>2, <1>3, <1>4, <1>5, <1>6, <1>7 DEF TypeInv, TypeOK

\* Every step keeps the types.
LEMMA TypeStep ==
  ASSUME TypeInv, NumberInv, HonestInv, [Next]_vars
  PROVE  TypeInv'
<1>1. CASE UNCHANGED vars
  BY <1>1 DEF TypeInv, TypeOK, vars, lockVars
<1>2. CASE Push
  BY <1>2, KnowledgeBaseAssumption DEF Push, TypeInv, TypeOK, local, lockVars
<1>3. ASSUME NEW j \in Jobs, JobNext(j)
      PROVE  TypeInv'
  <2>1. CASE PeekLock(j)
    <3>1. pc' \in [Jobs -> Steps]
      BY <2>1 DEF PeekLock, GoTo, TypeInv, TypeOK, WhenLocked, Steps
    <3>2. QED
      BY <2>1, <3>1 DEF PeekLock, TypeInv, TypeOK, local, lockVars
  <2>10. CASE CreateLock(j)
    <3>1. cloneOf[j] \in Clones
      BY KnowledgeBaseAssumption DEF TypeInv, TypeOK
    <3>2. holder' \in [Clones -> Jobs \cup {None}] /\ disturbed' \subseteq Clones
      BY <2>10, <3>1 DEF CreateLock, TypeInv, TypeOK
    <3>3. pc' \in [Jobs -> Steps]
      BY <2>10 DEF CreateLock, GoTo, TypeInv, TypeOK, Steps
    <3>4. QED
      BY <2>10, <3>2, <3>3 DEF CreateLock, TypeInv, TypeOK, local
  <2>2. CASE GetLatest(j)
    <3>1. pc' \in [Jobs -> Steps]
      BY <2>2 DEF GetLatest, GoTo, TypeInv, TypeOK, Steps
    <3>2. base' \in [Jobs -> Report \cup {None}]
      <4>1. rows # {} => Latest \in Report
        BY LatestIs DEF TypeInv, TypeOK
      <4>2. QED
        BY <2>2, <4>1 DEF GetLatest, TypeInv
    <3>3. \A k \in Jobs : base'[k] # None => base'[k] \in Report
      BY <3>2
    <3>4. QED
      BY <2>2, <3>1, <3>2, <3>3 DEF GetLatest, TypeInv, TypeOK, lockVars
  <2>3. CASE GetVersion(j)
    <3>1. pc' \in [Jobs -> Steps]
      BY <2>3 DEF GetVersion, GoTo, TypeInv, TypeOK, Steps
    <3>2. version' \in [Jobs -> Nat]
      BY <2>3, NextVersion DEF GetVersion, TypeInv, TypeOK
    <3>3. errors' \in 0..MaxErrors /\ guessing' \subseteq Jobs
      BY <2>3, KnowledgeBaseAssumption DEF GetVersion, Logged, TypeInv, TypeOK
    <3>4. QED
      BY <2>3, <3>1, <3>2, <3>3 DEF GetVersion, TypeInv, TypeOK, lockVars
  <2>4. CASE StoreFullScan(j)
    <3>1. PICK new \in Report : Adds(j, new)
      BY <2>4, FullScanAdds
    <3>2. cloneOf' = cloneOf /\ head' = head /\ lockVars' = lockVars /\ errors' \in 0..MaxErrors
      BY <2>4 DEF StoreFullScan, TypeInv, TypeOK
    <3>3. QED
      BY <3>1, <3>2, TypeAdds
  <2>5. CASE StoreUpdate(j)
    <3>1. PICK new \in Report : Adds(j, new)
      BY <2>5, UpdateAdds
    <3>2. cloneOf' = cloneOf /\ head' = head /\ lockVars' = lockVars
      BY <2>5 DEF StoreUpdate
    <3>3. errors' \in 0..MaxErrors
      BY <2>5, KnowledgeBaseAssumption DEF StoreUpdate, Logged, TypeInv, TypeOK
    <3>4. QED
      BY <3>1, <3>2, <3>3, TypeAdds
  <2>6. CASE FailEarly(j) \/ Finish(j)
    BY <2>6 DEF FailEarly, Finish, GoTo, local, lockVars, TypeInv, TypeOK, Steps
  <2>7. CASE Undo(j)
    <3>1. pc' \in [Jobs -> Steps]
      BY <2>7 DEF Undo, GoTo, TypeInv, TypeOK, Steps
    <3>2. errors' \in 0..MaxErrors /\ rows' \subseteq rows
      BY <2>7, KnowledgeBaseAssumption DEF Undo, Logged, TypeInv, TypeOK
    <3>3. QED
      BY <2>7, <3>1, <3>2 DEF Undo, TypeInv, TypeOK, local, lockVars
  <2>8. CASE Unlock(j)
    <3>1. pc' \in [Jobs -> Steps] /\ holder' \in [Clones -> Jobs \cup {None}]
      BY <2>8 DEF Unlock, GoTo, TypeInv, TypeOK, Steps
    <3>2. errors' \in 0..MaxErrors
      BY <2>8, KnowledgeBaseAssumption DEF Unlock, Logged, TypeInv, TypeOK
    <3>3. base' \in [Jobs -> Report \cup {None}]
      BY <2>8 DEF Unlock, TypeInv
    <3>4. /\ version' \in [Jobs -> Nat] /\ own' \in [Jobs -> 0..lastId'] /\ guessing' \subseteq Jobs
      BY <2>8 DEF Unlock, TypeInv, TypeOK
    <3>5. \A k \in Jobs : base'[k] # None => base'[k] \in Report
      BY <3>3
    <3>6. QED
      BY <2>8, <3>1, <3>2, <3>3, <3>4, <3>5 DEF Unlock, TypeInv, TypeOK
  <2>9. QED
    BY <1>3, <2>1, <2>2, <2>3, <2>4, <2>5, <2>6, <2>7, <2>8, <2>10 DEF JobNext
<1>4. CASE \E c \in Clones : LoseLock(c)
  BY <1>4 DEF LoseLock, TypeInv, TypeOK, local
<1>5. QED
  BY <1>1, <1>2, <1>3, <1>4 DEF Next, JobNext

\* Whoever finds the lock of a clone free, and whoever gives it back, is alone in
\* the clone as long as no lock of it was lost.
LEMMA LockStep ==
  ASSUME TypeInv, LockInv, [Next]_vars
  PROVE  LockInv'
<1>1. CASE UNCHANGED vars
  BY <1>1 DEF LockInv, vars, lockVars
<1>2. CASE Push
  BY <1>2 DEF Push, LockInv, lockVars
<1>3. ASSUME NEW j \in Jobs, JobNext(j)
      PROVE  LockInv'
  <2>1. Alone(j) /\ cloneOf' = cloneOf /\ disturbed \subseteq disturbed'
    BY <1>3, JobStep
  <2>2. \A k \in Jobs : cloneOf[k] \in Clones
    BY KnowledgeBaseAssumption DEF TypeInv, TypeOK
  <2>3. holder \in [Clones -> Jobs \cup {None}] /\ pc \in [Jobs -> Steps] /\ None \notin Jobs
    BY KnowledgeBaseAssumption DEF TypeInv, TypeOK
  <2>4. CASE PeekLock(j)
    <3>1. lockVars' = lockVars /\ pc'[j] \in {"grab", "failed"}
      BY <2>3, <2>4 DEF PeekLock, GoTo, WhenLocked
    <3>2. QED
      BY <2>1, <3>1 DEF LockInv, Alone, Holding, lockVars
  <2>5. CASE CreateLock(j)
    <3>1. /\ holder' = [holder EXCEPT ![cloneOf[j]] = j]
          /\ holder[cloneOf[j]] # None => cloneOf[j] \in disturbed'
      BY <2>5 DEF CreateLock
    <3>2. \A k \in Jobs \ {j} :
            pc[k] \in Holding /\ cloneOf[k] \notin disturbed' => cloneOf[k] # cloneOf[j]
      BY <2>1, <2>3, <3>1 DEF LockInv
    <3>3. QED
      BY <2>1, <2>2, <2>3, <3>1, <3>2 DEF LockInv, Alone
  <2>6. CASE Unlock(j)
    <3>1. /\ pc'[j] = "done" /\ pc[j] = "unlock" /\ disturbed' = disturbed
          /\ holder' \in {holder, [holder EXCEPT ![cloneOf[j]] = None]}
      BY <2>3, <2>6 DEF Unlock, GoTo
    <3>2. cloneOf[j] \notin disturbed => holder[cloneOf[j]] = j
      BY <3>1 DEF LockInv, Holding
    <3>3. \A k \in Jobs \ {j} :
            pc[k] \in Holding /\ cloneOf[k] \notin disturbed => cloneOf[k] # cloneOf[j]
      BY <3>2 DEF LockInv
    <3>4. QED
      BY <2>1, <2>2, <2>3, <3>1, <3>3 DEF LockInv, Alone, Holding
  <2>7. CASE ~PeekLock(j) /\ ~CreateLock(j) /\ ~Unlock(j)
    <3>1. lockVars' = lockVars /\ pc[j] \in Holding
      BY <1>3, <2>7 DEF JobNext, GetLatest, GetVersion, StoreFullScan, StoreUpdate, FailEarly,
                        Finish, Undo, Holding, lockVars
    <3>2. QED
      BY <2>1, <3>1 DEF LockInv, Alone, lockVars
  <2>8. QED
    BY <2>4, <2>5, <2>6, <2>7
<1>4. CASE \E c \in Clones : LoseLock(c)
  BY <1>4 DEF LoseLock, LockInv, TypeInv, TypeOK
<1>5. QED
  BY <1>1, <1>2, <1>3, <1>4 DEF Next, JobNext

\* A step that stores nothing and leaves the other jobs alone.
LEMMA NothingNew ==
  ASSUME TypeInv, NEW j \in Jobs, JobNext(j), ~StoreFullScan(j), ~StoreUpdate(j)
  PROVE  /\ rows' \subseteq rows /\ lastId' = lastId
         /\ ~Unlock(j) => own' = own
         /\ ~GetVersion(j) => /\ pc'[j] # "insert"
                              /\ version'[j] \in {version[j], 0}
         /\ Extends(j)' /\ ~GetLatest(j) => base' = base /\ pc[j] = "version"
<1>1. pc \in [Jobs -> Steps] /\ version \in [Jobs -> Nat]
  BY DEF TypeInv, TypeOK
<1>2. CASE PeekLock(j) \/ CreateLock(j)
  BY <1>1, <1>2 DEF PeekLock, CreateLock, GoTo, local, Extends, WhenLocked
<1>3. CASE GetLatest(j) \/ GetVersion(j)
  BY <1>1, <1>3 DEF GetLatest, GetVersion, GoTo, Extends
<1>4. CASE FailEarly(j) \/ Finish(j) \/ Undo(j)
  BY <1>1, <1>4 DEF FailEarly, Finish, Undo, GoTo, local, Extends
<1>5. CASE Unlock(j)
  BY <1>1, <1>5 DEF Unlock, GoTo, Extends
<1>6. QED
  BY <1>2, <1>3, <1>4, <1>5 DEF JobNext

\* What other jobs know of their bases stays.
LEMMA OthersExtend ==
  ASSUME NEW j \in Jobs, Alone(j), NEW k \in Jobs \ {j}
  PROVE  (Extends(k)' <=> Extends(k)) /\ base'[k] = base[k]
BY DEF Alone, Extends

\* Versions and bases stay behind what the rows hold.
LEMMA NumberStep ==
  ASSUME TypeInv, NumberInv, HonestInv, [Next]_vars
  PROVE  NumberInv'
<1>1. CASE UNCHANGED vars
  BY <1>1 DEF NumberInv, Extends, vars
<1>2. CASE Push
  BY <1>2 DEF Push, NumberInv, Extends, local
<1>3. ASSUME NEW j \in Jobs, JobNext(j)
      PROVE  NumberInv'
  <2>1. Alone(j)
    BY <1>3, JobStep
  <2>2. lastId \in Nat /\ pc \in [Jobs -> Steps] /\ version \in [Jobs -> Nat]
    BY DEF TypeInv, TypeOK
  <2>3. ASSUME NEW new \in Report, Adds(j, new)
        PROVE  NumberInv'
    <3>1. lastId' = lastId + 1 /\ rows' = rows \cup {new} /\ version' = version
      BY <2>3 DEF Adds
    <3>2. new.version <= new.id /\ new.prev < new.id
      <4>1. new.id = lastId + 1 /\ new.version <= lastId + 1
        BY <2>3 DEF Adds, NumberInv
      <4>2. CASE new.prev = 0
        BY <2>2, <4>1, <4>2
      <4>3. CASE new.prev # 0
        <5>1. new.prev \in 1..lastId
          BY <2>3, <4>3 DEF Adds, NumberInv
        <5>2. QED
          BY <2>2, <4>1, <5>1
      <4>4. QED
        BY <4>1, <4>2, <4>3
    <3>3. \A r \in rows' : r.version <= r.id /\ r.prev < r.id
      BY <3>1, <3>2 DEF NumberInv
    <3>4. \A k \in Jobs : version'[k] <= lastId' + 1
      BY <2>2, <3>1 DEF NumberInv
    <3>5. pc'[j] = "rest"
      BY <2>2, <2>3 DEF Adds
    <3>6. \A k \in Jobs : pc'[k] = "insert" => version'[k] > 0
      BY <2>1, <3>1, <3>5 DEF NumberInv, Alone
    <3>7. ASSUME NEW k \in Jobs, Extends(k)'
          PROVE  base'[k] \in Report /\ base'[k].id \in 1..lastId'
      <4>1. k # j
        BY <3>5, <3>7 DEF Extends
      <4>2. Extends(k) /\ base'[k] = base[k]
        BY <2>1, <3>7, <4>1, OthersExtend
      <4>3. base[k] \in Report /\ base[k].id \in 1..lastId
        BY <4>2 DEF NumberInv
      <4>4. 1..lastId \subseteq 1..lastId'
        BY <2>2, <3>1
      <4>5. QED
        BY <4>2, <4>3, <4>4
    <3>8. QED
      BY <3>3, <3>4, <3>6, <3>7 DEF NumberInv
  <2>4. CASE StoreFullScan(j)
    BY <2>3, <2>4, FullScanAdds
  <2>5. CASE StoreUpdate(j)
    BY <2>3, <2>5, UpdateAdds
  <2>6. CASE ~StoreFullScan(j) /\ ~StoreUpdate(j)
    <3>1. rows' \subseteq rows /\ lastId' = lastId
      BY <1>3, <2>6, NothingNew
    <3>2. \A r \in rows' : r.version <= r.id /\ r.prev < r.id
      BY <3>1 DEF NumberInv
    <3>3. \A k \in Jobs : version'[k] <= lastId' + 1 /\ (pc'[k] = "insert" => version'[k] > 0)
      <4>1. CASE GetVersion(j)
        <5>1. version'[j] \in Nat /\ version'[j] > 0 /\ version'[j] <= lastId + 1
          <6>1. version'[j] \in {NextReportVersion, 1}
            BY <2>2, <4>1 DEF GetVersion
          <6>2. QED
            BY <2>2, <6>1, NextVersion
        <5>2. QED
          BY <2>1, <3>1, <5>1 DEF NumberInv, Alone
      <4>2. CASE ~GetVersion(j)
        <5>1. pc'[j] # "insert" /\ version'[j] \in {version[j], 0}
          BY <1>3, <2>6, <4>2, NothingNew
        <5>2. QED
          BY <2>1, <2>2, <3>1, <5>1 DEF NumberInv, Alone
      <4>3. QED
        BY <4>1, <4>2
    <3>4. ASSUME NEW k \in Jobs, Extends(k)'
          PROVE  base'[k] \in Report /\ base'[k].id \in 1..lastId'
      <4>1. CASE k # j
        BY <2>1, <3>1, <3>4, <4>1, OthersExtend DEF NumberInv
      <4>2. CASE k = j /\ GetLatest(j)
        <5>1. rows # {} /\ base'[j] = Latest
          BY <2>2, <3>4, <4>2 DEF GetLatest, GoTo, Extends, TypeInv
        <5>2. Latest \in rows
          BY <5>1, LatestIs
        <5>3. QED
          BY <3>1, <4>2, <5>1, <5>2 DEF TypeInv, TypeOK
      <4>3. CASE k = j /\ ~GetLatest(j)
        <5>1. base' = base /\ pc[j] = "version"
          BY <1>3, <2>6, <3>4, <4>3, NothingNew
        <5>2. Extends(j)
          BY <3>4, <4>3, <5>1 DEF Extends
        <5>3. QED
          BY <3>1, <4>3, <5>1, <5>2 DEF NumberInv
      <4>4. QED
        BY <4>1, <4>2, <4>3
    <3>5. QED
      BY <3>2, <3>3, <3>4 DEF NumberInv
  <2>7. QED
    BY <2>4, <2>5, <2>6
<1>4. CASE \E c \in Clones : LoseLock(c)
  BY <1>4 DEF LoseLock, NumberInv, Extends, local
<1>5. QED
  BY <1>1, <1>2, <1>3, <1>4 DEF Next, JobNext

\* No report claims a base that was not the job's.
LEMMA HonestStep ==
  ASSUME TypeInv, NumberInv, HonestInv, [Next]_vars
  PROVE  HonestInv'
<1>1. CASE UNCHANGED vars
  BY <1>1 DEF HonestInv, Extends, Honest, vars
<1>2. CASE Push
  BY <1>2 DEF Push, HonestInv, Extends, Honest, local
<1>3. ASSUME NEW j \in Jobs, JobNext(j)
      PROVE  HonestInv'
  <2>1. Alone(j) /\ pc \in [Jobs -> Steps]
    BY <1>3, JobStep DEF TypeInv, TypeOK
  <2>2. ASSUME NEW new \in Report, Adds(j, new), Honest(new)
        PROVE  HonestInv'
    <3>1. rows' = rows \cup {new} /\ pc'[j] = "rest"
      BY <2>1, <2>2 DEF Adds
    <3>2. \A r \in rows' : Honest(r)
      BY <2>2, <3>1 DEF HonestInv
    <3>3. ASSUME NEW k \in Jobs, Extends(k)'
          PROVE  Honest(base'[k])
      <4>1. k # j
        BY <3>1, <3>3 DEF Extends
      <4>2. QED
        BY <2>1, <3>3, <4>1, OthersExtend DEF HonestInv
    <3>4. QED
      BY <3>2, <3>3 DEF HonestInv, Honest
  <2>3. CASE StoreFullScan(j)
    BY <2>2, <2>3, FullScanAdds
  <2>4. CASE StoreUpdate(j)
    BY <2>2, <2>4, UpdateAdds
  <2>5. CASE ~StoreFullScan(j) /\ ~StoreUpdate(j)
    <3>1. \A r \in rows' : Honest(r)
      BY <1>3, <2>5, NothingNew DEF HonestInv
    <3>2. ASSUME NEW k \in Jobs, Extends(k)'
          PROVE  Honest(base'[k])
      <4>1. CASE k # j
        BY <2>1, <3>2, <4>1, OthersExtend DEF HonestInv
      <4>2. CASE k = j /\ GetLatest(j)
        <5>1. rows # {} /\ base'[j] = Latest
          BY <2>1, <3>2, <4>2 DEF GetLatest, GoTo, Extends, TypeInv
        <5>2. QED
          BY <4>2, <5>1, LatestIs DEF HonestInv
      <4>3. CASE k = j /\ ~GetLatest(j)
        <5>1. base' = base /\ pc[j] = "version"
          BY <1>3, <2>5, <3>2, <4>3, NothingNew
        <5>2. Extends(j)
          BY <3>2, <4>3, <5>1 DEF Extends
        <5>3. QED
          BY <4>3, <5>1, <5>2 DEF HonestInv
      <4>4. QED
        BY <4>1, <4>2, <4>3
    <3>3. QED
      BY <3>1, <3>2 DEF HonestInv, Honest
  <2>6. QED
    BY <2>3, <2>4, <2>5
<1>4. CASE \E c \in Clones : LoseLock(c)
  BY <1>4 DEF LoseLock, HonestInv, Extends, Honest, local
<1>5. QED
  BY <1>1, <1>2, <1>3, <1>4 DEF Next, JobNext

\* On one clone whose lock held, one job works at a time.
LEMMA OneAtWork ==
  ASSUME TypeInv, LockInv, OneClone, NEW i \in Jobs, NEW j \in Jobs,
         pc[i] \in Holding, pc[j] \in Holding
  PROVE  i = j
BY DEF LockInv, OneClone

\* What is stored is the last of the rows, and follows from what its job knew.
LEMMA HistoryAdds ==
  ASSUME TypeInv, LockInv, NumberInv, HistoryInv, OneClone, NEW j \in Jobs, JobNext(j),
         NEW new \in Report, Adds(j, new)
  PROVE  HistoryInv'
<1>1. /\ lastId \in Nat /\ pc \in [Jobs -> Steps] /\ Alone(j)
      /\ own \in [Jobs -> 0..lastId]
      /\ \A r \in rows : r \in Report /\ r.id \in 1..lastId
  BY JobStep DEF TypeInv, TypeOK
<1>2. \A r \in rows : r.id \in Nat /\ r.id < lastId + 1 /\ r.id <= lastId
  BY <1>1
<1>3. rows' = rows \cup {new} /\ new.id = lastId + 1 /\ lastId' = lastId + 1
  BY DEF Adds
<1>4. VersionsFollowIds'
  <2> SUFFICES ASSUME NEW r \in rows', NEW s \in rows', r.id < s.id, ~s.guessed
               PROVE  r.version < s.version
    BY DEF VersionsFollowIds
  <2>1. CASE s = new
    <3>1. r \in rows
      BY <1>1, <1>3, <2>1
    <3>2. j \notin guessing /\ pc[j] = "insert" /\ s.version = version[j]
      BY <2>1 DEF Adds
    <3>3. QED
      BY <3>1, <3>2 DEF HistoryInv, KnowsRows
  <2>2. CASE s # new
    <3>1. s \in rows
      BY <1>3, <2>2
    <3>2. r \in rows
      BY <1>2, <1>3, <3>1
    <3>3. QED
      BY <3>1, <3>2 DEF HistoryInv, VersionsFollowIds
  <2>3. QED
    BY <2>1, <2>2
<1>5. ASSUME NEW k \in Jobs
      PROVE  KnowsRows(k)'
  <2>1. CASE k = j
    <3>1. pc'[j] = "rest" /\ own'[j] = lastId'
      BY <1>1, <1>3 DEF Adds
    <3>2. QED
      BY <2>1, <3>1 DEF KnowsRows, Extends
  <2>2. CASE k # j
    <3>1. pc[k] \notin Holding
      BY <2>2, OneAtWork DEF Adds, Holding
    <3>2. pc'[k] = pc[k]
      BY <1>1, <2>2 DEF Alone
    <3>3. QED
      BY <3>1, <3>2 DEF KnowsRows, Extends, Holding
  <2>3. QED
    BY <2>1, <2>2
<1>6. ASSUME NEW r \in rows', r.prev # 0, \A t \in rows' : t.id < r.id => ~t.guessed
      PROVE  \E s \in rows' : s.id = r.prev /\ \A t \in rows' : t.id <= s.id \/ t.id >= r.id
  <2>1. CASE r = new
    <3>1. Extends(j) /\ new.prev = base[j].id
      BY <1>6, <2>1 DEF Adds
    <3>2. NoGuess
      BY <1>2, <1>3, <1>6, <2>1 DEF NoGuess
    <3>3. base[j] \in rows /\ \A t \in rows : t.id <= base[j].id
      BY <3>1, <3>2 DEF HistoryInv, KnowsRows
    <3>4. new.id >= new.id
      BY <1>1, <1>3
    <3>5. QED
      BY <1>3, <2>1, <3>1, <3>3, <3>4
  <2>2. CASE r # new
    <3>1. r \in rows /\ Chained(r)
      BY <1>3, <2>2 DEF HistoryInv
    <3>2. PICK s \in rows : s.id = r.prev /\ \A t \in rows : t.id <= s.id \/ t.id >= r.id
      BY <1>3, <1>6, <3>1 DEF Chained
    <3>3. new.id >= r.id
      BY <1>1, <1>2, <1>3, <3>1
    <3>4. QED
      BY <1>3, <3>2, <3>3
  <2>3. QED
    BY <2>1, <2>2
<1>7. QED
  BY <1>4, <1>5, <1>6 DEF HistoryInv, Chained

\* A row goes only when it is the last.
LEMMA HistoryUndo ==
  ASSUME TypeInv, NumberInv, HistoryInv, OneClone, NEW j \in Jobs, Undo(j)
  PROVE  VersionsFollowIds' /\ \A r \in rows' : Chained(r)'
<1>1. /\ lastId \in Nat /\ pc \in [Jobs -> Steps]
      /\ \A r \in rows : r \in Report /\ r.id \in 1..lastId
  BY DEF TypeInv, TypeOK
<1>2. \A r \in rows : r.id \in Nat /\ r.prev \in Nat /\ r.id <= lastId /\ r.prev < r.id
  BY <1>1 DEF Report, NumberInv
<1>3. rows' \subseteq rows /\ \A r \in rows : r.id = lastId \/ r \in rows'
  <2>1. own[j] = lastId
    BY DEF HistoryInv, KnowsRows, Undo
  <2>2. QED
    BY <2>1 DEF Undo
<1>4. VersionsFollowIds'
  BY <1>3 DEF HistoryInv, VersionsFollowIds
<1>5. ASSUME NEW r \in rows', r.prev # 0, \A t \in rows' : t.id < r.id => ~t.guessed
      PROVE  \E s \in rows' : s.id = r.prev /\ \A t \in rows' : t.id <= s.id \/ t.id >= r.id
  <2>1. r \in rows /\ Chained(r) /\ r.id <= lastId
    BY <1>2, <1>3 DEF HistoryInv
  <2>2. \A t \in rows : t.id < r.id => t \in rows'
    BY <1>1, <1>2, <1>3, <2>1
  <2>3. PICK s \in rows : s.id = r.prev /\ \A t \in rows : t.id <= s.id \/ t.id >= r.id
    BY <1>5, <2>1, <2>2 DEF Chained
  <2>4. s \in rows'
    BY <1>2, <2>1, <2>2, <2>3
  <2>5. QED
    BY <1>3, <2>3, <2>4
<1>6. QED
  BY <1>4, <1>5 DEF Chained

\* Ids and versions go up together, and the chain of bases stays whole.
LEMMA HistoryStep ==
  ASSUME TypeInv, LockInv, NumberInv, HonestInv, HistoryInv, [Next]_vars
  PROVE  HistoryInv'
<1>1. CASE UNCHANGED vars
  BY <1>1 DEF HistoryInv, OneClone, VersionsFollowIds, KnowsRows, Extends, NoGuess, Chained, vars,
              lockVars
<1>2. CASE Push
  BY <1>2 DEF Push, HistoryInv, OneClone, VersionsFollowIds, KnowsRows, Extends, NoGuess,
              Chained, local, lockVars
<1>3. ASSUME NEW j \in Jobs, JobNext(j)
      PROVE  HistoryInv'
  <2>1. Alone(j) /\ cloneOf' = cloneOf /\ disturbed \subseteq disturbed' /\ pc \in [Jobs -> Steps]
    BY <1>3, JobStep DEF TypeInv, TypeOK
  <2> SUFFICES ASSUME OneClone PROVE HistoryInv'
    BY <2>1 DEF HistoryInv, OneClone
  <2>2. CASE StoreFullScan(j)
    BY <1>3, <2>2, FullScanAdds, HistoryAdds
  <2>3. CASE StoreUpdate(j)
    BY <1>3, <2>3, UpdateAdds, HistoryAdds
  <2>4. CASE ~StoreFullScan(j) /\ ~StoreUpdate(j)
    <3>1. rows' \subseteq rows /\ lastId' = lastId /\ (~Unlock(j) => own' = own)
      BY <1>3, <2>4, NothingNew
    <3>2. Undo(j) \/ rows' = rows
      BY <1>3, <2>4 DEF JobNext, PeekLock, CreateLock, GetLatest, GetVersion, FailEarly,
                        Finish, Unlock
    <3>3. VersionsFollowIds' /\ \A r \in rows' : Chained(r)'
      <4>1. CASE Undo(j)
        BY <4>1, HistoryUndo
      <4>2. CASE rows' = rows
        BY <4>2 DEF HistoryInv, VersionsFollowIds, Chained
      <4>3. QED
        BY <3>2, <4>1, <4>2
    <3>4. ASSUME NEW k \in Jobs \ {j}
          PROVE  KnowsRows(k)'
      <4>1. CASE pc[k] \in Holding
        <5>1. pc[j] \notin Holding
          BY <3>4, <4>1, OneAtWork
        <5>2. rows' = rows
          BY <3>2, <5>1 DEF Undo, Holding
        <5>3. (NoGuess' <=> NoGuess) /\ (Extends(k)' <=> Extends(k))
          BY <2>1, <5>2, OthersExtend DEF NoGuess
        <5>4. KnowsRows(k) /\ pc'[k] = pc[k] /\ base'[k] = base[k] /\ version'[k] = version[k]
              /\ own'[k] = own[k] /\ (k \in guessing' <=> k \in guessing)
          BY <2>1 DEF HistoryInv, Alone
        <5>5. QED
          BY <3>1, <5>2, <5>3, <5>4 DEF KnowsRows
      <4>2. CASE pc[k] \notin Holding
        BY <2>1, <4>2 DEF Alone, KnowsRows, Extends, Holding
      <4>3. QED
        BY <4>1, <4>2
    <3>5. KnowsRows(j)'
      <4>1. CASE PeekLock(j) \/ Undo(j) \/ Unlock(j) \/ FailEarly(j)
        BY <2>1, <4>1 DEF PeekLock, Undo, Unlock, FailEarly, GoTo, KnowsRows, Extends, WhenLocked
      <4>6. CASE CreateLock(j)
        BY <2>1, <4>6 DEF CreateLock, GoTo, KnowsRows, Extends
      <4>2. CASE Finish(j)
        <5>1. pc[j] = "rest" /\ pc'[j] \in {"undo", "unlock"}
          BY <2>1, <4>2 DEF Finish, GoTo
        <5>2. own[j] = lastId
          BY <5>1 DEF HistoryInv, KnowsRows
        <5>3. own' = own
          BY <4>2 DEF Finish, local
        <5>4. QED
          BY <3>1, <5>1, <5>2, <5>3 DEF KnowsRows, Extends
      <4>3. CASE GetLatest(j)
        <5>1. rows' = rows /\ pc'[j] \in {"version", "unlock"}
          BY <2>1, <4>3 DEF GetLatest, GoTo
        <5>2. ASSUME Extends(j)'
              PROVE  base'[j] \in rows /\ (NoGuess => \A r \in rows : r.id <= base'[j].id)
          <6>1. rows # {} /\ base'[j] = Latest
            BY <2>1, <4>3, <5>2 DEF GetLatest, GoTo, Extends, TypeInv
          <6>2. Latest \in rows /\ \A s \in rows : s.version <= Latest.version
            BY <6>1, LatestIs
          <6>3. \A r \in rows : r.id \in Nat /\ r.version \in Nat
            BY DEF TypeInv, TypeOK, Report
          <6>4. ASSUME NoGuess, NEW r \in rows, Latest.id < r.id
                PROVE  FALSE
            <7>1. Latest.version < r.version
              BY <6>2, <6>4 DEF HistoryInv, VersionsFollowIds, NoGuess
            <7>2. QED
              BY <6>2, <6>3, <7>1
          <6>5. QED
            BY <6>1, <6>2, <6>3, <6>4
        <5>3. NoGuess' <=> NoGuess
          BY <5>1 DEF NoGuess
        <5>4. QED
          BY <5>1, <5>2, <5>3 DEF KnowsRows
      <4>4. CASE GetVersion(j)
        <5>1. /\ pc[j] = "version" /\ pc'[j] = "insert" /\ rows' = rows /\ base' = base
              /\ version'[j] = NextReportVersion \/ j \in guessing'
          BY <2>1, <4>4 DEF GetVersion, GoTo, TypeInv, TypeOK
        <5>2. j \notin guessing' => \A r \in rows' : r.version < version'[j]
          BY <5>1, NextVersion
        <5>3. (NoGuess' <=> NoGuess) /\ (Extends(j)' => Extends(j))
          BY <5>1 DEF NoGuess, Extends
        <5>4. QED
          BY <5>1, <5>2, <5>3 DEF HistoryInv, KnowsRows
      <4>5. QED
        BY <1>3, <2>4, <4>1, <4>2, <4>3, <4>4, <4>6 DEF JobNext
    <3>6. QED
      BY <3>3, <3>4, <3>5 DEF HistoryInv
  <2>5. QED
    BY <2>2, <2>3, <2>4
<1>4. CASE \E c \in Clones : LoseLock(c)
  BY <1>4 DEF LoseLock, HistoryInv, OneClone
<1>5. QED
  BY <1>1, <1>2, <1>3, <1>4 DEF Next, JobNext

\* The invariant holds in every behaviour.
LEMMA KBInvariant == Spec => []KBInv
<1>1. Init => KBInv
  BY KBInit
<1>2. KBInv /\ [Next]_vars => KBInv'
  BY TypeStep, LockStep, NumberStep, HonestStep, HistoryStep DEF KBInv
<1>3. QED
  BY <1>1, <1>2, PTL DEF Spec

-----------------------------------------------------------------------------
(***************************************************************************)
(* The theorems.                                                           *)
(***************************************************************************)
\* For any jobs, pushes, layouts and errors the reports of a project are a history
\* as long as it has one clone and nobody replaced or deleted the lock of that
\* clone: their versions follow their keys, and they form an unbroken chain
\* unless a version was guessed.
THEOREM ReportsCorrect == Spec => []ReportsInv
<1>1. KBInv => ReportsInv
  <2> SUFFICES ASSUME KBInv PROVE ReportsInv
    OBVIOUS
  <2>1. TypeOK
    BY DEF KBInv, TypeInv
  <2>2. VersionsFollowIds
    BY DEF KBInv, HistoryInv, VersionsFollowIds
  <2>3. ChainUnbroken
    <3> SUFFICES ASSUME OneClone, \A r \in rows : ~r.guessed, NEW r \in rows, r.prev # 0
                 PROVE  \E s \in rows : s.id = r.prev
                                        /\ \A t \in rows : t.id <= s.id \/ t.id >= r.id
      BY DEF ChainUnbroken
    <3>1. Chained(r)
      BY DEF KBInv, HistoryInv
    <3>2. QED
      BY <3>1 DEF Chained
  <2>4. QED
    BY <2>1, <2>2, <2>3 DEF ReportsInv
<1>2. QED
  BY <1>1, KBInvariant, PTL

\* On any clones, whatever fails, comes late or runs side by side, an update
\* loses changes only in the four cases in which the code is known to.
THEOREM KBSoundCorrect == Spec => []KBSound
<1>1. KBInv => KBSound
  BY DEF KBInv, HonestInv, Honest, KBSound
<1>2. QED
  BY <1>1, KBInvariant, PTL
=============================================================================
