----------------------- MODULE AnalysisPipeline_proofs -----------------------
(***************************************************************************)
(* Theorems about AnalysisPipeline: its invariants hold for every set of   *)
(* quests and milestones, whatever call fails at whatever point.  The      *)
(* account they rest on is TraceInv: each effect of the job is somewhere,  *)
(* in the rollback list, in hand, or given up for a named reason.          *)
(***************************************************************************)
EXTENDS AnalysisPipeline, Naturals, TLAPS

\* What a list of undo calls removes if every call works.
Joined(calls) == UNION {calls[i] : i \in DOMAIN calls}

\* Effects the code knows of but has added no undo for yet, or never will.
InHand ==
  (IF at \in {"insert", "orphan"} THEN {Object(artifact)} ELSE {})
    \cup (IF at = "saveQuests"
          THEN All("eval", Quests) \cup (result \cap (All("new", NewQuests) \cup All("done", Quests)))
          ELSE {})
    \cup (IF at = "saveMilestones" THEN MilestoneEvals \cup All("milestoneStatus", changed) ELSE {})
    \cup (IF at \in {"keywords", "complete", "end"} /\ status # "NOTIFICATION_QUEUED" THEN Final ELSE {})

\* Every effect is accounted for, and a job gives up with nothing left to undo.
TraceInv ==
  /\ world \subseteq Residue \cup astray \cup Joined(rb) \cup InHand
  /\ at = "abandon" => rb = <<>>
  /\ status # "RUNNING" => at = "end"
  /\ status = "NOTIFICATION_QUEUED" => rb = <<>>

\* The undo of a row comes straight after the undo of its object.
Paired(calls) ==
  \A i \in DOMAIN calls : \A x \in {"kb", "uv"} :
    Object(x) \in calls[i] => i + 1 \in DOMAIN calls /\ Row(x) \in calls[i + 1]

\* A row is inserted once, and an insert that failed leaves it astray or out.
Early == {"context", "plan", "ask", "saveQuests", "milestones", "saveMilestones", "view"}

RowLater ==
  /\ at \in Early => artifact = "kb"
  /\ artifact = "kb" => Row("uv") \notin world
  /\ at \in {"context", "upload", "insert"} => Row(artifact) \notin world
  /\ at = "orphan" /\ Row(artifact) \in world => Row(artifact) \in astray

\* A row is inserted after its object, and only the rollback parts them.
ObjectInv ==
  /\ RowHasObject /\ RowLater /\ Paired(rb)
  /\ at = "insert" => Object(artifact) \in world

\* The undo of the knowledge base's row comes after every other undo.
KBLast(calls) == \A i \in DOMAIN calls : Row("kb") \in calls[i] => i = Len(calls)

BeforeKB == at = "context" \/ (at \in {"upload", "insert", "orphan"} /\ artifact = "kb")

\* Nothing but the report is there before the knowledge base's row is, and
\* again once the rollback has taken that row away.
BaseInv ==
  /\ KBLast(rb) /\ (at = "context" => artifact = "kb")
  /\ BeforeKB => rb = <<>> /\ world \subseteq {Object("kb"), Row("kb")}
  /\ Row("kb") \in world \/ (DerivedNeedsKB /\ (BeforeKB \/ at \in {"undo", "abandon", "end"}))

\* As long as the job goes forward, its result is what it is known to have stored.
ResultInv ==
  at \notin {"undo", "abandon"} => (world \cap Nameable) \ astray = result \ astray

\* The job reopens only quests that it completed itself.
MineInv ==
  /\ CompletionStays
  /\ \A q \in Quests : <<"done", q>> \in result \cup Joined(rb) => q \in mine

PipelineInv == TraceInv /\ ObjectInv /\ BaseInv /\ FinalIsFinal /\ ResultInv /\ MineInv

-----------------------------------------------------------------------------
(***************************************************************************)
(* Lists of undo calls.                                                    *)
(***************************************************************************)
\* A list written out is a list, and so are two lists one after the other.
LEMMA Lists ==
  \A S : /\ <<>> \in Seq(S)
         /\ \A a, b, c \in S : <<a, b>> \in Seq(S) /\ <<a, b, c>> \in Seq(S)
         /\ \A s, t \in Seq(S) : s \o t \in Seq(S)
OBVIOUS

\* What is joined is what some call removes.
LEMMA JoinedHas == \A calls, e : e \in Joined(calls) <=> \E i \in DOMAIN calls : e \in calls[i]
BY DEF Joined

\* Calls put in front of others.
LEMMA JoinedAdd ==
  ASSUME NEW S, NEW calls \in Seq(S), NEW others \in Seq(S)
  PROVE  Joined(calls \o others) = Joined(calls) \cup Joined(others)
<1>1. \A i \in DOMAIN calls : i \in DOMAIN (calls \o others) /\ (calls \o others)[i] = calls[i]
  OBVIOUS
<1>2. \A i \in DOMAIN others :
        Len(calls) + i \in DOMAIN (calls \o others) /\ (calls \o others)[Len(calls) + i] = others[i]
  OBVIOUS
<1>3. \A k \in DOMAIN (calls \o others) :
        \/ k \in DOMAIN calls /\ (calls \o others)[k] = calls[k]
        \/ \E i \in DOMAIN others : (calls \o others)[k] = others[i]
  <2> TAKE k \in DOMAIN (calls \o others)
  <2>1. CASE k > Len(calls)
    <3>1. k - Len(calls) \in DOMAIN others /\ (calls \o others)[k] = others[k - Len(calls)]
      BY <2>1
    <3>2. QED
      BY <3>1
  <2>2. CASE k <= Len(calls)
    BY <2>2
  <2>3. QED
    BY <2>1, <2>2
<1>4. ASSUME NEW e \in Joined(calls \o others) PROVE e \in Joined(calls) \cup Joined(others)
  <2>1. PICK k \in DOMAIN (calls \o others) : e \in (calls \o others)[k]
    BY <1>4, JoinedHas
  <2>2. QED
    BY <1>3, <2>1, JoinedHas
<1>5. Joined(calls) \subseteq Joined(calls \o others)
  BY <1>1, JoinedHas
<1>6. ASSUME NEW e \in Joined(others) PROVE e \in Joined(calls \o others)
  <2>1. PICK i \in DOMAIN others : e \in others[i]
    BY <1>6, JoinedHas
  <2>2. QED
    BY <1>2, <2>1, JoinedHas
<1>7. QED
  BY <1>4, <1>5, <1>6

\* The first call and the rest.
LEMMA JoinedHead ==
  ASSUME NEW S, NEW calls \in Seq(S), calls # <<>>
  PROVE  Joined(calls) = Head(calls) \cup Joined(Tail(calls))
<1>1. 1 \in DOMAIN calls /\ Head(calls) = calls[1]
  OBVIOUS
<1>2. \A i \in DOMAIN Tail(calls) : i + 1 \in DOMAIN calls /\ Tail(calls)[i] = calls[i + 1]
  OBVIOUS
<1>3. \A k \in DOMAIN calls : k # 1 => k - 1 \in DOMAIN Tail(calls) /\ Tail(calls)[k - 1] = calls[k]
  OBVIOUS
<1>4. ASSUME NEW e \in Joined(calls) PROVE e \in Head(calls) \cup Joined(Tail(calls))
  <2>1. PICK k \in DOMAIN calls : e \in calls[k]
    BY <1>4, JoinedHas
  <2>2. QED
    BY <1>1, <1>3, <2>1, JoinedHas
<1>5. Head(calls) \subseteq Joined(calls)
  BY <1>1, JoinedHas
<1>6. ASSUME NEW e \in Joined(Tail(calls)) PROVE e \in Joined(calls)
  <2>1. PICK i \in DOMAIN Tail(calls) : e \in Tail(calls)[i]
    BY <1>6, JoinedHas
  <2>2. QED
    BY <1>2, <2>1, JoinedHas
<1>7. QED
  BY <1>4, <1>5, <1>6

\* Nothing is joined of no call.
LEMMA JoinedNone == Joined(<<>>) = {}
BY DEF Joined

\* Calls in front leave the row of the knowledge base last.
LEMMA KBLastAdd ==
  ASSUME NEW S, NEW calls \in Seq(S), NEW others \in Seq(S),
         KBLast(others), Row("kb") \notin Joined(calls)
  PROVE  KBLast(calls \o others)
<1> SUFFICES ASSUME NEW k \in DOMAIN (calls \o others), Row("kb") \in (calls \o others)[k]
             PROVE  k = Len(calls \o others)
  BY DEF KBLast
<1>1. CASE k <= Len(calls)
  <2>1. k \in DOMAIN calls /\ (calls \o others)[k] = calls[k]
    BY <1>1
  <2>2. QED
    BY <2>1 DEF Joined
<1>2. CASE k > Len(calls)
  <2>1. k - Len(calls) \in DOMAIN others /\ (calls \o others)[k] = others[k - Len(calls)]
    BY <1>2
  <2>2. k - Len(calls) = Len(others)
    BY <2>1 DEF KBLast
  <2>3. QED
    BY <2>2
<1>3. QED
  BY <1>1, <1>2

\* If the first call removes that row it is the only one.
LEMMA KBLastHead ==
  ASSUME NEW S, NEW calls \in Seq(S), calls # <<>>, KBLast(calls)
  PROVE  KBLast(Tail(calls)) /\ (Row("kb") \in Head(calls) => Tail(calls) = <<>>)
<1>1. 1 \in DOMAIN calls /\ Head(calls) = calls[1]
  OBVIOUS
<1>2. \A i \in DOMAIN Tail(calls) : i + 1 \in DOMAIN calls /\ Tail(calls)[i] = calls[i + 1]
  OBVIOUS
<1>3. Len(Tail(calls)) = Len(calls) - 1
  OBVIOUS
<1>4. KBLast(Tail(calls))
  BY <1>2, <1>3 DEF KBLast
<1>5. Row("kb") \in Head(calls) => Tail(calls) = <<>>
  BY <1>1, <1>3 DEF KBLast
<1>6. QED
  BY <1>4, <1>5

\* Calls in front leave pairs together.
LEMMA PairedAdd ==
  ASSUME NEW S, NEW calls \in Seq(S), NEW others \in Seq(S), Paired(calls), Paired(others)
  PROVE  Paired(calls \o others)
<1> DEFINE both == calls \o others
<1>1. \A i \in DOMAIN calls : i \in DOMAIN both /\ both[i] = calls[i]
  OBVIOUS
<1>2. \A i \in DOMAIN others : Len(calls) + i \in DOMAIN both /\ both[Len(calls) + i] = others[i]
  OBVIOUS
<1>3. SUFFICES ASSUME NEW k \in DOMAIN both, NEW x \in {"kb", "uv"}, Object(x) \in both[k]
               PROVE  k + 1 \in DOMAIN both /\ Row(x) \in both[k + 1]
  BY DEF Paired
<1> HIDE DEF both
<1>4. CASE k \in DOMAIN calls
  <2>1. k + 1 \in DOMAIN calls /\ Row(x) \in calls[k + 1]
    BY <1>1, <1>3, <1>4 DEF Paired
  <2>2. QED
    BY <1>1, <2>1
<1>5. CASE k \notin DOMAIN calls
  <2>1. k - Len(calls) \in DOMAIN others /\ both[k] = others[k - Len(calls)]
    BY <1>3, <1>5 DEF both
  <2>2. (k - Len(calls)) + 1 \in DOMAIN others /\ Row(x) \in others[(k - Len(calls)) + 1]
    BY <1>3, <2>1 DEF Paired
  <2>3. Len(calls) + ((k - Len(calls)) + 1) = k + 1
    BY <1>3 DEF both
  <2>4. QED
    BY <1>2, <2>2, <2>3
<1>6. QED
  BY <1>4, <1>5

\* The first call and its pair.
LEMMA PairedHead ==
  ASSUME NEW S, NEW calls \in Seq(S), calls # <<>>, Paired(calls)
  PROVE  /\ Paired(Tail(calls))
         /\ \A x \in {"kb", "uv"} : Object(x) \in Head(calls) =>
              Tail(calls) # <<>> /\ Row(x) \in Head(Tail(calls))
<1>1. 1 \in DOMAIN calls /\ Head(calls) = calls[1] /\ 1 + 1 = 2
  OBVIOUS
<1>2. \A i \in DOMAIN Tail(calls) : i + 1 \in DOMAIN calls /\ Tail(calls)[i] = calls[i + 1]
  OBVIOUS
<1>3. \A i \in DOMAIN calls : i # 1 => i - 1 \in DOMAIN Tail(calls) /\ Tail(calls)[i - 1] = calls[i]
  OBVIOUS
<1>4. Paired(Tail(calls))
  <2> SUFFICES ASSUME NEW i \in DOMAIN Tail(calls), NEW x \in {"kb", "uv"}, Object(x) \in Tail(calls)[i]
               PROVE  i + 1 \in DOMAIN Tail(calls) /\ Row(x) \in Tail(calls)[i + 1]
    BY DEF Paired
  <2>1. (i + 1) + 1 \in DOMAIN calls /\ Row(x) \in calls[(i + 1) + 1]
    BY <1>2 DEF Paired
  <2>2. i \in Nat /\ (i + 1) + 1 # 1 /\ ((i + 1) + 1) - 1 = i + 1
    OBVIOUS
  <2>3. QED
    BY <1>3, <2>1, <2>2
<1>5. ASSUME NEW x \in {"kb", "uv"}, Object(x) \in Head(calls)
      PROVE  Tail(calls) # <<>> /\ Row(x) \in Head(Tail(calls))
  <2>1. 2 \in DOMAIN calls /\ Row(x) \in calls[2]
    BY <1>1, <1>5 DEF Paired
  <2>2. Tail(calls) # <<>> /\ Head(Tail(calls)) = calls[2]
    BY <2>1
  <2>3. QED
    BY <2>1, <2>2
<1>6. QED
  BY <1>4, <1>5

-----------------------------------------------------------------------------
(***************************************************************************)
(* Types.                                                                  *)
(***************************************************************************)
\* A call that undoes: what is kept of its effects goes astray, and only if
\* nothing is are its quests open again.
LEMMA Undone ==
  ASSUME NEW call, UndoCall(call)
  PROVE  /\ \E kept \in SUBSET (call \cap world) :
              /\ world' = (world \ call) \cup kept /\ astray' = astray \cup kept
              /\ \/ kept = {} /\ completed' = completed \ Reopened(call)
                 \/ completed' = completed
         /\ UNCHANGED <<kind, cancelled, alive, mine, otherVars>>
<1>1. CASE world' = world \ call /\ UNCHANGED astray /\ completed' = completed \ Reopened(call)
  BY <1>1 DEF UndoCall
<1>2. CASE \E kept \in SUBSET (call \cap world) :
             /\ world' = (world \ call) \cup kept /\ astray' = astray \cup kept
             /\ completed' = IF kept = {} THEN completed \ Reopened(call) ELSE completed
  BY <1>2 DEF UndoCall
<1>3. QED
  BY <1>1, <1>2 DEF UndoCall

\* It removes effects, reopens quests, and makes nothing of its own.
LEMMA Removal ==
  ASSUME NEW call, UndoCall(call), world \subseteq Effects, astray \subseteq Effects
  PROVE  /\ world' \subseteq world /\ world' \subseteq Effects /\ astray' \subseteq Effects
         /\ completed' \subseteq completed /\ astray \subseteq astray'
         /\ UNCHANGED <<kind, cancelled, alive, mine, otherVars>>
<1>1. PICK kept \in SUBSET (call \cap world) :
        /\ world' = (world \ call) \cup kept /\ astray' = astray \cup kept
        /\ completed' \subseteq completed
  BY Undone
<1>2. QED
  BY <1>1, Undone

\* What the steps can add is a list of sets of effects.
LEMMA UndoTypes ==
  ASSUME TypeOK
  PROVE  /\ ReportUndo(artifact) \in Seq(SUBSET Effects)
         /\ QuestUndo \in Seq(SUBSET Effects)
         /\ MilestoneUndo \in Seq(SUBSET Effects)
<1>1. {Object(artifact)} \subseteq Effects /\ {Row(artifact)} \subseteq Effects
  BY DEF TypeOK, Effects, All, Object, Row
<1>2. All("eval", Quests) \subseteq Effects /\ Nameable \subseteq Effects
  BY DEF Effects, Nameable
<1>3. MilestoneEvals \subseteq Effects /\ All("milestoneStatus", changed) \subseteq Effects
  BY DEF TypeOK, Effects, MilestoneStatuses, All
<1>4. result \subseteq Effects
  BY <1>2 DEF TypeOK
<1>5. ReportUndo(artifact) \in Seq(SUBSET Effects)
  BY <1>1, Lists DEF ReportUndo
<1>6. QuestUndo \in Seq(SUBSET Effects)
  <2>1. result \cap All("new", NewQuests) \in SUBSET Effects /\ result \cap All("done", Quests) \in SUBSET Effects
    BY <1>4
  <2>2. QED
    BY <1>2, <2>1, Lists DEF QuestUndo
<1>7. MilestoneUndo \in Seq(SUBSET Effects)
  BY <1>3, Lists DEF MilestoneUndo
<1>8. QED
  BY <1>5, <1>6, <1>7

\* Every step keeps the types.
LEMMA TypeStep == TypeOK /\ [Next]_vars => TypeOK'
<1> SUFFICES ASSUME TypeOK, [Next]_vars PROVE TypeOK'
  OBVIOUS
<1> USE DEF TypeOK, frame, questVars, otherVars
<1>1. ASSUME BuildContext \/ PlanRoadmap \/ AskQuests \/ WriteUserView PROVE TypeOK'
  BY <1>1 DEF BuildContext, PlanRoadmap, AskQuests, WriteUserView, Prepare, ActiveQuests, Steps
<1>2. CASE Upload
  <2>1. Object(artifact) \in Effects
    BY DEF Effects, All, Object
  <2>2. QED
    BY <1>2, <2>1 DEF Upload, Steps
<1>3. CASE Insert
  <2>1. Row(artifact) \in Effects /\ Row(artifact) \in Nameable
    BY DEF Effects, Nameable, All, Row
  <2>2. at' \in Steps /\ left = {}
    BY <1>3 DEF Insert, AfterInsert, Steps
  <2>3. rb' \in Seq(SUBSET Effects)
    <3>1. ReportUndo(artifact) \in Seq(SUBSET Effects) /\ rb \in Seq(SUBSET Effects)
      BY UndoTypes
    <3>2. rb' = rb \/ rb' = ReportUndo(artifact) \o rb
      BY <1>3 DEF Insert, Add
    <3>3. QED
      BY <3>1, <3>2, Lists
  <2>4. QED
    BY <1>3, <2>1, <2>2, <2>3 DEF Insert
<1>4. CASE DropOrphan
  <2>1. UndoCall({Object(artifact)})
    BY <1>4 DEF DropOrphan
  <2>2. QED
    BY <1>4, <2>1, Removal DEF DropOrphan, Steps
<1>5. ASSUME NEW q \in Quests, EvaluateQuest(q) PROVE TypeOK'
  <2>1. {<<"eval", q>>, <<"stamp", q>>, <<"done", q>>} \subseteq Effects /\ <<"done", q>> \in Nameable
    BY DEF Effects, Nameable, Stamps, All
  <2>2. \A new \in SUBSET {<<"eval", q>>, <<"stamp", q>>, <<"done", q>>} : Reopened(new) \subseteq Quests
    BY DEF Reopened
  <2>3. PICK new \in SUBSET {<<"eval", q>>, <<"stamp", q>>, <<"done", q>>} : \E known \in SUBSET new :
          /\ world' = world \cup new
          /\ result' = result \cup CompletedIDs(q, known)
          /\ astray' = astray \cup ((new \cap {<<"done", q>>}) \ known)
          /\ completed' = completed \cup Reopened(new)
          /\ mine' = mine \cup Reopened(new)
    BY <1>5 DEF EvaluateQuest
  <2>4. left' \subseteq left /\ UNCHANGED <<kind, cancelled, alive, other, asked, theirs, at, artifact, changed, rb, status>>
    BY <1>5 DEF EvaluateQuest
  <2>5. world' \subseteq Effects /\ astray' \subseteq Effects /\ result' \subseteq Nameable
    BY <2>1, <2>3 DEF CompletedIDs
  <2>6. completed' \subseteq mine' \cup theirs /\ mine' \subseteq Quests
    BY <2>2, <2>3
  <2>7. QED
    BY <2>4, <2>5, <2>6
<1>6. ASSUME NEW n \in NewQuests, InsertQuest(n) PROVE TypeOK'
  <2>1. <<"new", n>> \in Effects /\ <<"new", n>> \in Nameable
    BY DEF Effects, Nameable, All
  <2>2. QED
    BY <1>6, <2>1 DEF InsertQuest
<1>7. CASE QuestsSaved
  <2>1. rb' \in Seq(SUBSET Effects)
    <3>1. QuestUndo \in Seq(SUBSET Effects) /\ rb \in Seq(SUBSET Effects)
      BY UndoTypes
    <3>2. rb' = rb \/ rb' = QuestUndo \o rb
      BY <1>7 DEF QuestsSaved, Add
    <3>3. QED
      BY <3>1, <3>2, Lists
  <2>2. QED
    BY <1>7, <2>1 DEF QuestsSaved, AfterQuests, Steps, LoopEnds
<1>8. CASE AskMilestones
  BY <1>8 DEF AskMilestones, Steps
<1>9. ASSUME NEW m \in Milestones, EvaluateMilestone(m) PROVE TypeOK'
  <2>1. {<<"milestoneEval", m>>, <<"milestoneStatus", m>>} \subseteq Effects
    BY DEF Effects, MilestoneEvals, MilestoneStatuses, All
  <2>2. QED
    BY <1>9, <2>1 DEF EvaluateMilestone
<1>10. CASE MilestonesSaved
  <2>1. rb' \in Seq(SUBSET Effects)
    <3>1. MilestoneUndo \in Seq(SUBSET Effects) /\ rb \in Seq(SUBSET Effects)
      BY UndoTypes
    <3>2. rb' = rb \/ rb' = MilestoneUndo \o rb
      BY <1>10 DEF MilestonesSaved, Add
    <3>3. QED
      BY <3>1, <3>2, Lists
  <2>2. QED
    BY <1>10, <2>1 DEF MilestonesSaved, Steps, LoopEnds
<1>11. ASSUME PersistRoadmap \/ ExtractKeywords PROVE TypeOK'
  <2>1. {Roadmap, Keywords} \subseteq Effects
    BY DEF Effects, Final
  <2>2. QED
    BY <1>11, <2>1 DEF PersistRoadmap, ExtractKeywords, AfterKeywordError, Steps
<1>12. CASE Undo
  <2>1. CASE rb = <<>>
    BY <1>12, <2>1 DEF Undo, Steps
  <2>2. CASE rb # <<>>
    <3>1. UndoCall(Head(rb)) /\ Tail(rb) \in Seq(SUBSET Effects)
      BY <1>12, <2>2 DEF Undo
    <3>2. QED
      BY <1>12, <2>2, <3>1, Removal DEF Undo
  <2>3. QED
    BY <2>1, <2>2
<1>13. ASSUME Complete \/ Abandon PROVE TypeOK'
  BY <1>13 DEF Complete, Abandon, SetStatus, Steps
<1>14. ASSUME Cancel \/ Crash PROVE TypeOK'
  BY <1>14 DEF Cancel, Crash
<1>15. CASE OtherJob
  <2>1. other' \in {"waiting", "saving", "succeeded", "undone"}
    BY <1>15 DEF OtherJob, OtherAsks, OtherCompletes, OtherEnds
  <2>2. /\ completed' \subseteq mine' \cup theirs'
        /\ mine' \cup theirs' \cup asked' \subseteq Quests
    BY <1>15 DEF OtherJob, OtherAsks, OtherCompletes, OtherEnds, ActiveQuests
  <2>3. QED
    BY <1>15, <2>1, <2>2 DEF OtherJob
<1>16. CASE UNCHANGED vars
  BY <1>16 DEF vars
<1>17. QED
  BY <1>1, <1>2, <1>3, <1>4, <1>5, <1>6, <1>7, <1>8, <1>9, <1>10, <1>11, <1>12, <1>13, <1>14,
     <1>15, <1>16 DEF Next

-----------------------------------------------------------------------------
(***************************************************************************)
(* Every effect is accounted for.                                          *)
(***************************************************************************)
\* What the closures added to the rollback list remove.
LEMMA Closures ==
  ASSUME TypeOK
  PROVE  /\ \A x : Joined(ReportUndo(x)) = {Object(x), Row(x)}
         /\ Joined(QuestUndo) =
              All("eval", Quests) \cup (result \cap (All("new", NewQuests) \cup All("done", Quests)))
         /\ Joined(MilestoneUndo) =
              IF changed = {} THEN {} ELSE MilestoneEvals \cup All("milestoneStatus", changed)
<1>1. \A a, b : Joined(<<a, b>>) = a \cup b
  <2> SUFFICES ASSUME NEW a, NEW b PROVE Joined(<<a, b>>) = a \cup b
    OBVIOUS
  <2>1. \A e : e \in Joined(<<a, b>>) <=> e \in a \cup b
    BY JoinedHas
  <2>2. QED
    BY <2>1
<1>2. \A a, b, c : Joined(<<a, b, c>>) = a \cup b \cup c
  <2> SUFFICES ASSUME NEW a, NEW b, NEW c PROVE Joined(<<a, b, c>>) = a \cup b \cup c
    OBVIOUS
  <2>1. \A e : e \in Joined(<<a, b, c>>) <=> e \in a \cup b \cup c
    BY JoinedHas
  <2>2. QED
    BY <2>1
<1>3. \A x : Joined(ReportUndo(x)) = {Object(x), Row(x)}
  BY <1>1 DEF ReportUndo
<1>4. Joined(QuestUndo) =
        All("eval", Quests) \cup (result \cap (All("new", NewQuests) \cup All("done", Quests)))
  BY <1>2 DEF QuestUndo
<1>5. Joined(MilestoneUndo) =
        IF changed = {} THEN {} ELSE MilestoneEvals \cup All("milestoneStatus", changed)
  BY <1>1, JoinedNone DEF MilestoneUndo
<1>6. QED
  BY <1>3, <1>4, <1>5

\* A closure is added: the list removes what it did and what the closure does.
LEMMA Added ==
  ASSUME TypeOK, NEW calls \in Seq(SUBSET Effects), rb' = Add(calls)
  PROVE  Joined(rb)' = Joined(calls) \cup Joined(rb)
BY JoinedAdd DEF TypeOK, Add

\* A step that takes no effect out of the account.
LEMMA TraceFrame ==
  ASSUME TraceInv, UNCHANGED <<changed, rb, status>>, at' # "abandon", status = "RUNNING",
         astray \subseteq astray', InHand \subseteq InHand' \cup astray',
         world' \subseteq world \cup Residue \cup astray' \cup InHand'
  PROVE  TraceInv'
BY DEF TraceInv, Residue

\* Every step keeps the account.
LEMMA TraceStep == TypeOK /\ TraceInv /\ [Next]_vars => TraceInv'
<1> SUFFICES ASSUME TypeOK, TraceInv, [Next]_vars PROVE TraceInv'
  OBVIOUS
<1> USE DEF frame, questVars, otherVars
<1>1. at \notin {"end"} => status = "RUNNING"
  BY DEF TraceInv
<1>2. ASSUME BuildContext \/ PlanRoadmap \/ AskQuests \/ WriteUserView PROVE TraceInv'
  <2>1. /\ InHand = {} /\ at' # "abandon" /\ at # "end"
        /\ UNCHANGED <<changed, rb, status, world, astray>>
    BY <1>2 DEF BuildContext, PlanRoadmap, AskQuests, WriteUserView, Prepare, InHand
  <2>2. QED
    BY <1>1, <2>1, TraceFrame
<1>3. CASE Upload
  <2>1. /\ InHand = {} /\ at' # "abandon" /\ at # "end"
        /\ UNCHANGED <<changed, rb, status>> /\ astray \subseteq astray'
    BY <1>3 DEF Upload, InHand
  <2>2. world' \subseteq world \cup astray' \cup InHand'
    BY <1>3 DEF Upload, InHand
  <2>3. QED
    BY <1>1, <2>1, <2>2, TraceFrame
<1>4. CASE Insert
  <2>1. CASE at' = "orphan"
    <3>1. /\ InHand = {Object(artifact)} /\ InHand' = {Object(artifact)} /\ at # "end"
          /\ UNCHANGED <<changed, rb, status>> /\ astray \subseteq astray'
          /\ world' \subseteq world \cup astray'
      BY <1>4, <2>1 DEF Insert, InHand, AfterInsert
    <3>2. QED
      BY <1>1, <2>1, <3>1, TraceFrame
  <2>2. CASE at' # "orphan"
    <3>1. /\ rb' = Add(ReportUndo(artifact)) /\ world' = world \cup {Row(artifact)}
          /\ UNCHANGED <<changed, status, astray>> /\ at' # "abandon" /\ at = "insert"
      BY <1>4, <2>2 DEF Insert, AfterInsert
    <3>2. Joined(rb)' = {Object(artifact), Row(artifact)} \cup Joined(rb)
      BY <3>1, Added, UndoTypes, Closures
    <3>3. InHand = {Object(artifact)}
      BY <3>1 DEF InHand
    <3>4. QED
      BY <1>1, <3>1, <3>2, <3>3 DEF TraceInv, Residue
  <2>3. QED
    BY <2>1, <2>2
<1>5. CASE DropOrphan
  <2>1. /\ InHand = {Object(artifact)} /\ at' # "abandon" /\ at # "end"
        /\ UNCHANGED <<changed, rb, status>>
    BY <1>5 DEF DropOrphan, InHand
  <2>2. PICK kept : world' = (world \ {Object(artifact)}) \cup kept /\ astray' = astray \cup kept
    BY <1>5, Undone DEF DropOrphan
  <2>3. QED
    BY <1>1, <2>1, <2>2 DEF TraceInv, Residue
<1>6. ASSUME NEW q \in Quests, EvaluateQuest(q) PROVE TraceInv'
  <2>1. PICK new \in SUBSET {<<"eval", q>>, <<"stamp", q>>, <<"done", q>>} :
          /\ world' = world \cup new
          /\ result \subseteq result' /\ astray \subseteq astray'
          /\ <<"done", q>> \in new => <<"done", q>> \in result' \cup astray'
    BY <1>6 DEF EvaluateQuest, CompletedIDs
  <2>2. at = "saveQuests" /\ at' = at /\ UNCHANGED <<changed, rb, status>>
    BY <1>6 DEF EvaluateQuest
  <2>3. <<"stamp", q>> \in Residue /\ <<"eval", q>> \in InHand'
    BY <2>2 DEF Residue, Stamps, InHand, All
  <2>4. <<"done", q>> \in result' => <<"done", q>> \in InHand'
    BY <2>2 DEF InHand, All
  <2>5. InHand \subseteq InHand'
    BY <2>1, <2>2 DEF InHand
  <2>6. world' \subseteq world \cup Residue \cup astray' \cup InHand'
    BY <2>1, <2>3, <2>4
  <2>7. QED
    BY <1>1, <2>1, <2>2, <2>5, <2>6, TraceFrame
<1>7. ASSUME NEW n \in NewQuests, InsertQuest(n) PROVE TraceInv'
  <2>1. /\ result \subseteq result' /\ astray \subseteq astray'
        /\ at = "saveQuests" /\ at' = at /\ UNCHANGED <<changed, rb, status>>
        /\ world' = world \/ (world' = world \cup {<<"new", n>>} /\ <<"new", n>> \in result' \cup astray')
    BY <1>7 DEF InsertQuest
  <2>2. <<"new", n>> \in result' => <<"new", n>> \in InHand'
    BY <2>1 DEF InHand, All
  <2>3. InHand \subseteq InHand'
    BY <2>1 DEF InHand
  <2>4. QED
    BY <1>1, <2>1, <2>2, <2>3, TraceFrame
<1>8. CASE QuestsSaved
  <2>1. /\ rb' = Add(QuestUndo) /\ UNCHANGED <<world, changed, status, astray>>
        /\ at' # "abandon" /\ at = "saveQuests"
    BY <1>8 DEF QuestsSaved, AfterQuests
  <2>2. Joined(rb)' = InHand \cup Joined(rb)
    BY <2>1, Added, UndoTypes, Closures DEF InHand
  <2>3. QED
    BY <1>1, <2>1, <2>2 DEF TraceInv, Residue
<1>9. CASE AskMilestones
  <2>1. /\ InHand = {} /\ at' # "abandon" /\ at # "end"
        /\ UNCHANGED <<changed, rb, status, world, astray>>
    BY <1>9 DEF AskMilestones, InHand
  <2>2. QED
    BY <1>1, <2>1, TraceFrame
<1>10. ASSUME NEW m \in Milestones, EvaluateMilestone(m) PROVE TraceInv'
  <2>1. PICK new \in SUBSET {<<"milestoneEval", m>>, <<"milestoneStatus", m>>} :
          /\ world' = world \cup new
          /\ changed \subseteq changed' /\ astray \subseteq astray'
          /\ <<"milestoneStatus", m>> \in new => m \in changed' \/ <<"milestoneStatus", m>> \in astray'
    BY <1>10 DEF EvaluateMilestone
  <2>2. at = "saveMilestones" /\ at' = at /\ UNCHANGED <<rb, status>>
    BY <1>10 DEF EvaluateMilestone
  <2>3. MilestoneEvals \subseteq InHand' /\ <<"milestoneEval", m>> \in InHand'
    BY <2>2 DEF InHand, MilestoneEvals, All
  <2>4. <<"milestoneStatus", m>> \in new => <<"milestoneStatus", m>> \in InHand' \cup astray'
    BY <2>1, <2>2 DEF InHand, All
  <2>5. InHand \subseteq InHand'
    BY <2>1, <2>2 DEF InHand, All
  <2>6. Residue \subseteq Residue' \cup InHand'
    BY <2>3 DEF Residue
  <2>7. QED
    BY <1>1, <2>1, <2>2, <2>3, <2>4, <2>5, <2>6 DEF TraceInv
<1>11. CASE MilestonesSaved
  <2>1. /\ rb' = Add(MilestoneUndo) /\ UNCHANGED <<world, changed, status, astray>>
        /\ at' # "abandon" /\ at = "saveMilestones"
    BY <1>11 DEF MilestonesSaved
  <2>2. Joined(rb)' = Joined(MilestoneUndo) \cup Joined(rb)
    BY <2>1, Added, UndoTypes
  <2>3. InHand \subseteq Residue \cup Joined(MilestoneUndo)
    BY <2>1, Closures DEF InHand, Residue, All
  <2>4. QED
    BY <1>1, <2>1, <2>2, <2>3 DEF TraceInv, Residue
<1>12. CASE PersistRoadmap
  <2>1. /\ InHand = {} /\ at' # "abandon" /\ at # "end"
        /\ UNCHANGED <<changed, rb, status>> /\ astray \subseteq astray'
    BY <1>12 DEF PersistRoadmap, InHand
  <2>2. world' \subseteq world \cup astray' \cup InHand'
    BY <1>1, <1>12 DEF PersistRoadmap, InHand, Final
  <2>3. QED
    BY <1>1, <2>1, <2>2, TraceFrame
<1>13. CASE ExtractKeywords
  <2>1. /\ at = "keywords" /\ at' = "complete" /\ UNCHANGED <<changed, rb, status, astray>>
        /\ world' \subseteq world \cup Final
    BY <1>13 DEF ExtractKeywords, AfterKeywordError, Final
  <2>2. InHand = Final /\ InHand' = Final
    BY <1>1, <2>1 DEF InHand
  <2>3. QED
    BY <1>1, <2>1, <2>2, TraceFrame
<1>14. CASE Complete
  <2>1. /\ at = "complete" /\ at' = "end" /\ UNCHANGED <<changed, rb, world, astray>>
        /\ status' # "NOTIFICATION_QUEUED"
    BY <1>1, <1>14 DEF Complete, SetStatus
  <2>2. InHand = InHand'
    BY <1>1, <2>1 DEF InHand
  <2>3. QED
    BY <2>1, <2>2 DEF TraceInv, Residue
<1>15. CASE Undo
  <2>1. at = "undo" /\ InHand = {} /\ InHand' = {} /\ UNCHANGED <<changed, status>>
    BY <1>15 DEF Undo, InHand
  <2>2. CASE rb = <<>>
    BY <1>1, <1>15, <2>1, <2>2 DEF Undo, TraceInv, Residue
  <2>3. CASE rb # <<>>
    <3>1. UndoCall(Head(rb)) /\ rb' = Tail(rb) /\ at' = "undo"
      BY <1>15, <2>3 DEF Undo
    <3>2. PICK kept : world' = (world \ Head(rb)) \cup kept /\ astray' = astray \cup kept
      BY <3>1, Undone
    <3>3. Joined(rb) = Head(rb) \cup Joined(rb)'
      BY <2>3, <3>1, JoinedHead DEF TypeOK
    <3>4. QED
      BY <1>1, <2>1, <3>1, <3>2, <3>3 DEF TraceInv, Residue
  <2>4. QED
    BY <2>2, <2>3
<1>16. CASE Abandon
  <2>1. at = "abandon" /\ at' = "end" /\ UNCHANGED <<changed, rb, world, astray>> /\ InHand = {}
    BY <1>16 DEF Abandon, InHand
  <2>2. QED
    BY <2>1 DEF TraceInv, Residue
<1>17. ASSUME Cancel \/ Crash \/ OtherJob \/ UNCHANGED vars PROVE TraceInv'
  <2>1. UNCHANGED <<at, artifact, world, result, changed, rb, status, astray>>
    BY <1>17 DEF Cancel, Crash, OtherJob, vars
  <2>2. InHand = InHand'
    BY <2>1 DEF InHand
  <2>3. QED
    BY <2>1, <2>2 DEF TraceInv, Residue
<1>18. QED
  BY <1>2, <1>3, <1>4, <1>5, <1>6, <1>7, <1>8, <1>9, <1>10, <1>11, <1>12, <1>13, <1>14, <1>15,
     <1>16, <1>17 DEF Next

-----------------------------------------------------------------------------
(***************************************************************************)
(* Nothing final is rolled back.                                           *)
(***************************************************************************)
\* Every step keeps the final effects to the end of the job.
LEMMA FinalStep == TypeOK /\ FinalIsFinal /\ [Next]_vars => FinalIsFinal'
<1> SUFFICES ASSUME TypeOK, FinalIsFinal, [Next]_vars PROVE FinalIsFinal'
  OBVIOUS
<1> USE DEF FinalIsFinal, frame, questVars, otherVars
<1>1. ASSUME BuildContext \/ PlanRoadmap \/ AskQuests \/ WriteUserView PROVE FinalIsFinal'
  BY <1>1 DEF BuildContext, PlanRoadmap, AskQuests, WriteUserView, Prepare
<1>2. ASSUME Upload \/ Insert PROVE FinalIsFinal'
  <2>1. Object(artifact) \notin Final /\ Row(artifact) \notin Final
    BY DEF Final, Roadmap, Keywords, Object, Row
  <2>2. at \in {"upload", "insert"} /\ astray \subseteq astray'
    BY <1>2 DEF Upload, Insert
  <2>3. world' \subseteq world \cup {Object(artifact), Row(artifact)}
    BY <1>2 DEF Upload, Insert
  <2>4. QED
    BY <2>1, <2>2, <2>3
<1>3. ASSUME DropOrphan \/ Undo PROVE FinalIsFinal'
  <2>1. at \notin {"keywords", "complete", "end"} /\ world' \subseteq world /\ astray \subseteq astray'
    BY <1>3, Removal DEF TypeOK, DropOrphan, Undo
  <2>2. QED
    BY <2>1
<1>4. ASSUME NEW q \in Quests, EvaluateQuest(q) PROVE FinalIsFinal'
  <2>1. Final \cap {<<"eval", q>>, <<"stamp", q>>, <<"done", q>>} = {}
    BY DEF Final, Roadmap, Keywords
  <2>2. at = "saveQuests" /\ astray \subseteq astray'
    BY <1>4 DEF EvaluateQuest
  <2>3. world' \subseteq world \cup {<<"eval", q>>, <<"stamp", q>>, <<"done", q>>}
    BY <1>4 DEF EvaluateQuest
  <2>4. QED
    BY <2>1, <2>2, <2>3
<1>5. ASSUME NEW n \in NewQuests, InsertQuest(n) PROVE FinalIsFinal'
  <2>1. <<"new", n>> \notin Final
    BY DEF Final, Roadmap, Keywords
  <2>2. at = "saveQuests" /\ astray \subseteq astray' /\ world' \subseteq world \cup {<<"new", n>>}
    BY <1>5 DEF InsertQuest
  <2>3. QED
    BY <2>1, <2>2
<1>6. ASSUME NEW m \in Milestones, EvaluateMilestone(m) PROVE FinalIsFinal'
  <2>1. Final \cap {<<"milestoneEval", m>>, <<"milestoneStatus", m>>} = {}
    BY DEF Final, Roadmap, Keywords
  <2>2. /\ at = "saveMilestones" /\ astray \subseteq astray'
        /\ world' \subseteq world \cup {<<"milestoneEval", m>>, <<"milestoneStatus", m>>}
    BY <1>6 DEF EvaluateMilestone
  <2>3. QED
    BY <2>1, <2>2
<1>7. ASSUME QuestsSaved \/ AskMilestones \/ MilestonesSaved PROVE FinalIsFinal'
  BY <1>7 DEF QuestsSaved, AskMilestones, MilestonesSaved
<1>8. CASE PersistRoadmap
  BY <1>8 DEF PersistRoadmap
<1>9. ASSUME ExtractKeywords \/ Complete PROVE FinalIsFinal'
  BY <1>9 DEF ExtractKeywords, AfterKeywordError, Complete
<1>10. ASSUME Abandon \/ Cancel \/ Crash \/ OtherJob \/ UNCHANGED vars PROVE FinalIsFinal'
  BY <1>10 DEF Abandon, Cancel, Crash, OtherJob, vars
<1>11. QED
  BY <1>1, <1>2, <1>3, <1>4, <1>5, <1>6, <1>7, <1>8, <1>9, <1>10 DEF Next

-----------------------------------------------------------------------------
(***************************************************************************)
(* The result is what is stored.                                           *)
(***************************************************************************)
\* Every step keeps the result true, until the job takes to undoing; then it is
\* emptied, and by the account nothing it could name is left.
LEMMA ResultStep == TypeOK /\ TraceInv /\ ResultInv /\ [Next]_vars => ResultInv'
<1> SUFFICES ASSUME TypeOK, TraceInv, ResultInv, [Next]_vars PROVE ResultInv'
  OBVIOUS
<1> USE DEF ResultInv, frame, questVars, otherVars
<1>1. ASSUME BuildContext \/ PlanRoadmap \/ AskQuests \/ WriteUserView PROVE ResultInv'
  BY <1>1 DEF BuildContext, PlanRoadmap, AskQuests, WriteUserView, Prepare
<1>2. CASE Upload
  <2>1. Object(artifact) \notin Nameable
    BY DEF Nameable, All, Object
  <2>2. QED
    BY <1>2, <2>1 DEF Upload
<1>3. CASE Insert
  <2>1. Row(artifact) \in Nameable
    BY DEF TypeOK, Nameable, All, Row
  <2>2. QED
    BY <1>3, <2>1 DEF Insert
<1>4. CASE DropOrphan
  BY <1>4 DEF DropOrphan
<1>5. ASSUME NEW q \in Quests, EvaluateQuest(q) PROVE ResultInv'
  <2>1. /\ <<"eval", q>> \notin Nameable /\ <<"stamp", q>> \notin Nameable
        /\ <<"done", q>> \in Nameable
    BY DEF Nameable, All
  <2>2. PICK new \in SUBSET {<<"eval", q>>, <<"stamp", q>>, <<"done", q>>} : \E known \in SUBSET new :
          /\ world' = world \cup new
          /\ result' = result \cup ({<<"done", q>>} \cap known)
          /\ astray' = astray \cup ((new \cap {<<"done", q>>}) \ known)
    BY <1>5 DEF EvaluateQuest, CompletedIDs
  <2>3. PICK known \in SUBSET new :
          /\ world' = world \cup new
          /\ result' = result \cup ({<<"done", q>>} \cap known)
          /\ astray' = astray \cup ((new \cap {<<"done", q>>}) \ known)
    BY <2>2
  <2>4. at = "saveQuests" /\ at' = at
    BY <1>5 DEF EvaluateQuest
  <2>5. QED
    BY <2>1, <2>3, <2>4
<1>6. ASSUME NEW n \in NewQuests, InsertQuest(n) PROVE ResultInv'
  <2>1. <<"new", n>> \in Nameable
    BY DEF Nameable, All
  <2>2. QED
    BY <1>6, <2>1 DEF InsertQuest
<1>7. ASSUME QuestsSaved \/ AskMilestones \/ MilestonesSaved PROVE ResultInv'
  BY <1>7 DEF QuestsSaved, AskMilestones, MilestonesSaved
<1>8. ASSUME NEW m \in Milestones, EvaluateMilestone(m) PROVE ResultInv'
  <2>1. Nameable \cap {<<"milestoneEval", m>>, <<"milestoneStatus", m>>} = {}
    BY DEF Nameable, All
  <2>2. PICK new \in SUBSET {<<"milestoneEval", m>>, <<"milestoneStatus", m>>} :
          /\ world' = world \cup new
          /\ \E gone \in SUBSET new : astray' = astray \cup gone
    BY <1>8 DEF EvaluateMilestone
  <2>3. at' = at /\ result' = result /\ result \subseteq Nameable
    BY <1>8 DEF EvaluateMilestone, TypeOK
  <2>4. at = "saveMilestones"
    BY <1>8 DEF EvaluateMilestone
  <2>5. QED
    BY <2>1, <2>2, <2>3, <2>4
<1>9. CASE PersistRoadmap
  <2>1. Roadmap \notin Nameable
    BY DEF Nameable, All, Roadmap
  <2>2. QED
    BY <1>9, <2>1 DEF PersistRoadmap
<1>10. CASE ExtractKeywords
  <2>1. Keywords \notin Nameable
    BY DEF Nameable, All, Keywords
  <2>2. QED
    BY <1>10, <2>1 DEF ExtractKeywords, AfterKeywordError
<1>11. CASE Complete
  BY <1>11 DEF Complete
<1>12. CASE Undo
  BY <1>12 DEF Undo
<1>13. CASE Abandon
  <2>1. Residue \cap Nameable = {}
    BY DEF Residue, Stamps, MilestoneEvals, Nameable, All
  <2>2. world \subseteq Residue \cup astray
    BY <1>13, JoinedNone DEF Abandon, TraceInv, InHand
  <2>3. QED
    BY <1>13, <2>1, <2>2 DEF Abandon
<1>14. ASSUME Cancel \/ Crash \/ OtherJob \/ UNCHANGED vars PROVE ResultInv'
  BY <1>14 DEF Cancel, Crash, OtherJob, vars
<1>15. QED
  BY <1>1, <1>2, <1>3, <1>4, <1>5, <1>6, <1>7, <1>8, <1>9, <1>10, <1>11, <1>12, <1>13, <1>14
     DEF Next

-----------------------------------------------------------------------------
(***************************************************************************)
(* Rows and objects, and the order of the rollback.  That a row alone is   *)
(* the rollback's next call needs the pairs of the list (Paired), and that *)
(* no failed insert leaves a sure row behind needs that it is the first    *)
(* insert of that row (RowLater).                                          *)
(***************************************************************************)
\* A step that stores no row and comes to no insert.
LEMMA RowLaterFrame ==
  ASSUME RowLater, artifact' = artifact, at' \notin {"context", "upload", "insert", "orphan"},
         at' \in Early => at \in Early,
         \A x \in {"kb", "uv"} : Row(x) \in world' => Row(x) \in world
  PROVE  RowLater'
BY DEF RowLater

\* Every step.
LEMMA RowLaterStep == TypeOK /\ RowLater /\ [Next]_vars => RowLater'
<1> SUFFICES ASSUME TypeOK, RowLater, [Next]_vars PROVE RowLater'
  OBVIOUS
<1> USE DEF frame, questVars, otherVars
<1>1. ASSUME BuildContext \/ PlanRoadmap \/ AskQuests \/ WriteUserView PROVE RowLater'
  BY <1>1 DEF BuildContext, PlanRoadmap, AskQuests, WriteUserView, Prepare, RowLater, Early
<1>2. CASE Upload
  <2>1. \A x, y \in {"kb", "uv"} : Object(x) # Row(y)
    BY DEF Object, Row
  <2>2. artifact \in {"kb", "uv"}
    BY DEF TypeOK
  <2>3. QED
    BY <1>2, <2>1, <2>2 DEF Upload, RowLater, Early
<1>3. CASE Insert
  <2>1. \A x, y \in {"kb", "uv"} : Row(x) = Row(y) => x = y
    BY DEF Row
  <2>2. artifact \in {"kb", "uv"} /\ artifact' = artifact
    BY <1>3 DEF Insert, TypeOK
  <2>3. at' \notin {"context", "upload", "insert"} /\ (at' \in Early => artifact = "kb")
    BY <1>3, <2>2 DEF Insert, AfterInsert, Early
  <2>4. \/ world' = world \cup {Row(artifact)} /\ (at' = "orphan" => astray' = astray \cup {Row(artifact)})
        \/ world' = world /\ astray' = astray
    BY <1>3 DEF Insert, AfterInsert
  <2>5. Row(artifact) \notin world
    BY <1>3 DEF Insert, RowLater
  <2>6. QED
    BY <2>1, <2>2, <2>3, <2>4, <2>5 DEF RowLater
<1>4. CASE DropOrphan
  BY <1>4, RowLaterFrame DEF DropOrphan, UndoCall, Early
<1>5. ASSUME NEW q \in Quests, EvaluateQuest(q) PROVE RowLater'
  <2>1. \A x : Row(x) \notin {<<"eval", q>>, <<"stamp", q>>, <<"done", q>>}
    BY DEF Row
  <2>2. /\ at = "saveQuests" /\ at' = at /\ artifact' = artifact
        /\ world' \subseteq world \cup {<<"eval", q>>, <<"stamp", q>>, <<"done", q>>}
    BY <1>5 DEF EvaluateQuest
  <2>3. QED
    BY <2>1, <2>2, RowLaterFrame
<1>6. ASSUME NEW n \in NewQuests, InsertQuest(n) PROVE RowLater'
  <2>1. \A x : Row(x) # <<"new", n>>
    BY DEF Row
  <2>2. /\ at = "saveQuests" /\ at' = at /\ artifact' = artifact
        /\ world' \subseteq world \cup {<<"new", n>>}
    BY <1>6 DEF InsertQuest
  <2>3. QED
    BY <2>1, <2>2, RowLaterFrame
<1>7. ASSUME NEW m \in Milestones, EvaluateMilestone(m) PROVE RowLater'
  <2>1. \A x : Row(x) \notin {<<"milestoneEval", m>>, <<"milestoneStatus", m>>}
    BY DEF Row
  <2>2. /\ at = "saveMilestones" /\ at' = at /\ artifact' = artifact
        /\ world' \subseteq world \cup {<<"milestoneEval", m>>, <<"milestoneStatus", m>>}
    BY <1>7 DEF EvaluateMilestone
  <2>3. QED
    BY <2>1, <2>2, RowLaterFrame
<1>8. ASSUME QuestsSaved \/ AskMilestones \/ MilestonesSaved \/ Complete PROVE RowLater'
  BY <1>8, RowLaterFrame
     DEF QuestsSaved, AfterQuests, AskMilestones, MilestonesSaved, Complete, Early
<1>9. ASSUME PersistRoadmap \/ ExtractKeywords PROVE RowLater'
  <2>1. \A x : Row(x) \notin {Roadmap, Keywords}
    BY DEF Row, Roadmap, Keywords
  <2>2. /\ at' \in {"keywords", "complete", "undo"} /\ artifact' = artifact
        /\ world' \subseteq world \cup {Roadmap, Keywords}
    BY <1>9 DEF PersistRoadmap, ExtractKeywords, AfterKeywordError
  <2>3. QED
    BY <2>1, <2>2, RowLaterFrame DEF Early
<1>10. ASSUME Undo \/ Abandon PROVE RowLater'
  BY <1>10, RowLaterFrame DEF Undo, UndoCall, Abandon, Early
<1>11. ASSUME Cancel \/ Crash \/ OtherJob \/ UNCHANGED vars PROVE RowLater'
  BY <1>11 DEF Cancel, Crash, OtherJob, vars, RowLater
<1>12. QED
  BY <1>1, <1>2, <1>3, <1>4, <1>5, <1>6, <1>7, <1>8, <1>9, <1>10, <1>11 DEF Next

\* The closures keep a row's undo next to its object's.
LEMMA PairedStep == TypeOK /\ Paired(rb) /\ [Next]_vars => Paired(rb)'
<1> SUFFICES ASSUME TypeOK, Paired(rb), [Next]_vars PROVE Paired(rb')
  BY DEF Paired
<1> USE DEF frame, questVars, otherVars
<1>1. \A calls : (\A x \in {"kb", "uv"} : Object(x) \notin Joined(calls)) => Paired(calls)
  BY JoinedHas DEF Paired
<1>2. CASE Insert
  <2>1. CASE UNCHANGED rb
    BY <2>1
  <2>2. CASE rb' = ReportUndo(artifact) \o rb
    <3>1. artifact \in {"kb", "uv"} /\ rb \in Seq(SUBSET Effects)
      BY DEF TypeOK
    <3>3. ReportUndo(artifact) \in Seq(SUBSET Effects)
      BY UndoTypes
    <3>4. \A x \in {"kb", "uv"} : /\ Object(x) # Row(artifact)
                                  /\ Object(x) = Object(artifact) => x = artifact
      BY DEF Object, Row
    <3>5. DOMAIN ReportUndo(artifact) = {1, 2} /\ ReportUndo(artifact)[1] = {Object(artifact)}
          /\ ReportUndo(artifact)[2] = {Row(artifact)} /\ 1 + 1 = 2
      BY DEF ReportUndo
    <3>6. Paired(ReportUndo(artifact))
      BY <3>4, <3>5 DEF Paired
    <3>7. QED
      BY <2>2, <3>1, <3>3, <3>6, PairedAdd
  <2>3. QED
    BY <1>2, <2>1, <2>2 DEF Insert, Add
<1>3. CASE QuestsSaved
  <2>1. rb \in Seq(SUBSET Effects) /\ QuestUndo \in Seq(SUBSET Effects) /\ rb' = QuestUndo \o rb
    BY <1>3, UndoTypes DEF QuestsSaved, Add, TypeOK
  <2>2. \A x \in {"kb", "uv"} : Object(x) \notin Joined(QuestUndo)
    BY Closures DEF Object, All
  <2>3. QED
    BY <1>1, <2>1, <2>2, PairedAdd
<1>4. CASE MilestonesSaved
  <2>1. rb \in Seq(SUBSET Effects) /\ MilestoneUndo \in Seq(SUBSET Effects) /\ rb' = MilestoneUndo \o rb
    BY <1>4, UndoTypes DEF MilestonesSaved, Add, TypeOK
  <2>2. \A x \in {"kb", "uv"} : Object(x) \notin Joined(MilestoneUndo)
    BY Closures DEF Object, All, MilestoneEvals
  <2>3. QED
    BY <1>1, <2>1, <2>2, PairedAdd
<1>5. CASE Undo
  BY <1>5, PairedHead DEF Undo, TypeOK
<1>6. CASE UNCHANGED rb
  BY <1>6
<1>7. QED
  BY <1>2, <1>3, <1>4, <1>5, <1>6
     DEF Next, BuildContext, PlanRoadmap, AskQuests, WriteUserView, Prepare, Upload, DropOrphan,
         UndoCall, EvaluateQuest, InsertQuest, AskMilestones, EvaluateMilestone, PersistRoadmap,
         ExtractKeywords, Complete, Abandon, Cancel, Crash, OtherJob, vars

\* A step forward that stores no row.
LEMMA ObjectFrame ==
  ASSUME ObjectInv, RowLater', Paired(rb)', at # "undo", at' # "insert", astray \subseteq astray', world \subseteq world',
         \A x \in {"kb", "uv"} : Row(x) \in world' => Row(x) \in world
  PROVE  ObjectInv'
BY DEF ObjectInv, RowHasObject

\* Every step but the rollback's keeps a row's object.
LEMMA ObjectStep == TypeOK /\ TraceInv /\ ObjectInv /\ [Next]_vars => ObjectInv'
<1> SUFFICES ASSUME TypeOK, TraceInv, ObjectInv, [Next]_vars PROVE ObjectInv'
  OBVIOUS
<1> USE DEF frame, questVars, otherVars
<1>0. RowLater' /\ Paired(rb)'
  BY RowLaterStep, PairedStep DEF ObjectInv
<1>1. ASSUME BuildContext \/ PlanRoadmap \/ AskQuests \/ WriteUserView PROVE ObjectInv'
  <2>1. at # "undo" /\ at' # "insert" /\ UNCHANGED <<world, astray>>
    BY <1>1 DEF BuildContext, PlanRoadmap, AskQuests, WriteUserView, Prepare
  <2>2. QED
    BY <2>1, ObjectFrame, <1>0
<1>2. CASE Upload
  <2>1. \A x \in {"kb", "uv"} : Object(artifact) # Row(x)
    BY DEF Object, Row
  <2>2. QED
    BY <1>0, <1>2, <2>1 DEF Upload, ObjectInv, RowHasObject
<1>3. CASE Insert
  <2>1. \A x, y \in {"kb", "uv"} : Row(x) = Row(y) => x = y
    BY DEF Row
  <2>2. at' # "insert" /\ at # "undo" /\ artifact \in {"kb", "uv"}
    BY <1>3 DEF Insert, AfterInsert, TypeOK
  <2>3. Object(artifact) \in world
    BY <1>3 DEF Insert, ObjectInv
  <2>4. \/ world' = world \cup {Row(artifact)} /\ (at' # "orphan" => astray' = astray)
           /\ (at' = "orphan" => astray' = astray \cup {Row(artifact)})
        \/ world' = world /\ astray' = astray
    BY <1>3 DEF Insert, AfterInsert
  <2>5. QED
    BY <1>0, <2>1, <2>2, <2>3, <2>4 DEF ObjectInv, RowHasObject
<1>4. CASE DropOrphan
  <2>1. /\ at = "orphan" /\ at' = "undo" /\ astray \subseteq astray'
        /\ world' \subseteq world /\ world \ {Object(artifact)} \subseteq world'
    BY <1>4 DEF DropOrphan, UndoCall
  <2>2. \A x \in {"kb", "uv"} : Object(x) = Object(artifact) => Row(x) = Row(artifact)
    BY DEF Object, Row
  <2>3. QED
    BY <1>0, <2>1, <2>2 DEF ObjectInv, RowHasObject, RowLater
<1>5. ASSUME NEW q \in Quests, EvaluateQuest(q) PROVE ObjectInv'
  <2>1. \A x : Row(x) \notin {<<"eval", q>>, <<"stamp", q>>, <<"done", q>>}
    BY DEF Row
  <2>2. /\ at = "saveQuests" /\ at' = at /\ astray \subseteq astray' /\ world \subseteq world'
        /\ world' \subseteq world \cup {<<"eval", q>>, <<"stamp", q>>, <<"done", q>>}
    BY <1>5 DEF EvaluateQuest
  <2>3. QED
    BY <2>1, <2>2, ObjectFrame, <1>0
<1>6. ASSUME NEW n \in NewQuests, InsertQuest(n) PROVE ObjectInv'
  <2>1. \A x : Row(x) # <<"new", n>>
    BY DEF Row
  <2>2. /\ at = "saveQuests" /\ at' = at /\ astray \subseteq astray' /\ world \subseteq world'
        /\ world' \subseteq world \cup {<<"new", n>>}
    BY <1>6 DEF InsertQuest
  <2>3. QED
    BY <2>1, <2>2, ObjectFrame, <1>0
<1>7. ASSUME NEW m \in Milestones, EvaluateMilestone(m) PROVE ObjectInv'
  <2>1. \A x : Row(x) \notin {<<"milestoneEval", m>>, <<"milestoneStatus", m>>}
    BY DEF Row
  <2>2. /\ at = "saveMilestones" /\ at' = at /\ astray \subseteq astray' /\ world \subseteq world'
        /\ world' \subseteq world \cup {<<"milestoneEval", m>>, <<"milestoneStatus", m>>}
    BY <1>7 DEF EvaluateMilestone
  <2>3. QED
    BY <2>1, <2>2, ObjectFrame, <1>0
<1>8. ASSUME QuestsSaved \/ AskMilestones \/ MilestonesSaved \/ Complete PROVE ObjectInv'
  <2>1. at # "undo" /\ at' # "insert" /\ UNCHANGED <<world, astray>>
    BY <1>8 DEF QuestsSaved, AfterQuests, AskMilestones, MilestonesSaved, Complete
  <2>2. QED
    BY <2>1, ObjectFrame, <1>0
<1>9. ASSUME PersistRoadmap \/ ExtractKeywords PROVE ObjectInv'
  <2>1. \A x : Row(x) \notin {Roadmap, Keywords}
    BY DEF Row, Roadmap, Keywords
  <2>2. /\ at # "undo" /\ at' # "insert" /\ astray \subseteq astray' /\ world \subseteq world'
        /\ world' \subseteq world \cup {Roadmap, Keywords}
    BY <1>9 DEF PersistRoadmap, ExtractKeywords, AfterKeywordError
  <2>3. QED
    BY <2>1, <2>2, ObjectFrame, <1>0
<1>10. CASE Undo
  <2>1. CASE rb = <<>>
    <3>1. at = "undo" /\ at' = "abandon" /\ UNCHANGED <<world, astray>>
      BY <1>10, <2>1 DEF Undo
    <3>2. QED
      BY <1>0, <2>1, <3>1 DEF ObjectInv, RowHasObject, NextUndo
  <2>2. CASE rb # <<>>
    <3>1. /\ at' = "undo" /\ rb' = Tail(rb) /\ astray \subseteq astray'
          /\ world' \subseteq world /\ world \ Head(rb) \subseteq world'
          /\ world' \cap Head(rb) \subseteq astray'
      BY <1>10, <2>2 DEF Undo, UndoCall
    <3>2. \A x \in {"kb", "uv"} : Object(x) \in Head(rb) => Row(x) \in NextUndo'
      BY <2>2, <3>1, PairedHead DEF ObjectInv, NextUndo, TypeOK
    <3>3. NextUndo = Head(rb)
      BY <2>2 DEF NextUndo
    <3>4. QED
      BY <1>0, <3>1, <3>2, <3>3 DEF ObjectInv, RowHasObject
  <2>3. QED
    BY <2>1, <2>2
<1>11. CASE Abandon
  <2>1. at = "abandon" /\ at' = "end" /\ UNCHANGED <<world, astray>>
    BY <1>11 DEF Abandon
  <2>2. QED
    BY <2>1, ObjectFrame, <1>0
<1>12. ASSUME Cancel \/ Crash \/ OtherJob \/ UNCHANGED vars PROVE ObjectInv'
  BY <1>0, <1>12 DEF Cancel, Crash, OtherJob, vars, ObjectInv, RowHasObject, NextUndo
<1>13. QED
  BY <1>1, <1>2, <1>3, <1>4, <1>5, <1>6, <1>7, <1>8, <1>9, <1>10, <1>11, <1>12 DEF Next

\* Once the row of the knowledge base is stored, a step forward keeps it.
LEMMA BaseFrame ==
  ASSUME BaseInv, KBLast(rb)', ~BeforeKB, at \notin {"undo", "abandon", "end"},
         ~BeforeKB', world \subseteq world'
  PROVE  BaseInv'
BY DEF BaseInv, BeforeKB

\* Every step keeps the order in which the knowledge base comes first and goes last.
LEMMA BaseStep == TypeOK /\ TraceInv /\ BaseInv /\ [Next]_vars => BaseInv'
<1> SUFFICES ASSUME TypeOK, TraceInv, BaseInv, [Next]_vars PROVE BaseInv'
  OBVIOUS
<1> USE DEF frame, questVars, otherVars
<1>1. KBLast(rb) /\ (rb' = rb => KBLast(rb)')
  BY DEF BaseInv
<1>2. CASE BuildContext
  BY <1>2 DEF BuildContext, Prepare, BaseInv, BeforeKB, DerivedNeedsKB, Residue
<1>3. ASSUME PlanRoadmap \/ AskQuests \/ WriteUserView PROVE BaseInv'
  <2>1. /\ at \in {"plan", "ask", "view"} /\ UNCHANGED <<world, rb>>
        /\ at' \in {"ask", "saveQuests", "undo"} \/ (at' = "upload" /\ artifact' = "uv")
    BY <1>3 DEF PlanRoadmap, AskQuests, WriteUserView, Prepare
  <2>2. QED
    BY <1>1, <2>1, BaseFrame DEF BeforeKB
<1>4. CASE Upload
  <2>1. CASE artifact = "kb"
    BY <1>4, <2>1 DEF Upload, BaseInv, BeforeKB, DerivedNeedsKB, Residue
  <2>2. CASE artifact # "kb"
    <3>1. at = "upload" /\ at' # "context" /\ world \subseteq world' /\ UNCHANGED <<artifact, rb>>
      BY <1>4 DEF Upload
    <3>2. QED
      BY <1>1, <2>2, <3>1, BaseFrame DEF BeforeKB
  <2>3. QED
    BY <2>1, <2>2
<1>5. CASE Insert
  <2>1. CASE at' = "orphan"
    <3>1. /\ at = "insert" /\ UNCHANGED <<artifact, rb, changed>> /\ astray \subseteq astray'
          /\ world \subseteq world' /\ world' \subseteq world \cup {Row(artifact)}
      BY <1>5, <2>1 DEF Insert, AfterInsert
    <3>2. CASE artifact = "kb"
      BY <2>1, <3>1, <3>2 DEF BaseInv, BeforeKB, DerivedNeedsKB
    <3>3. CASE artifact # "kb"
      BY <1>1, <2>1, <3>1, <3>3, BaseFrame DEF BeforeKB
    <3>4. QED
      BY <3>2, <3>3
  <2>2. CASE at' # "orphan"
    <3>1. /\ rb' = Add(ReportUndo(artifact)) /\ world' = world \cup {Row(artifact)}
          /\ at = "insert" /\ at' \notin {"context", "upload", "insert", "orphan"}
      BY <1>5, <2>2 DEF Insert, AfterInsert
    <3>2. CASE artifact = "kb"
      <4>1. rb = <<>>
        BY <3>1, <3>2 DEF BaseInv, BeforeKB
      <4>2. rb' = ReportUndo("kb")
        BY <3>1, <3>2, <4>1 DEF Add, ReportUndo
      <4>3. KBLast(ReportUndo("kb"))
        BY DEF KBLast, ReportUndo, Row, Object
      <4>4. QED
        BY <3>1, <3>2, <4>2, <4>3 DEF BaseInv, BeforeKB
    <3>3. CASE artifact # "kb"
      <4>1. Row("kb") \notin Joined(ReportUndo(artifact))
        BY <3>3, Closures DEF Row, Object
      <4>2. KBLast(rb)'
        BY <1>1, <3>1, <4>1, KBLastAdd, UndoTypes DEF Add, TypeOK
      <4>3. QED
        BY <3>1, <3>3, <4>2, BaseFrame DEF BeforeKB
    <3>4. QED
      BY <3>2, <3>3
  <2>3. QED
    BY <2>1, <2>2
<1>6. CASE DropOrphan
  <2>1. at = "orphan" /\ at' = "undo" /\ UNCHANGED <<artifact, rb, changed>>
    BY <1>6 DEF DropOrphan
  <2>2. PICK kept : world' = (world \ {Object(artifact)}) \cup kept /\ astray' = astray \cup kept
    BY <1>6, Undone DEF DropOrphan
  <2>3. Row("kb") # Object(artifact)
    BY DEF Row, Object
  <2>4. QED
    BY <1>1, <2>1, <2>2, <2>3 DEF BaseInv, BeforeKB, DerivedNeedsKB, Residue
<1>7. ASSUME NEW q \in Quests, EvaluateQuest(q) PROVE BaseInv'
  BY <1>1, <1>7, BaseFrame DEF EvaluateQuest, BeforeKB
<1>8. ASSUME NEW n \in NewQuests, InsertQuest(n) PROVE BaseInv'
  BY <1>1, <1>8, BaseFrame DEF InsertQuest, BeforeKB
<1>9. ASSUME NEW m \in Milestones, EvaluateMilestone(m) PROVE BaseInv'
  BY <1>1, <1>9, BaseFrame DEF EvaluateMilestone, BeforeKB
<1>10. CASE QuestsSaved
  <2>1. /\ rb' = Add(QuestUndo) /\ UNCHANGED world
        /\ at = "saveQuests" /\ at' \in {"view", "milestones"}
    BY <1>10 DEF QuestsSaved, AfterQuests
  <2>2. Row("kb") \notin Joined(QuestUndo)
    BY Closures DEF Row, All
  <2>3. KBLast(rb)'
    BY <1>1, <2>1, <2>2, KBLastAdd, UndoTypes DEF Add, TypeOK
  <2>4. QED
    BY <2>1, <2>3, BaseFrame DEF BeforeKB
<1>11. CASE MilestonesSaved
  <2>1. /\ rb' = Add(MilestoneUndo) /\ UNCHANGED world
        /\ at = "saveMilestones" /\ at' = "view"
    BY <1>11 DEF MilestonesSaved
  <2>2. Row("kb") \notin Joined(MilestoneUndo)
    BY Closures DEF Row, All, MilestoneEvals
  <2>3. KBLast(rb)'
    BY <1>1, <2>1, <2>2, KBLastAdd, UndoTypes DEF Add, TypeOK
  <2>4. QED
    BY <2>1, <2>3, BaseFrame DEF BeforeKB
<1>12. ASSUME AskMilestones \/ PersistRoadmap \/ ExtractKeywords \/ Complete PROVE BaseInv'
  <2>1. /\ at \in {"milestones", "roadmap", "keywords", "complete"}
        /\ at' \in {"saveMilestones", "view", "keywords", "complete", "end", "undo"}
        /\ world \subseteq world' /\ UNCHANGED rb
    BY <1>12 DEF AskMilestones, PersistRoadmap, ExtractKeywords, AfterKeywordError, Complete
  <2>2. QED
    BY <1>1, <2>1, BaseFrame DEF BeforeKB
<1>13. CASE Undo
  <2>1. at = "undo" /\ at' \in {"undo", "abandon"} /\ UNCHANGED changed
    BY <1>13 DEF Undo
  <2>2. CASE rb = <<>>
    BY <1>13, <2>1, <2>2 DEF Undo, BaseInv, BeforeKB, DerivedNeedsKB, Residue
  <2>3. CASE rb # <<>>
    <3>1. UndoCall(Head(rb)) /\ rb' = Tail(rb)
      BY <1>13, <2>3 DEF Undo
    <3>2. PICK kept : world' = (world \ Head(rb)) \cup kept /\ astray' = astray \cup kept
      BY <3>1, Undone
    <3>3. KBLast(rb)' /\ (Row("kb") \in Head(rb) => rb' = <<>>)
      BY <1>1, <2>3, <3>1, KBLastHead DEF TypeOK
    <3>4. CASE Row("kb") \in Head(rb)
      <4>1. Joined(rb) = Head(rb)
        BY <2>3, <3>1, <3>3, <3>4, JoinedHead, JoinedNone DEF TypeOK
      <4>2. world' \subseteq Residue' \cup astray'
        BY <2>1, <3>2, <4>1 DEF TraceInv, InHand, Residue
      <4>3. QED
        BY <2>1, <3>3, <4>2 DEF BaseInv, BeforeKB, DerivedNeedsKB
    <3>5. CASE Row("kb") \notin Head(rb)
      BY <2>1, <3>2, <3>3, <3>5 DEF BaseInv, BeforeKB, DerivedNeedsKB, Residue
    <3>6. QED
      BY <3>4, <3>5
  <2>4. QED
    BY <2>2, <2>3
<1>14. CASE Abandon
  BY <1>1, <1>14 DEF Abandon, BaseInv, BeforeKB, DerivedNeedsKB, Residue
<1>15. ASSUME Cancel \/ Crash \/ OtherJob \/ UNCHANGED vars PROVE BaseInv'
  <2>1. UNCHANGED <<at, artifact, world, changed, rb, astray>>
    BY <1>15 DEF Cancel, Crash, OtherJob, vars
  <2>2. QED
    BY <2>1 DEF BaseInv, BeforeKB, DerivedNeedsKB, Residue
<1>16. QED
  BY <1>2, <1>3, <1>4, <1>5, <1>6, <1>7, <1>8, <1>9, <1>10, <1>11, <1>12, <1>13, <1>14, <1>15
     DEF Next

-----------------------------------------------------------------------------
(***************************************************************************)
(* Quests of two jobs.                                                     *)
(***************************************************************************)
\* A step that adds no name of a completed quest to the result or the list.
LEMMA MineFrame ==
  ASSUME MineInv, UNCHANGED <<completed, mine, theirs>>, other = "undone" => other' = "undone",
         \A q \in Quests :
           /\ <<"done", q>> \in world' => <<"done", q>> \in world
           /\ <<"done", q>> \in result' \cup Joined(rb)' => <<"done", q>> \in result \cup Joined(rb),
         TypeOK
  PROVE  MineInv'
<1>1. mine \cup theirs \subseteq Quests
  BY DEF TypeOK
<1>2. CompletionStays'
  BY <1>1 DEF MineInv, CompletionStays
<1>3. QED
  BY <1>2 DEF MineInv

\* An undo call, of effects the job has had: what it reopens is the job's own.
LEMMA MineUndo ==
  ASSUME TypeOK, MineInv, NEW call, UndoCall(call),
         \A q \in Quests : <<"done", q>> \in call => q \in mine,
         UNCHANGED result, Joined(rb)' \subseteq Joined(rb)
  PROVE  MineInv'
<1>1. PICK kept \in SUBSET (call \cap world) :
        /\ world' = (world \ call) \cup kept
        /\ (kept = {} /\ completed' = completed \ Reopened(call)) \/ completed' = completed
  BY Undone
<1>2. UNCHANGED <<mine, other, theirs>> /\ mine \cup theirs \subseteq Quests
  BY Undone DEF otherVars, TypeOK
<1>3. CompletionStays'
  <2> SUFFICES ASSUME NEW q \in (mine \cup theirs) \ completed'
               PROVE  (q \in mine /\ <<"done", q>> \notin world') \/ (q \in theirs /\ other = "undone")
    BY <1>2 DEF CompletionStays
  <2>1. CASE q \in completed
    BY <1>1, <1>2, <2>1 DEF Reopened
  <2>2. CASE q \notin completed
    BY <1>1, <2>2 DEF MineInv, CompletionStays
  <2>3. QED
    BY <2>1, <2>2
<1>4. QED
  BY <1>2, <1>3 DEF MineInv

\* Every step reopens only what is its own job's.
LEMMA MineStep == TypeOK /\ MineInv /\ [Next]_vars => MineInv'
<1> SUFFICES ASSUME TypeOK, MineInv, [Next]_vars PROVE MineInv'
  OBVIOUS
<1> USE DEF frame, questVars, otherVars
<1>1. ASSUME \/ BuildContext \/ PlanRoadmap \/ AskQuests \/ WriteUserView \/ AskMilestones
             \/ Complete \/ Cancel \/ Crash \/ UNCHANGED vars
      PROVE  MineInv'
  <2>1. UNCHANGED <<world, result, rb, completed, mine, other, theirs>>
    BY <1>1 DEF BuildContext, PlanRoadmap, AskQuests, WriteUserView, Prepare, AskMilestones,
                Complete, Cancel, Crash, vars
  <2>2. QED
    BY <2>1, MineFrame
<1>2. ASSUME Upload \/ PersistRoadmap \/ ExtractKeywords PROVE MineInv'
  <2>1. \A q : <<"done", q>> \notin {Object(artifact), Roadmap, Keywords}
    BY DEF Object, Roadmap, Keywords
  <2>2. /\ UNCHANGED <<result, rb, completed, mine, other, theirs>>
        /\ world' \subseteq world \cup {Object(artifact), Roadmap, Keywords}
    BY <1>2 DEF Upload, PersistRoadmap, ExtractKeywords, AfterKeywordError
  <2>3. QED
    BY <2>1, <2>2, MineFrame
<1>3. CASE Insert
  <2>1. \A q : <<"done", q>> \notin {Object(artifact), Row(artifact)}
    BY DEF Object, Row
  <2>2. /\ UNCHANGED <<completed, mine, other, theirs>>
        /\ world' \subseteq world \cup {Row(artifact)} /\ result' \subseteq result \cup {Row(artifact)}
        /\ rb' = rb \/ rb' = Add(ReportUndo(artifact))
    BY <1>3 DEF Insert
  <2>3. Joined(rb)' \subseteq {Object(artifact), Row(artifact)} \cup Joined(rb)
    BY <2>2, Added, UndoTypes, Closures
  <2>4. QED
    BY <2>1, <2>2, <2>3, MineFrame
<1>4. CASE DropOrphan
  <2>1. \A q : <<"done", q>> # Object(artifact)
    BY DEF Object
  <2>2. UndoCall({Object(artifact)}) /\ UNCHANGED <<result, rb>>
    BY <1>4 DEF DropOrphan
  <2>3. QED
    BY <2>1, <2>2, MineUndo
<1>5. ASSUME NEW q \in Quests, EvaluateQuest(q) PROVE MineInv'
  <2>1. PICK new \in SUBSET {<<"eval", q>>, <<"stamp", q>>, <<"done", q>>} :
          /\ world' = world \cup new
          /\ result' \subseteq result \cup (new \cap {<<"done", q>>})
          /\ completed' = completed \cup Reopened(new) /\ mine' = mine \cup Reopened(new)
    BY <1>5 DEF EvaluateQuest, CompletedIDs
  <2>2. \A p \in Quests : p \in Reopened(new) <=> <<"done", p>> \in new
    BY DEF Reopened
  <2>3. UNCHANGED <<rb, other, theirs>> /\ mine \cup theirs \subseteq Quests
    BY <1>5 DEF EvaluateQuest, TypeOK
  <2>4. mine' \subseteq Quests
    BY <2>1, <2>3 DEF Reopened
  <2>5. CompletionStays'
    BY <2>1, <2>2, <2>3, <2>4 DEF MineInv, CompletionStays
  <2>6. QED
    BY <2>1, <2>2, <2>3, <2>5 DEF MineInv
<1>6. ASSUME NEW n \in NewQuests, InsertQuest(n) PROVE MineInv'
  <2>1. \A q : <<"done", q>> # <<"new", n>>
    OBVIOUS
  <2>2. /\ UNCHANGED <<rb, completed, mine, other, theirs>>
        /\ world' \subseteq world \cup {<<"new", n>>} /\ result' \subseteq result \cup {<<"new", n>>}
    BY <1>6 DEF InsertQuest
  <2>3. QED
    BY <2>1, <2>2, MineFrame
<1>7. CASE QuestsSaved
  <2>1. rb' = Add(QuestUndo) /\ UNCHANGED <<world, result, completed, mine, other, theirs>>
    BY <1>7 DEF QuestsSaved
  <2>2. \A q : <<"done", q>> \in Joined(QuestUndo) => <<"done", q>> \in result
    BY Closures DEF All
  <2>3. Joined(rb)' = Joined(QuestUndo) \cup Joined(rb)
    BY <2>1, Added, UndoTypes
  <2>4. QED
    BY <2>1, <2>2, <2>3, MineFrame
<1>8. ASSUME NEW m \in Milestones, EvaluateMilestone(m) PROVE MineInv'
  <2>1. \A q : <<"done", q>> \notin {<<"milestoneEval", m>>, <<"milestoneStatus", m>>}
    OBVIOUS
  <2>2. /\ UNCHANGED <<rb, result, completed, mine, other, theirs>>
        /\ world' \subseteq world \cup {<<"milestoneEval", m>>, <<"milestoneStatus", m>>}
    BY <1>8 DEF EvaluateMilestone
  <2>3. QED
    BY <2>1, <2>2, MineFrame
<1>9. CASE MilestonesSaved
  <2>1. rb' = Add(MilestoneUndo) /\ UNCHANGED <<world, result, completed, mine, other, theirs>>
    BY <1>9 DEF MilestonesSaved
  <2>2. \A q : <<"done", q>> \notin Joined(MilestoneUndo)
    BY Closures DEF All, MilestoneEvals
  <2>3. Joined(rb)' = Joined(MilestoneUndo) \cup Joined(rb)
    BY <2>1, Added, UndoTypes
  <2>4. QED
    BY <2>1, <2>2, <2>3, MineFrame
<1>10. CASE Undo
  <2>1. CASE rb = <<>>
    BY <1>10, <2>1, MineFrame DEF Undo
  <2>2. CASE rb # <<>>
    <3>1. UndoCall(Head(rb)) /\ rb' = Tail(rb) /\ UNCHANGED result
      BY <1>10, <2>2 DEF Undo
    <3>2. Joined(rb) = Head(rb) \cup Joined(rb)'
      BY <2>2, <3>1, JoinedHead DEF TypeOK
    <3>3. QED
      BY <3>1, <3>2, MineUndo DEF MineInv
  <2>3. QED
    BY <2>1, <2>2
<1>11. CASE Abandon
  BY <1>11, MineFrame DEF Abandon
<1>12. CASE OtherJob
  <2>1. UNCHANGED <<world, result, rb, mine>> /\ mine \cup theirs \subseteq Quests
    BY <1>12 DEF OtherJob, TypeOK
  <2>2. CASE OtherAsks
    BY <2>1, <2>2, MineFrame DEF OtherAsks
  <2>3. ASSUME NEW q \in Quests, OtherCompletes(q) PROVE MineInv'
    <3>1. completed' = completed \cup {q} /\ theirs' = theirs \cup {q} /\ other' = other
      BY <2>3 DEF OtherCompletes
    <3>2. QED
      BY <2>1, <3>1 DEF MineInv, CompletionStays
  <2>4. CASE OtherEnds
    <3>1. /\ other = "saving" /\ theirs' = theirs
          /\ completed' = completed \/ (other' = "undone" /\ completed' = completed \ theirs)
      BY <2>4 DEF OtherEnds
    <3>2. QED
      BY <2>1, <3>1 DEF MineInv, CompletionStays
  <2>5. QED
    BY <1>12, <2>2, <2>3, <2>4 DEF OtherJob
<1>13. QED
  BY <1>1, <1>2, <1>3, <1>4, <1>5, <1>6, <1>7, <1>8, <1>9, <1>10, <1>11, <1>12 DEF Next

-----------------------------------------------------------------------------
(***************************************************************************)
(* The theorems.                                                           *)
(***************************************************************************)
\* The invariant holds in every state of every job.
LEMMA PipelineInvariant == Spec => [](TypeOK /\ PipelineInv)
<1>1. Init => TypeOK /\ PipelineInv
  <2> SUFFICES ASSUME Init PROVE TypeOK /\ PipelineInv
    OBVIOUS
  <2> USE DEF Init
  <2>1. TypeOK
    BY Lists DEF TypeOK, Steps
  <2>2. TraceInv
    BY DEF TraceInv
  <2>3. ObjectInv /\ FinalIsFinal /\ ResultInv
    BY DEF ObjectInv, RowHasObject, RowLater, Paired, FinalIsFinal, ResultInv
  <2>4. BaseInv
    BY DEF BaseInv, BeforeKB, KBLast, DerivedNeedsKB
  <2>5. MineInv
    BY JoinedNone DEF MineInv, CompletionStays
  <2>6. QED
    BY <2>1, <2>2, <2>3, <2>4, <2>5 DEF PipelineInv
<1>2. TypeOK /\ PipelineInv /\ [Next]_vars => TypeOK' /\ PipelineInv'
  BY TypeStep, TraceStep, ObjectStep, BaseStep, FinalStep, ResultStep, MineStep DEF PipelineInv
<1>3. QED
  BY <1>1, <1>2, PTL DEF Spec

\* At whichever step a job fails, and whichever calls of its rollback fail, it
\* leaves only what a rollback never touches and what the code cannot know of
\* or could not undo.
THEOREM FailureLeavesNoTraceCorrect == Spec => []FailureLeavesNoTrace
<1>1. TypeOK /\ PipelineInv => FailureLeavesNoTrace
  BY JoinedNone DEF PipelineInv, TraceInv, InHand, FailureLeavesNoTrace
<1>2. QED
  BY <1>1, PipelineInvariant, PTL

\* What S3 and the database hold of a job fits together at every moment: a row
\* has its object unless the rollback comes to the row with its next call or the
\* row is astray, and what derives from a knowledge base goes before its row.
THEOREM StorageCorrect == Spec => []StorageInv
<1>1. TypeOK /\ PipelineInv => StorageInv
  BY DEF PipelineInv, ObjectInv, BaseInv, StorageInv, DerivedNeedsKB
<1>2. QED
  BY <1>1, PipelineInvariant, PTL

\* No rollback starts once the roadmap is replaced or keywords are stored.
THEOREM FinalCorrect == Spec => []FinalIsFinal
<1>1. TypeOK /\ PipelineInv => FinalIsFinal
  BY DEF PipelineInv
<1>2. QED
  BY <1>1, PipelineInvariant, PTL

\* The notification of a finished job names all that is known to be stored, and
\* nothing else.
THEOREM ResultCorrect == Spec => []ResultIsStored
<1>1. TypeOK /\ PipelineInv => ResultIsStored
  BY DEF PipelineInv, ResultInv, ResultIsStored
<1>2. QED
  BY <1>1, PipelineInvariant, PTL

\* A completed quest is active again only if a job that completed it took that
\* back, whatever another job of the project does meanwhile.
THEOREM CompletionCorrect == Spec => []CompletionStays
<1>1. TypeOK /\ PipelineInv => CompletionStays
  BY DEF PipelineInv, MineInv
<1>2. QED
  BY <1>1, PipelineInvariant, PTL
=============================================================================
