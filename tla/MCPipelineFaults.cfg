SPECIFICATION Spec
CONSTANTS
  q1 = q1  q2 = q2  n1 = n1  m1 = m1  m2 = m2
  Quests = {q1, q2}
  NewQuests = {n1}
  Milestones = {m1, m2}
SYMMETRY Alike
INVARIANTS StorageInv FailureLeavesNoTrace FinalIsFinal ResultIsStored CompletionStays
CONSTRAINT OtherMeetsFullScan
CHECK_DEADLOCK FALSE
