SPECIFICATION Spec
CONSTANTS
  s1 = s1  s2 = s2  e1 = e1  e2 = e2
  Scans = {s1}
  Evals = {e1}
  Names <- AllNames
  Words <- AllWords
  Plans <- AllPlans
  Results = {"IN_PROGRESS", "COMPLETED"}
  MaxAnswer = 2
  MaxErrors = 0
PROPERTY NeverDowngraded
CHECK_DEADLOCK FALSE
