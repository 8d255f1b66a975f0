SPECIFICATION Spec
CONSTANTS
  s1 = s1  s2 = s2  e1 = e1  e2 = e2
  Scans = {s1, s2}
  Evals = {e1, e2}
  Names <- AllNames
  Words <- AllWords
  Plans <- AllPlans
  Results = {"COMPLETED", "FAILED"}
  MaxAnswer = 2
  MaxErrors = 1
INVARIANT RoadmapInv
PROPERTIES LinkFollowsKey RollbackRestores FinalStays
CONSTRAINT ThreeStart
SYMMETRY Alike
CHECK_DEADLOCK FALSE
