SPECIFICATION Spec
CONSTANTS
  a = a  b = b  c = c
  repo1 = repo1  inst1 = inst1
  commit1 = commit1  commit2 = commit2
  Tip = Tip  None = None
  Jobs = {a, b}
  Repos = {repo1}
  Installations = {inst1}
  RepoOf <- OneRepo
  InstOf <- OneInstallation
  CommitOf <- Commit
  MaxSweeps = 0
  MaxFaults = 0
  MaxCrashes = 0
INVARIANT AnalysisReadsOwnCommit
CHECK_DEADLOCK FALSE
