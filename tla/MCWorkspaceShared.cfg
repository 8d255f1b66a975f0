SPECIFICATION Spec
CONSTANTS
  a = a  b = b  c = c
  repo1 = repo1  inst1 = inst1
  commit1 = commit1  commit2 = commit2
  Tip = Tip  None = None
  Jobs = {a, b, c}
  Repos = {repo1}
  Installations = {inst1}
  RepoOf <- OneRepo
  InstOf <- OneInstallation
  CommitOf <- Commit
  MaxSweeps = 1
  MaxFaults = 1
  MaxCrashes = 1
SYMMETRY SwapAnalyses
INVARIANTS DiskInv ExclusiveUnlessDisturbed
PROPERTY StaleLockStays
CHECK_DEADLOCK FALSE
