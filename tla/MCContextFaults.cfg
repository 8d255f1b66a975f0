SPECIFICATION Spec
CONSTANTS
  NumModules = 3
  Sizes = {0, 1, 2, 5}
  MaxChunks = 2
  Answers <- Lists
  Temporary <- OverviewFiles
  Artifacts <- CloneFiles
  Requests <- Calls
  FilesOf <- Paths
  MaxErrors = 2
INVARIANTS ModulesKept TemporaryFiles NothingLeftBehind AnswerIsWhole
PROPERTIES CancelEndsGeneration EndsIfProviderDoes
CHECK_DEADLOCK FALSE
