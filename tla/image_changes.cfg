SPECIFICATION FairSpec
CONSTANTS
  git = git
  blob = blob
  e1 = e1
  e2 = e2
  r1 = r1
  r2 = r2
  Sources <- TwoKinds
  GitSources <- OneGit
  Envs <- OneEnv
  CacheSizes = {0}
  RunImages <- TwoRuns
  FailedLimit = 1
  SuccessLimit = 1
  SameSecond = FALSE
  ChangeKinds = {"edit", "commit", "builder"}
  MaxBuilds = 5
  MaxChanges = 1
  MaxFaults = 1
INVARIANTS
  SourceOfItsGeneration
  EveryBuildHasACause
  SettledReadyIsUpToDate
PROPERTIES
  EventuallyBuilt
CHECK_DEADLOCK FALSE
