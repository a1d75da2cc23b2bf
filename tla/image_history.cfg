SPECIFICATION Spec
CONSTANTS
  git = git
  blob = blob
  e1 = e1
  e2 = e2
  r1 = r1
  r2 = r2
  Sources <- OneGit
  GitSources <- OneGit
  Envs <- OneEnv
  CacheSizes = {0, 1}
  RunImages <- OneRun
  FailedLimit = 1
  SuccessLimit = 1
  SameSecond = FALSE
  ChangeKinds = {"trigger", "edit"}
  MaxBuilds = 5
  MaxChanges = 2
  MaxFaults = 1
INVARIANTS
  TypeOK
  OneBuildAtATime
  BuildNumbersNeverReused
  NewestBuildsKept
  StartsFromNewestSuccess
  SettledAsSpecified
PROPERTIES
  ImplementsBuildHistory
CHECK_DEADLOCK FALSE
