CONSTANTS
    Kinds = {"Builder", "ClusterBuilder"}
    Changed = {"ClusterStack", "ClusterStore", "Buildpack", "builder"}
    CosignSecrets = TRUE
    Faults = {"http", "call", "crash"}
    MaxChanges = 1
    MaxFaults = 1
SPECIFICATION FairSpec
INVARIANTS
  SettledBuilderIsCurrent
  ReportedImageIsComplete
PROPERTIES
  KeepsServing
  EventuallyUpToDate
CHECK_DEADLOCK FALSE
