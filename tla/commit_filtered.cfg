CONSTANTS
    Commits = {"c1", "c2"}
    SameTree = {"c1", "c2"}
    NoTree = {}
    Sources = {"git"}
    Revisions = {"main", "c1", "c2"}
    ShallowClone = {TRUE}
    Faults = {}
    MaxPushes = 1
    MaxEdits = 1
    MaxFaults = 0
    MaxFetches = 1
SPECIFICATION Spec
INVARIANTS
  CommitIsBuilt
CHECK_DEADLOCK FALSE
