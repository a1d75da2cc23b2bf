CONSTANTS
    Commits = {"c1", "c2", "c3"}
    SameTree = {"c1", "c2"}
    NoTree = {}
    Sources = {"git", "blob", "registry"}
    Revisions = {"main", "v1", "HEAD", "c2"}
    ShallowClone = {TRUE, FALSE}
    Faults = {"remote", "call", "crash"}
    MaxPushes = 1
    MaxEdits = 1
    MaxFaults = 2
    MaxFetches = 1
SPECIFICATION FairSpec
INVARIANTS
  PollingNeverStops
  ReadySourceIsOfItsGeneration
  FetchedIsNamed
PROPERTIES
  EventuallyCurrent
CHECK_DEADLOCK FALSE
