SPECIFICATION FairSpec
CONSTANTS
  GitUrls = {"git"}
  Wants <- MCWants
  Builders <- MCBuilders
  Nil = Nil
  MaxChanges = 2
INVARIANTS
  PodsHaveTheirRevision
  ImageIsOfItsSpec
PROPERTIES
  EventuallyUpToDate
  TriggersAreServed
CHECK_DEADLOCK FALSE
