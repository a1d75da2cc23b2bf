SPECIFICATION FairSpec
CONSTANTS
  NumSteps = 2
  Sidecars = TRUE
  MaxEdits = 1
  MaxFaults = 1
INVARIANTS
  TailIsFaithful
  WaitReportsItsGeneration
PROPERTIES
  WaitReturns
CHECK_DEADLOCK FALSE
