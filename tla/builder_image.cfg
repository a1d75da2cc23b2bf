CONSTANTS
  NotSemver = {9}
  MaxDepth = 2
  Cases <- MCCases
SPECIFICATION Spec
INVARIANTS
  ImageIsComplete
  ImageIsDeterministic
  MixinsAreThere
CHECK_DEADLOCK FALSE
