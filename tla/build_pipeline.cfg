\* What the programs of a build hand to each other, while the world moves on.
SPECIFICATION Spec
CONSTANTS
  Cases <- MCCases
  MaxMoves = 1
INVARIANTS
  ReportIsTrue
  BuildpacksGetTheirInputs
  CredentialsAgree
  SignedByEveryKey
CHECK_DEADLOCK FALSE
