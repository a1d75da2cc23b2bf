SPECIFICATION Spec
CONSTANTS
  Workers = {"builder", "clusterbuilder"}
  Keys <- MCKeys
  Annotation <- MCAnnotation
  Own = "own"
  MaxErrors = 1
INVARIANTS
  SignaturesGoToTheirRepository
CHECK_DEADLOCK FALSE
