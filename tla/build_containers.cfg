CONSTANTS
    NumSteps = 3
    Sidecars = {}
    InjectedSidecarSupport = FALSE
    GenerateSlsaAttestation = TRUE
    ActiveDeadlineSeconds = TRUE
    Rebase = FALSE
    StepsMayHang = FALSE
    Faults = {"call", "crash", "delete", "kill", "truncate"}
    MaxFaults = 2
SPECIFICATION Spec
INVARIANTS
  TypeOK
  SuccessIsBacked
  SettledOutcomeIsThePods
PROPERTIES
  ImplementsBuildOutcome
CHECK_DEADLOCK FALSE
