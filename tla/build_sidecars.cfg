CONSTANTS
    s1 = s1
    NumSteps = 3
    Sidecars = {s1}
    InjectedSidecarSupport = TRUE
    GenerateSlsaAttestation = FALSE
    ActiveDeadlineSeconds = FALSE
    Rebase = FALSE
    StepsMayHang = TRUE
    Faults = {"call", "crash", "generate", "kill", "sidecar", "truncate"}
    MaxFaults = 1
SPECIFICATION FairSpec
INVARIANTS
  StepsInOrder
  StepsWaitForSidecars
PROPERTIES
  BuildEnds
CHECK_DEADLOCK FALSE
