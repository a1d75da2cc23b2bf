-------------------------- MODULE MCImageController --------------------------
(* Instances of ImageController for TLC; the sizes are chosen in the cfgs. *)
EXTENDS ImageController

CONSTANTS git, blob, e1, e2, r1, r2

OneGit   == {git}
TwoKinds == {git, blob}
OneEnv   == {e1}
TwoEnvs  == {e1, e2}
OneRun   == {r1}
TwoRuns  == {r1, r2}
=============================================================================
