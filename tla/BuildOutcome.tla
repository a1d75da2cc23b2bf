---------------------------- MODULE BuildOutcome ----------------------------
(***************************************************************************)
(* What a Build promises to the Image that created it: it ends once, with  *)
(* success or with failure, and a success names an image that was pushed   *)
(* to the registry before.  BuildController implements it.                 *)
(***************************************************************************)
VARIABLES
    condition,    \* the Succeeded condition of the Build
    latestImage,  \* status.latestImage, 0 for none
    pushed        \* the images that were pushed for the Build

Init == condition = "Unknown" /\ latestImage = 0 /\ pushed = {}

Push == /\ pushed \subseteq pushed'
        /\ UNCHANGED <<condition, latestImage>>

Succeed == /\ condition = "Unknown"
           /\ condition' = "True" /\ latestImage' \in pushed
           /\ UNCHANGED pushed

Fail == /\ condition = "Unknown"
        /\ condition' = "False"
        /\ UNCHANGED <<latestImage, pushed>>

Next == Push \/ Succeed \/ Fail

Spec == Init /\ [][Next]_<<condition, latestImage, pushed>>

=============================================================================
