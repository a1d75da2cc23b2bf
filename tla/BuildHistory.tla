---------------------------- MODULE BuildHistory ----------------------------
(***************************************************************************)
(* What the Builds of an Image promise, without API server, caches or      *)
(* controller: a history of builds, one of them running at a time, from    *)
(* which finished builds are dropped once a newer one has ended the same   *)
(* way.  ImageController implements it.                                    *)
(***************************************************************************)
EXTENDS Naturals, Sequences

VARIABLES
    hist,    \* hist[n]: how the n-th build stands
    kept     \* the builds that still exist

Outcomes == {"succeeded", "failed"}

Init == hist = <<>> /\ kept = {}

\* A build starts when no other is running.
Start == /\ \A i \in DOMAIN hist : hist[i] \in Outcomes
         /\ hist' = Append(hist, "running")
         /\ kept' = kept \cup {Len(hist) + 1}

Finish(i, outcome) == /\ hist[i] = "running"
                      /\ hist' = [hist EXCEPT ![i] = outcome]
                      /\ UNCHANGED kept

\* The newest build of either outcome is never forgotten.
Forget(i) == /\ hist[i] \in Outcomes
             /\ \E k \in DOMAIN hist : k > i /\ hist[k] = hist[i]
             /\ kept' = kept \ {i}
             /\ UNCHANGED hist

Next == \/ Start
        \/ \E i \in DOMAIN hist, outcome \in Outcomes : Finish(i, outcome)
        \/ \E i \in kept : Forget(i)

Spec == Init /\ [][Next]_<<hist, kept>>

=============================================================================
