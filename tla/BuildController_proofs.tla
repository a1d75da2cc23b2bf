------------------------ MODULE BuildController_proofs ------------------------
(***************************************************************************)
(* The Build reconciler and the programs in its pod keep the promise of    *)
(* BuildOutcome for any number of steps and sidecars, whatever is lost,    *)
(* killed, deleted or restarted: type correctness, the order of the steps, *)
(* that a reported success is backed by a pushed, attested image, that     *)
(* steps wait for the sidecars of the first pod, and that the Build of a   *)
(* pod that has ended ends, and as the pod did.                            *)
(***************************************************************************)
EXTENDS BuildController, TLAPS

-----------------------------------------------------------------------------
(* The inductive invariant. *)

\* What runs in the pod: done files belong to containers that were started, a
\* container that ended well left a done file, a running command to a running
\* container, and without a pod there is nothing.
PodRuns ==
    /\ pod = NoPod => executing = {} /\ succeeded = {}
    /\ pod # NoPod =>
        /\ \A i \in executing : pod.step[i] = "running" /\ i \notin succeeded
        /\ \A i \in succeeded : pod.step[i] # "waiting"
        /\ \A i \in Steps : pod.step[i] = "done" => i \in succeeded

\* The image of a pod is pushed once its publishing step has succeeded.
Pushed == Publish \in succeeded => pod.uid \in registry

\* Of every pod the controller may look at, a completed one has pushed its image.
Completes(q) == q # NoPod /\ q.step[Completion] = "done" => q.uid \in registry

\* A Build that reports success names a pushed image, attested if attestations are on.
Backed(x) ==
    x.condition = "True" =>
        /\ x.image \in registry
        /\ GenerateSlsaAttestation => x.image \in attested /\ x.attestation = x.image

\* A cached Build of the current version is the current Build, and a reconcile in
\* progress that still has the current version works on a Build that has not ended.
Versions ==
    /\ buildCache.ver <= build.ver
    /\ buildCache.ver = build.ver => buildCache = build
    /\ pc # "idle" =>
        /\ b.ver <= build.ver
        /\ b.ver = build.ver =>
            build.condition = "Unknown" /\ (b.condition # "True" => b.image = build.image)
    /\ pc # "status" => b.condition = "Unknown"

IInv ==
    /\ TypeOK
    /\ StepsInOrder
    /\ PodRuns /\ Pushed
    /\ Completes(pod) /\ Completes(podCache) /\ Completes(p)
    /\ Backed(build) /\ Backed(buildCache) /\ Backed(b)
    /\ Versions

-----------------------------------------------------------------------------
(* Type correctness. *)

LEMMA StepSets ==
    /\ Completion \in Steps /\ Publish \in Steps /\ Publish = Completion - 1
    /\ ContainerSteps \subseteq Steps /\ Completion \in ContainerSteps
  BY StepsAssumption DEF Steps, Completion, Publish, ContainerSteps

\* A pod is never the absent pod.
LEMMA PodIsThere ==
    ASSUME NEW q \in Pods PROVE q # NoPod /\ q.uid # 0
<1>1. q.uid \in Nat \ {0}
  BY DEF Pods
<1>2. NoPod.uid = 0
  BY DEF NoPod
<1> QED
  BY <1>1, <1>2

\* What reconcile makes of a pod: the condition is true exactly when the metadata is
\* read, and then completion has ended well (build.go:179, 266; apis build.go:139).
LEMMA PodReading ==
    ASSUME NEW q \in Pods
    PROVE  /\ ConditionForPod(q) \in Conditions
           /\ MetadataReady(q) <=> ConditionForPod(q) = "True"
           /\ MetadataReady(q) => q.step[Completion] = "done"
           /\ StepsCompleted(q) \in SUBSET Steps
<1>1. Phase(q) \in {"Pending", "Running", "Succeeded", "Failed"}
  BY DEF Phase
<1>2. q.step[Completion] \in ContainerStates(q) /\ q.step[Completion] \in States
  BY StepSets DEF ContainerStates, Pods
<1>3. ASSUME Phase(q) = "Succeeded" PROVE q.step[Completion] = "done"
  BY <1>2, <1>3 DEF Phase, States
<1>4. Completion \in StepsCompleted(q) <=> q.step[Completion] = "done"
  BY StepSets DEF StepsCompleted
<1>5. ConditionForPod(q) \in Conditions
  BY <1>1 DEF ConditionForPod, Conditions
<1>6. ConditionForPod(q) = "True" <=>
        Phase(q) = "Succeeded" \/ (Phase(q) = "Failed" /\ q.reason = "DeadlineExceeded"
                                   /\ Completion \in StepsCompleted(q))
  BY <1>1 DEF ConditionForPod
<1>7. StepsCompleted(q) \in SUBSET Steps
  BY DEF StepsCompleted
<1> QED
  BY <1>3, <1>4, <1>5, <1>6, <1>7 DEF MetadataReady, PodCompletedWithActiveDeadline

LEMMA NewPodType ==
    ASSUME NEW n \in Nat PROVE NewPod(n + 1) \in Pods
  BY DEF NewPod, Pods, States

LEMMA StepType ==
    ASSUME NEW q \in Pods, NEW i \in Steps, NEW state \in States
    PROVE  /\ [q EXCEPT !.step[i] = state] \in Pods
           /\ [q EXCEPT !.step[i] = state].uid = q.uid
           /\ [q EXCEPT !.step[i] = state].sidecar = q.sidecar
           /\ \A j \in Steps : [q EXCEPT !.step[i] = state].step[j]
                                 = IF j = i THEN state ELSE q.step[j]
  BY DEF Pods

LEMMA EndType ==
    ASSUME pod \in Pods, NEW i \in Steps, NEW m \in {"metadata", "cut"}, EndContainer(i, m)
    PROVE  /\ pod' \in Pods /\ pod'.uid = pod.uid /\ pod'.sidecar = pod.sidecar
           /\ \A j \in Steps : pod'.step[j] = IF j = i THEN "done" ELSE pod.step[j]
<1> DEFINE st == [pod.step EXCEPT ![i] = "done"]
           msg == IF i = Completion THEN m ELSE pod.message
<1>1. pod' = [pod EXCEPT !.step = st, !.message = msg]
  BY DEF EndContainer, Pods
<1>2. st \in [Steps -> States] /\ msg \in {"", "metadata", "cut"}
  BY DEF Pods, States
<1>3. \A j \in Steps : st[j] = IF j = i THEN "done" ELSE pod.step[j]
  BY DEF Pods
<1> HIDE DEF st, msg
<1>4. pod' \in Pods /\ pod'.uid = pod.uid /\ pod'.sidecar = pod.sidecar /\ pod'.step = st
  BY <1>1, <1>2 DEF Pods
<1> QED
  BY <1>3, <1>4

LEMMA KilledType ==
    ASSUME NEW state \in States PROVE Killed(state) \in States \ {"running"}
  BY DEF Killed, States

LEMMA DeadlineType ==
    ASSUME pod \in Pods, Deadline
    PROVE  /\ pod' \in Pods /\ pod'.uid = pod.uid
           /\ \A i \in Steps : pod'.step[i] = Killed(pod.step[i])
           /\ \A s \in Sidecars : pod'.sidecar[s] = Killed(pod.sidecar[s])
<1> DEFINE st == [i \in Steps |-> Killed(pod.step[i])]
           sc == [s \in Sidecars |-> Killed(pod.sidecar[s])]
<1>1. st \in [Steps -> States] /\ sc \in [Sidecars -> States]
  BY KilledType DEF Pods
<1>2. pod' = [pod EXCEPT !.reason = "DeadlineExceeded", !.step = st, !.sidecar = sc]
  BY DEF Deadline
<1> HIDE DEF st, sc
<1>3. pod' \in Pods /\ pod'.uid = pod.uid /\ pod'.step = st /\ pod'.sidecar = sc
  BY <1>1, <1>2 DEF Pods
<1> QED
  BY <1>3 DEF st, sc

LEMMA NewBuildType == NewBuild \in BuildObjects /\ NewBuild.condition = "Unknown"
  BY DEF NewBuild, BuildObjects, Conditions

LEMMA InitType == Init => TypeOK
<1> SUFFICES ASSUME Init PROVE TypeOK
  OBVIOUS
<1> QED
  BY NewBuildType DEF Init, TypeOK

\* The local variables after the end of a reconcile.
LEMMA DropType ==
    ASSUME Drop
    PROVE  /\ pc' = "idle" /\ b' \in BuildObjects /\ p' = NoPod
           /\ b'.condition = "Unknown"
  BY NewBuildType DEF Drop

LEMMA TypeStep ==
    ASSUME TypeOK, [Next]_vars
    PROVE  TypeOK'
<1> USE DEF api, caches, node, images, local
<1>1. CASE SyncBuild
  BY <1>1 DEF SyncBuild, TypeOK
<1>2. CASE SyncPod
  BY <1>2 DEF SyncPod, TypeOK
<1>3. CASE StartReconcile
  BY <1>3 DEF StartReconcile, AfterPod, TypeOK
<1>4. CASE PermanentError
  <2>1. b' \in BuildObjects
    BY <1>4 DEF PermanentError, TypeOK, BuildObjects, Conditions
  <2> QED
    BY <1>4, <2>1 DEF PermanentError, GenerateFails, Fault, TypeOK
<1>5. CASE CreatePod
  <2>1. CASE pod # NoPod
    BY <1>5, <2>1, DropType DEF CreatePod, Failed, TypeOK
  <2>2. CASE pod = NoPod
    <3>1. pod' \in Pods /\ pod' # NoPod /\ created' \in Nat
      BY <1>5, <2>2, NewPodType, PodIsThere DEF CreatePod, TypeOK
    <3>2. CASE Goto(AfterPod) /\ p' = pod' /\ UNCHANGED b
      BY <1>5, <3>1, <3>2 DEF CreatePod, Goto, AfterPod, TypeOK
    <3>3. CASE AnswerLost
      BY <1>5, <3>1, <3>3, DropType DEF CreatePod, AnswerLost, Failed, Fault, TypeOK
    <3> QED
      BY <1>5, <2>2, <3>2, <3>3 DEF CreatePod
  <2> QED
    BY <2>1, <2>2
<1>6. ASSUME NEW next \in {"cleanup", "metadata"},
             Patch([pod EXCEPT !.ready = TRUE], next)
               \/ Patch([pod EXCEPT !.deadline = "now"], next),
             UNCHANGED <<build, created, caches, node, images>>
      PROVE  TypeOK'
  <2>1. CASE pod = NoPod
    BY <1>6, <2>1, DropType DEF Patch, Failed, TypeOK
  <2>2. CASE pod # NoPod
    <3>1. pod \in Pods
      BY <2>2 DEF TypeOK
    <3>2. pod' \in Pods /\ pod' # NoPod
      BY <1>6, <2>2, <3>1, PodIsThere DEF Patch, Pods
    <3>3. CASE Goto(next) /\ p' = pod' /\ UNCHANGED b
      BY <1>6, <3>2, <3>3 DEF Goto, TypeOK
    <3>4. CASE AnswerLost
      BY <1>6, <3>2, <3>4, DropType DEF AnswerLost, Failed, Fault, TypeOK
    <3> QED
      BY <1>6, <2>2, <3>3, <3>4 DEF Patch
  <2> QED
    BY <2>1, <2>2
<1>7. CASE SetBuildReady
  <2>1. CASE NeedsReady(p)
    BY <1>6, <1>7, <2>1 DEF SetBuildReady
  <2>2. CASE ~NeedsReady(p)
    BY <1>7, <2>2 DEF SetBuildReady, Goto, TypeOK
  <2> QED
    BY <2>1, <2>2
<1>8. CASE CleanupIfNeeded
  <2>1. CASE NeedsCleanup(p)
    BY <1>6, <1>8, <2>1 DEF CleanupIfNeeded
  <2>2. CASE ~NeedsCleanup(p)
    BY <1>8, <2>2 DEF CleanupIfNeeded, Goto, TypeOK
  <2> QED
    BY <2>1, <2>2
<1>9. CASE ReadPod
  <2>1. p \in Pods /\ p.uid \in Nat
    BY <1>9 DEF ReadPod, TypeOK, Pods
  <2>2. attested' \subseteq Nat
    BY <1>9, <2>1 DEF ReadPod, AttestBuild, TypeOK
  <2>3. CASE Failed
    <3>1. faults' \in Nat
      BY <1>9 DEF ReadPod, AnswerLost, Fault, Goto, TypeOK
    <3> QED
      BY <1>9, <2>2, <2>3, <3>1, DropType DEF ReadPod, Failed, TypeOK
  <2>4. CASE Goto("status") /\ UNCHANGED p
    <3>1. PICK image \in Nat, att \in Nat :
            b' = [ver |-> b.ver, condition |-> ConditionForPod(p), image |-> image,
                  attestation |-> att, podName |-> TRUE, steps |-> StepsCompleted(p)]
      <4>1. b.image \in Nat /\ b.attestation \in Nat
        BY DEF TypeOK, BuildObjects
      <4> QED
        BY <1>9, <2>1, <2>4, <4>1 DEF ReadPod, Goto, Failed, AnswerLost, Drop
    <3>2. b.ver \in Nat
      BY DEF TypeOK, BuildObjects
    <3>3. b' \in BuildObjects
      BY <2>1, <3>1, <3>2, PodReading DEF BuildObjects
    <3> QED
      BY <1>9, <2>2, <2>4, <3>3 DEF ReadPod, Goto, TypeOK
  <2> QED
    BY <1>9, <2>3, <2>4 DEF ReadPod, AnswerLost
<1>10. CASE UpdateStatus
  <2>1. build' \in BuildObjects
    BY <1>10 DEF UpdateStatus, TypeOK, BuildObjects
  <2>2. Drop /\ (queued' = TRUE \/ queued' = queued)
    BY <1>10 DEF UpdateStatus, Idle, Failed, AnswerLost
  <2>3. faults' \in Nat
    BY <1>10 DEF UpdateStatus, Idle, AnswerLost, Fault, TypeOK
  <2> QED
    BY <1>10, <2>1, <2>2, <2>3, DropType DEF UpdateStatus, TypeOK
<1>11. CASE CallFails
  BY <1>11, DropType DEF CallFails, Failed, Fault, TypeOK
<1>12. CASE Crash
  BY <1>12, DropType DEF Crash, Failed, Fault, TypeOK
<1>13. CASE RefreshDownward
  BY <1>13 DEF RefreshDownward, OfTheNode, TypeOK
<1>14. CASE Deadline
  <2>1. pod \in Pods
    BY <1>14 DEF Deadline, PodLives, TypeOK
  <2>2. pod' \in Pods
    BY <1>14, <2>1, DeadlineType
  <2> QED
    BY <1>14, <2>2 DEF Deadline, OfTheNode, TypeOK
<1>15. CASE DeletePod
  <2>1. faults' \in Nat
    BY <1>15 DEF DeletePod, Fault, TypeOK
  <2> QED
    BY <1>15, <2>1 DEF DeletePod, OfTheNode, TypeOK
<1>16. ASSUME NEW s \in Sidecars, StartSidecar(s) \/ EndSidecar(s)
       PROVE  TypeOK'
  <2>1. pod \in Pods
    BY <1>16 DEF StartSidecar, EndSidecar, PodLives, TypeOK
  <2>2. PICK state \in States : pod' = [pod EXCEPT !.sidecar[s] = state]
    BY <1>16 DEF StartSidecar, EndSidecar, States
  <2>4. pod' \in Pods
    BY <2>1, <2>2 DEF Pods
  <2>3. faults' \in Nat
    BY <1>16 DEF StartSidecar, EndSidecar, Fault, TypeOK
  <2> QED
    BY <1>16, <2>3, <2>4 DEF StartSidecar, EndSidecar, OfTheNode, TypeOK
<1>17. ASSUME NEW i \in Steps,
              StartContainer(i) \/ RunStep(i) \/ StepFails(i) \/ WatchForErrors(i)
                \/ KillStep(i)
       PROVE  TypeOK'
  <2>1. pod \in Pods
    BY <1>17 DEF StartContainer, RunStep, StepFails, WatchForErrors, KillStep, PodLives, TypeOK
  <2>2. pod' \in Pods
    BY <1>17, <2>1, StepType
    DEF StartContainer, RunStep, StepFails, WatchForErrors, KillStep, SetStep, States
  <2>3. executing' \subseteq Steps
    BY <1>17 DEF StartContainer, RunStep, StepFails, WatchForErrors, KillStep, TypeOK
  <2>4. faults' \in Nat
    BY <1>17 DEF StartContainer, RunStep, StepFails, WatchForErrors, KillStep, Fault, TypeOK
  <2>5. errorFile' \in BOOLEAN
    <3>1. errorFile' = errorFile \/ errorFile' = (errorFile \/ InjectedSidecarSupport)
      BY <1>17, Zenon DEF StartContainer, RunStep, StepFails, WatchForErrors, KillStep
    <3>2. errorFile \in BOOLEAN
      BY DEF TypeOK
    <3> QED
      BY <3>1, <3>2, Zenon
  <2> QED
    BY <1>17, <2>2, <2>3, <2>4, <2>5
    DEF StartContainer, RunStep, StepFails, WatchForErrors, KillStep, OfTheNode, TypeOK
<1>18. ASSUME NEW i \in Steps, StepSucceeds(i) \/ WaiterExits(i)
       PROVE  TypeOK'
  <2>1. pod \in Pods /\ pod.uid \in Nat
    BY <1>18 DEF StepSucceeds, WaiterExits, PodLives, TypeOK, Pods
  <2>2. pod' = pod \/ \E m \in {"metadata", "cut"} : EndContainer(i, m)
    BY <1>18 DEF StepSucceeds, WaiterExits
  <2>4. pod' \in Pods
    BY <2>1, <2>2, EndType
  <2>3. executing' \subseteq Steps /\ succeeded' \subseteq Steps /\ registry' \subseteq Nat
    BY <1>18, <2>1 DEF StepSucceeds, WaiterExits, TypeOK
  <2> QED
    BY <1>18, <2>3, <2>4 DEF StepSucceeds, WaiterExits, OfTheNode, TypeOK
<1>19. CASE UNCHANGED vars
  BY <1>19 DEF vars, TypeOK
<1> QED
  BY <1>1, <1>2, <1>3, <1>4, <1>5, <1>7, <1>8, <1>9, <1>10, <1>11, <1>12, <1>13, <1>14,
     <1>15, <1>16, <1>17, <1>18, <1>19 DEF Next

\* Every object, cache and local variable of the Build reconciler, and everything in
\* the pod, stays in its type.
THEOREM TypeCorrect == Spec => []TypeOK
<1>1. Init => TypeOK
  BY InitType
<1>2. TypeOK /\ [Next]_vars => TypeOK'
  BY TypeStep
<1> QED
  BY <1>1, <1>2, PTL DEF Spec

-----------------------------------------------------------------------------
(* What happens in the pod. *)

NodeInv == StepsInOrder /\ PodRuns /\ Pushed

\* A pod whose completion has ended well has pushed its image.
LEMMA CompletedIsPushed ==
    ASSUME TypeOK, NodeInv PROVE Completes(pod)
<1> SUFFICES ASSUME pod # NoPod, pod.step[Completion] = "done" PROVE pod.uid \in registry
  BY DEF Completes
<1>1. Completion \in succeeded
  BY StepSets DEF NodeInv, PodRuns
<1>2. Publish \in 1..(Completion - 1)
  BY StepsAssumption DEF Completion, Publish
<1>3. Publish \in succeeded
  BY <1>1, <1>2 DEF NodeInv, StepsInOrder
<1> QED
  BY <1>3 DEF NodeInv, Pushed

\* The pod, its steps and its image are left alone.
LEMMA NodeUnchanged ==
    ASSUME NodeInv, UNCHANGED <<pod, executing, succeeded, registry>>
    PROVE  NodeInv'
  BY DEF NodeInv, StepsInOrder, PodRuns, Pushed

\* Only fields of the pod that the steps do not depend on change.
LEMMA NodePatched ==
    ASSUME NodeInv, pod # NoPod, pod' # NoPod, pod'.uid = pod.uid,
           \A i \in Steps : pod'.step[i] = pod.step[i],
           executing \subseteq Steps, succeeded \subseteq Steps,
           UNCHANGED <<executing, succeeded, registry>>
    PROVE  NodeInv'
<1>1. StepsInOrder'
  BY DEF NodeInv, StepsInOrder
<1>2. PodRuns'
  BY DEF NodeInv, PodRuns
<1>3. Pushed'
  BY DEF NodeInv, Pushed
<1> QED
  BY <1>1, <1>2, <1>3 DEF NodeInv

\* A step ends, well or not, or starts.
LEMMA NodeStartContainer ==
    ASSUME TypeOK, NodeInv, NEW i \in Steps, StartContainer(i)
    PROVE  NodeInv'
<1>1. pod \in Pods /\ pod # NoPod /\ pod.step[i] = "waiting"
  BY DEF StartContainer, PodLives, TypeOK
<1>2. /\ pod' \in Pods /\ pod' # NoPod /\ pod'.uid = pod.uid
      /\ \A j \in Steps : pod'.step[j] = IF j = i THEN "running" ELSE pod.step[j]
  BY <1>1, StepType, PodIsThere DEF StartContainer, SetStep, States
<1>3. i \notin executing /\ i \notin succeeded
  BY <1>1 DEF NodeInv, PodRuns
<1>4. executing \subseteq Steps /\ succeeded \subseteq Steps
  BY DEF TypeOK
<1>5. succeeded' = succeeded /\ registry' = registry
  BY DEF StartContainer
<1>6. CASE InjectedSidecarSupport
  <2>1. executing' = executing
    BY <1>6 DEF StartContainer
  <2>2. StepsInOrder'
    BY <1>5, <2>1 DEF NodeInv, StepsInOrder
  <2>3. PodRuns'
    BY <1>1, <1>2, <1>3, <1>4, <1>5, <2>1 DEF NodeInv, PodRuns
  <2> QED
    BY <1>2, <1>5, <2>2, <2>3 DEF NodeInv, Pushed
<1>7. CASE ~InjectedSidecarSupport
  <2>1. executing' = executing \cup {i}
    BY <1>7 DEF StartContainer
  <2>2. \A j \in 1..(i - 1) : j \in Steps /\ j # i /\ pod.step[j] = "done"
    BY <1>7, StepsAssumption DEF StartContainer, Steps
  <2>3. \A j \in 1..(i - 1) : j \in succeeded \ executing
    BY <1>1, <2>2 DEF NodeInv, PodRuns
  <2>4. \A k \in executing \cup succeeded : ~(i \in 1..(k - 1))
    BY <1>3 DEF NodeInv, StepsInOrder
  <2>5. StepsInOrder'
    BY <1>5, <2>1, <2>2, <2>3, <2>4 DEF NodeInv, StepsInOrder
  <2>6. PodRuns'
    BY <1>1, <1>2, <1>3, <1>4, <1>5, <2>1 DEF NodeInv, PodRuns
  <2> QED
    BY <1>2, <1>5, <2>5, <2>6 DEF NodeInv, Pushed
<1> QED
  BY <1>6, <1>7

LEMMA NodeRunStep ==
    ASSUME TypeOK, NodeInv, NEW i \in Steps, RunStep(i)
    PROVE  NodeInv'
<1>1. pod # NoPod /\ pod.step[i] = "running" /\ i \notin executing /\ i \notin succeeded
  BY DEF RunStep, PodLives
<1>2. executing' = executing \cup {i} /\ UNCHANGED <<pod, succeeded, registry>>
  BY DEF RunStep
<1>3. \A j \in 1..(i - 1) : j \in succeeded \ executing
  <2>1. CASE i = 1
    BY <2>1
  <2>2. CASE i # 1
    <3>1. i - 1 \in succeeded
      BY <2>2 DEF RunStep, WaitFile
    <3>2. i - 1 \notin executing
      BY <1>1, <3>1 DEF NodeInv, PodRuns
    <3>3. \A j \in 1..((i - 1) - 1) : j \in succeeded \ executing
      BY <3>1 DEF NodeInv, StepsInOrder
    <3>4. \A j \in 1..(i - 1) : j = i - 1 \/ j \in 1..((i - 1) - 1)
      BY StepsAssumption DEF Steps
    <3> QED
      BY <3>1, <3>2, <3>3, <3>4
  <2> QED
    BY <2>1, <2>2
<1>4. \A k \in executing \cup succeeded : ~(i \in 1..(k - 1))
  BY <1>1 DEF NodeInv, StepsInOrder
<1>5. ~(i \in 1..(i - 1))
  BY StepsAssumption DEF Steps
<1>6. StepsInOrder'
  BY <1>2, <1>3, <1>4, <1>5 DEF NodeInv, StepsInOrder
<1>7. PodRuns'
  BY <1>1, <1>2 DEF NodeInv, PodRuns
<1> QED
  BY <1>2, <1>6, <1>7 DEF NodeInv, Pushed

LEMMA NodeStepSucceeds ==
    ASSUME TypeOK, NodeInv, NEW i \in Steps, StepSucceeds(i)
    PROVE  NodeInv'
<1>1. pod \in Pods /\ pod # NoPod /\ i \in executing /\ pod.step[i] = "running"
  BY DEF StepSucceeds, PodLives, TypeOK, NodeInv, PodRuns
<1>2. pod' = pod \/ \E m \in {"metadata", "cut"} : EndContainer(i, m)
  BY DEF StepSucceeds
<1>3. /\ pod' # NoPod /\ pod'.uid = pod.uid
      /\ \A j \in Steps : pod'.step[j] = pod.step[j] \/ (j = i /\ pod'.step[j] = "done")
  BY <1>1, <1>2, EndType, PodIsThere
<1>4. /\ executing' = executing \ {i} /\ succeeded' = succeeded \cup {i}
      /\ registry' = IF i = Publish THEN registry \cup {pod.uid} ELSE registry
  BY DEF StepSucceeds
<1>5. executing \subseteq Steps /\ succeeded \subseteq Steps
  BY DEF TypeOK
<1>6. StepsInOrder'
  BY <1>1, <1>4 DEF NodeInv, StepsInOrder
<1>7. PodRuns'
  BY <1>1, <1>3, <1>4, <1>5 DEF NodeInv, PodRuns
<1>8. Pushed'
  BY <1>3, <1>4 DEF NodeInv, Pushed
<1> QED
  BY <1>6, <1>7, <1>8 DEF NodeInv

LEMMA NodeWaiterExits ==
    ASSUME TypeOK, NodeInv, NEW i \in Steps, WaiterExits(i)
    PROVE  NodeInv'
<1>1. pod \in Pods /\ pod # NoPod /\ i \in succeeded
  BY DEF WaiterExits, PodLives, TypeOK
<1>2. /\ pod' # NoPod /\ pod'.uid = pod.uid
      /\ \A j \in Steps : pod'.step[j] = IF j = i THEN "done" ELSE pod.step[j]
  BY <1>1, EndType, PodIsThere DEF WaiterExits
<1>3. UNCHANGED <<executing, succeeded, registry>>
  BY DEF WaiterExits, node
<1>4. executing \subseteq Steps /\ succeeded \subseteq Steps
  BY DEF TypeOK
<1>5. i \notin executing
  BY <1>1 DEF NodeInv, PodRuns
<1>6. PodRuns'
  BY <1>1, <1>2, <1>3, <1>4, <1>5 DEF NodeInv, PodRuns
<1>7. StepsInOrder' /\ Pushed'
  BY <1>2, <1>3 DEF NodeInv, StepsInOrder, Pushed
<1> QED
  BY <1>6, <1>7 DEF NodeInv

LEMMA NodeStepStops ==
    ASSUME TypeOK, NodeInv, NEW i \in Steps,
           StepFails(i) \/ WatchForErrors(i) \/ KillStep(i)
    PROVE  NodeInv'
<1>1. pod \in Pods /\ pod # NoPod
  BY DEF StepFails, WatchForErrors, KillStep, PodLives, TypeOK
<1>7. pod' = [pod EXCEPT !.step[i] = "error"]
  BY DEF StepFails, WatchForErrors, KillStep, SetStep
<1>2. /\ pod' # NoPod /\ pod'.uid = pod.uid
      /\ \A j \in Steps : pod'.step[j] = IF j = i THEN "error" ELSE pod.step[j]
  BY <1>1, <1>7, StepType, PodIsThere DEF States
<1>3. executing' = executing \ {i} /\ UNCHANGED <<succeeded, registry>>
  BY DEF StepFails, WatchForErrors, KillStep
<1>4. executing \subseteq Steps /\ succeeded \subseteq Steps
  BY DEF TypeOK
<1>5. PodRuns'
  BY <1>1, <1>2, <1>3, <1>4 DEF NodeInv, PodRuns
<1>6. StepsInOrder' /\ Pushed'
  BY <1>2, <1>3 DEF NodeInv, StepsInOrder, Pushed
<1> QED
  BY <1>5, <1>6 DEF NodeInv

LEMMA NodeDeadline ==
    ASSUME TypeOK, NodeInv, Deadline
    PROVE  NodeInv'
<1>1. pod \in Pods /\ pod # NoPod
  BY DEF Deadline, PodLives, TypeOK
<1>2. /\ pod' # NoPod /\ pod'.uid = pod.uid
      /\ \A j \in Steps : pod'.step[j] = Killed(pod.step[j])
  BY <1>1, DeadlineType, PodIsThere
<1>3. executing' = {} /\ UNCHANGED <<succeeded, registry>>
  BY DEF Deadline
<1>4. succeeded \subseteq Steps
  BY DEF TypeOK
<1>5. PodRuns'
  BY <1>1, <1>2, <1>3, <1>4 DEF NodeInv, PodRuns, Killed
<1>6. StepsInOrder' /\ Pushed'
  BY <1>2, <1>3 DEF NodeInv, StepsInOrder, Pushed
<1> QED
  BY <1>5, <1>6 DEF NodeInv

LEMMA NodeNothing ==
    ASSUME executing' = {}, succeeded' = {},
           pod' # NoPod => \A i \in Steps : pod'.step[i] = "waiting"
    PROVE  NodeInv'
<1>1. StepsInOrder'
  BY DEF StepsInOrder
<1>2. PodRuns'
  BY DEF PodRuns
<1>3. Pushed'
  BY DEF Pushed
<1> QED
  BY <1>1, <1>2, <1>3 DEF NodeInv

LEMMA NodeStep ==
    ASSUME TypeOK, NodeInv, [Next]_vars
    PROVE  NodeInv'
<1> USE DEF api, node, images
<1>1. CASE SyncBuild \/ SyncPod \/ StartReconcile \/ PermanentError \/ ReadPod
           \/ UpdateStatus \/ CallFails \/ Crash
  <2>1. UNCHANGED <<pod, executing, succeeded, registry>>
    BY <1>1 DEF SyncBuild, SyncPod, StartReconcile, PermanentError, ReadPod, UpdateStatus,
                CallFails, Crash
  <2> QED
    BY <2>1, NodeUnchanged
<1>2. CASE CreatePod
  <2>1. UNCHANGED <<executing, succeeded, registry>>
    BY <1>2 DEF CreatePod
  <2>2. CASE pod # NoPod
    <3>1. UNCHANGED pod
      BY <1>2, <2>2 DEF CreatePod
    <3> QED
      BY <2>1, <3>1, NodeUnchanged
  <2>3. CASE pod = NoPod
    <3>3. pod' = NewPod(created + 1)
      BY <1>2, <2>3 DEF CreatePod
    <3>1. \A i \in Steps : pod'.step[i] = "waiting"
      BY <3>3 DEF NewPod
    <3>2. executing' = {} /\ succeeded' = {}
      BY <2>1, <2>3 DEF NodeInv, PodRuns
    <3> QED
      BY <3>1, <3>2, NodeNothing
  <2> QED
    BY <2>2, <2>3
<1>3. ASSUME UNCHANGED <<executing, succeeded, registry>>,
             \/ UNCHANGED pod
             \/ pod # NoPod /\ (\/ pod' = [pod EXCEPT !.ready = TRUE]
                               \/ pod' = [pod EXCEPT !.deadline = "now"]
                               \/ \E s \in Sidecars, x \in States :
                                    pod' = [pod EXCEPT !.sidecar[s] = x])
      PROVE  NodeInv'
  <2>1. CASE UNCHANGED pod
    BY <1>3, <2>1, NodeUnchanged
  <2>2. CASE pod # NoPod /\ ~UNCHANGED pod
    <3>1. pod \in Pods
      BY <2>2 DEF TypeOK
    <3>2. pod' \in Pods /\ pod'.uid = pod.uid /\ pod'.step = pod.step
      <4>1. CASE pod' = [pod EXCEPT !.ready = TRUE]
        BY <3>1, <4>1 DEF Pods
      <4>2. CASE pod' = [pod EXCEPT !.deadline = "now"]
        BY <3>1, <4>2 DEF Pods
      <4>3. ASSUME NEW s \in Sidecars, NEW x \in States, pod' = [pod EXCEPT !.sidecar[s] = x]
            PROVE  pod' \in Pods /\ pod'.uid = pod.uid /\ pod'.step = pod.step
        BY <3>1, <4>3 DEF Pods
      <4> QED
        BY <1>3, <2>2, <4>1, <4>2, <4>3
    <3>3. executing \subseteq Steps /\ succeeded \subseteq Steps
      BY DEF TypeOK
    <3> QED
      BY <1>3, <2>2, <3>2, <3>3, NodePatched, PodIsThere
  <2> QED
    BY <1>3, <2>1, <2>2
<1>4. CASE SetBuildReady
  BY <1>3, <1>4 DEF SetBuildReady, Patch
<1>5. CASE CleanupIfNeeded
  BY <1>3, <1>5 DEF CleanupIfNeeded, Patch
<1>6. CASE RefreshDownward
  <2>1. UNCHANGED <<pod, executing, succeeded, registry>>
    BY <1>6 DEF RefreshDownward
  <2> QED
    BY <2>1, NodeUnchanged
<1>7. CASE Deadline
  BY <1>7, NodeDeadline
<1>8. CASE DeletePod
  BY <1>8, NodeNothing DEF DeletePod
<1>9. ASSUME NEW s \in Sidecars, StartSidecar(s) \/ EndSidecar(s)
      PROVE  NodeInv'
  <2>1. pod # NoPod /\ UNCHANGED <<executing, succeeded, registry>>
    BY <1>9 DEF StartSidecar, EndSidecar, PodLives
  <2>2. \E x \in States : pod' = [pod EXCEPT !.sidecar[s] = x]
    BY <1>9 DEF StartSidecar, EndSidecar, States
  <2> QED
    BY <1>3, <2>1, <2>2
<1>10. ASSUME NEW i \in Steps,
              StartContainer(i) \/ RunStep(i) \/ StepSucceeds(i) \/ WaiterExits(i)
                \/ StepFails(i) \/ WatchForErrors(i) \/ KillStep(i)
       PROVE  NodeInv'
  BY <1>10, NodeStartContainer, NodeRunStep, NodeStepSucceeds, NodeWaiterExits, NodeStepStops
<1>11. CASE UNCHANGED vars
  BY <1>11, NodeUnchanged DEF vars
<1> QED
  BY <1>1, <1>2, <1>4, <1>5, <1>6, <1>7, <1>8, <1>9, <1>10, <1>11 DEF Next

-----------------------------------------------------------------------------
(* What the controller knows and writes. *)

\* Images and attestations stay in the registry.
LEMMA ImagesStay ==
    ASSUME [Next]_vars PROVE registry \subseteq registry' /\ attested \subseteq attested'
<1> USE DEF images
<1>1. CASE SyncBuild \/ SyncPod \/ StartReconcile \/ PermanentError \/ CreatePod
           \/ SetBuildReady \/ CleanupIfNeeded \/ UpdateStatus \/ CallFails \/ Crash
  BY <1>1 DEF SyncBuild, SyncPod, StartReconcile, PermanentError, CreatePod, SetBuildReady,
              CleanupIfNeeded, UpdateStatus, CallFails, Crash
<1>2. CASE ReadPod
  BY <1>2 DEF ReadPod, AttestBuild
<1>3. CASE RefreshDownward \/ Deadline \/ DeletePod
  BY <1>3 DEF RefreshDownward, Deadline, DeletePod, OfTheNode
<1>4. ASSUME NEW s \in Sidecars, StartSidecar(s) \/ EndSidecar(s)
      PROVE  registry \subseteq registry' /\ attested \subseteq attested'
  BY <1>4 DEF StartSidecar, EndSidecar, OfTheNode
<1>5. ASSUME NEW i \in Steps,
             StartContainer(i) \/ RunStep(i) \/ StepSucceeds(i) \/ WaiterExits(i)
               \/ StepFails(i) \/ WatchForErrors(i) \/ KillStep(i)
      PROVE  registry \subseteq registry' /\ attested \subseteq attested'
  BY <1>5 DEF StartContainer, RunStep, StepSucceeds, WaiterExits, StepFails,
              WatchForErrors, KillStep, OfTheNode
<1>6. CASE UNCHANGED vars
  BY <1>6 DEF vars
<1> QED
  BY <1>1, <1>2, <1>3, <1>4, <1>5, <1>6 DEF Next

Knows == /\ Completes(podCache) /\ Completes(p)
         /\ Backed(build) /\ Backed(buildCache) /\ Backed(b)
         /\ Versions

\* What was known of pods and Builds stays true while the registry only grows.
LEMMA KnowledgeStays ==
    ASSUME registry \subseteq registry', attested \subseteq attested'
    PROVE  /\ Completes(podCache) /\ podCache' = podCache => Completes(podCache)'
           /\ Completes(podCache) /\ p' = podCache => Completes(p)'
           /\ Completes(p) /\ p' = p => Completes(p)'
           /\ p' = NoPod => Completes(p)'
           /\ Backed(build) /\ build' = build => Backed(build)'
           /\ Backed(build) /\ buildCache' = build => Backed(buildCache)'
           /\ Backed(buildCache) /\ buildCache' = buildCache => Backed(buildCache)'
           /\ Backed(b) /\ b' = b => Backed(b)'
           /\ b'.condition # "True" => Backed(b)'
  BY DEF Completes, Backed

\* Reconcile ends, Build and caches are left alone.
LEMMA KnowsDrop ==
    ASSUME Knows, Drop, UNCHANGED <<build, buildCache, podCache>>,
           registry \subseteq registry', attested \subseteq attested'
    PROVE  Knows'
<1>1. pc' = "idle" /\ b'.condition = "Unknown" /\ p' = NoPod
  BY DropType
<1>2. Versions'
  BY <1>1 DEF Knows, Versions
<1>3. /\ Completes(podCache)' /\ Completes(p)'
      /\ Backed(build)' /\ Backed(buildCache)' /\ Backed(b)'
  BY <1>1, KnowledgeStays DEF Knows
<1> QED
  BY <1>2, <1>3 DEF Knows

\* Neither the controller nor its caches act.
LEMMA KnowsUnchanged ==
    ASSUME Knows, UNCHANGED <<build, buildCache, podCache, pc, b, p>>,
           registry \subseteq registry', attested \subseteq attested'
    PROVE  Knows'
<1>1. Versions'
  BY DEF Knows, Versions
<1>2. /\ Completes(podCache)' /\ Completes(p)'
      /\ Backed(build)' /\ Backed(buildCache)' /\ Backed(b)'
  BY KnowledgeStays DEF Knows
<1> QED
  BY <1>1, <1>2 DEF Knows

\* Reconcile goes on with its copy of the Build and with a pod just answered.
LEMMA KnowsGoto ==
    ASSUME Knows, pc \notin {"idle", "status"}, pc' \notin {"idle", "status"},
           UNCHANGED <<build, buildCache, podCache, b>>,
           Completes(pod)', p' = p \/ p' = pod',
           registry \subseteq registry', attested \subseteq attested'
    PROVE  Knows'
<1>1. Versions'
  BY DEF Knows, Versions
<1>2. /\ Completes(podCache)' /\ Backed(build)' /\ Backed(buildCache)' /\ Backed(b)'
  BY KnowledgeStays DEF Knows
<1>3. Completes(p)'
  <2>1. CASE p' = p
    BY <2>1, KnowledgeStays DEF Knows
  <2>2. CASE p' = pod'
    BY <2>2 DEF Completes
  <2> QED
    BY <2>1, <2>2
<1> QED
  BY <1>1, <1>2, <1>3 DEF Knows

LEMMA KnowsReadPod ==
    ASSUME TypeOK, Knows, ReadPod,
           registry \subseteq registry', attested \subseteq attested'
    PROVE  Knows'
<1>1. UNCHANGED <<build, buildCache, podCache>>
  BY DEF ReadPod, api, caches
<1>2. CASE Failed
  BY <1>1, <1>2, KnowsDrop DEF Failed
<1>3. CASE ~Failed
  <2> DEFINE done == MetadataReady(p)
             attest == done /\ GenerateSlsaAttestation
  <2>1. /\ pc = "metadata" /\ pc' = "status" /\ p' = p
        /\ b' = [ver |-> b.ver, condition |-> ConditionForPod(p),
                 image |-> IF done THEN p.uid ELSE b.image,
                 attestation |-> IF attest THEN p.uid ELSE b.attestation,
                 podName |-> TRUE, steps |-> StepsCompleted(p)]
        /\ attest => p.uid \in attested'
    BY <1>3 DEF ReadPod, AttestBuild, AnswerLost, Goto
  <2>2. p \in Pods /\ p # NoPod
    BY <2>1 DEF TypeOK
  <2>3. /\ done <=> ConditionForPod(p) = "True"
        /\ done => p.step[Completion] = "done"
    BY <2>2, PodReading
  <2>4. done => p.uid \in registry'
    BY <2>2, <2>3 DEF Knows, Completes
  <2> HIDE DEF done
  <2>5. /\ b'.condition = ConditionForPod(p) /\ b'.ver = b.ver
        /\ done => b'.image = p.uid
        /\ ~done => b'.image = b.image
        /\ attest => b'.attestation = p.uid
    BY <2>1
  <2>6. Backed(b)'
    BY <2>1, <2>3, <2>4, <2>5 DEF Backed
  <2>7. b.condition = "Unknown"
    BY <2>1 DEF Knows, Versions
  <2>8. Versions'
    BY <1>1, <2>1, <2>3, <2>5, <2>7 DEF Knows, Versions
  <2>9. Completes(podCache)' /\ Completes(p)' /\ Backed(build)' /\ Backed(buildCache)'
    BY <1>1, <2>1, KnowledgeStays DEF Knows
  <2> QED
    BY <2>6, <2>8, <2>9 DEF Knows
<1> QED
  BY <1>2, <1>3

\* A written status is that of a Build the reconcile had in its current version.
LEMMA KnowsUpdateStatus ==
    ASSUME TypeOK, Knows, UpdateStatus,
           registry \subseteq registry', attested \subseteq attested'
    PROVE  Knows'
<1>1. Drop /\ UNCHANGED <<buildCache, podCache>>
  BY DEF UpdateStatus, Idle, Failed, AnswerLost, caches
<1>2. CASE UNCHANGED build
  BY <1>1, <1>2, KnowsDrop
<1>3. CASE ~UNCHANGED build
  <2>1. build' = [b EXCEPT !.ver = build.ver + 1]
    BY <1>3 DEF UpdateStatus
  <2>2. b \in BuildObjects /\ build.ver \in Nat /\ buildCache.ver \in Nat
    BY DEF TypeOK, BuildObjects
  <2>3. /\ build'.ver = build.ver + 1 /\ build'.condition = b.condition
        /\ build'.image = b.image /\ build'.attestation = b.attestation
    BY <2>1, <2>2 DEF BuildObjects
  <2>4. Backed(build)'
    BY <2>3 DEF Knows, Backed
  <2>5. pc' = "idle" /\ b'.condition = "Unknown" /\ p' = NoPod
    BY <1>1, DropType
  <2>6. buildCache'.ver < build'.ver
    BY <1>1, <2>2, <2>3 DEF Knows, Versions
  <2>7. Versions'
    BY <2>2, <2>3, <2>5, <2>6, <1>1 DEF Versions
  <2>8. Completes(podCache)' /\ Completes(p)' /\ Backed(buildCache)' /\ Backed(b)'
    BY <1>1, <2>5, KnowledgeStays DEF Knows
  <2> QED
    BY <2>4, <2>7, <2>8 DEF Knows
<1> QED
  BY <1>2, <1>3

LEMMA KnowsStep ==
    ASSUME TypeOK, NodeInv, Knows, [Next]_vars
    PROVE  Knows'
<1> USE DEF api, caches, local
<1>1. registry \subseteq registry' /\ attested \subseteq attested'
  BY ImagesStay
<1>2. Completes(pod) /\ Completes(pod)'
  <2>1. TypeOK' /\ NodeInv'
    BY TypeStep, NodeStep
  <2> QED
    BY <2>1, CompletedIsPushed, PTL
<1>3. CASE SyncBuild
  <2>1. buildCache' = build /\ UNCHANGED <<build, podCache, pc, b, p>>
    BY <1>3 DEF SyncBuild
  <2>2. Versions'
    BY <2>1 DEF Knows, Versions, TypeOK, BuildObjects
  <2>3. /\ Completes(podCache)' /\ Completes(p)'
        /\ Backed(build)' /\ Backed(buildCache)' /\ Backed(b)'
    BY <1>1, <2>1, KnowledgeStays DEF Knows
  <2> QED
    BY <2>2, <2>3 DEF Knows
<1>4. CASE SyncPod
  <2>1. podCache' = pod /\ UNCHANGED <<build, buildCache, pc, b, p>>
    BY <1>4 DEF SyncPod
  <2>2. Versions'
    BY <2>1 DEF Knows, Versions
  <2>3. Completes(podCache)'
    BY <1>1, <1>2, <2>1 DEF Completes
  <2>4. Completes(p)' /\ Backed(build)' /\ Backed(buildCache)' /\ Backed(b)'
    BY <1>1, <2>1, KnowledgeStays DEF Knows
  <2> QED
    BY <2>2, <2>3, <2>4 DEF Knows
<1>5. CASE StartReconcile
  <2>1. UNCHANGED <<build, buildCache, podCache>> /\ pc = "idle"
    BY <1>5 DEF StartReconcile
  <2>2. CASE Finished(buildCache)
    <3>1. UNCHANGED <<pc, b, p>>
      BY <1>5, <2>2 DEF StartReconcile
    <3> QED
      BY <1>1, <2>1, <3>1, KnowsUnchanged
  <2>3. CASE ~Finished(buildCache)
    <3>1. b' = buildCache /\ p' = podCache /\ pc' # "status" /\ b'.condition = "Unknown"
      BY <1>5, <2>3 DEF StartReconcile, AfterPod, Finished
    <3>2. Versions'
      BY <2>1, <3>1 DEF Knows, Versions
    <3>3. /\ Completes(podCache)' /\ Completes(p)'
          /\ Backed(build)' /\ Backed(buildCache)' /\ Backed(b)'
      BY <1>1, <2>1, <3>1, KnowledgeStays DEF Knows
    <3> QED
      BY <3>2, <3>3 DEF Knows
  <2> QED
    BY <2>2, <2>3
<1>6. CASE PermanentError
  <2>1. /\ UNCHANGED <<build, buildCache, podCache, p>> /\ pc = "create" /\ pc' = "status"
        /\ b' = [b EXCEPT !.condition = "False"]
    BY <1>6 DEF PermanentError
  <2>2. b'.ver = b.ver /\ b'.image = b.image /\ b'.condition = "False"
    BY <2>1 DEF TypeOK, BuildObjects
  <2>3. b.condition = "Unknown"
    BY <2>1 DEF Knows, Versions
  <2>4. Versions'
    BY <2>1, <2>2, <2>3 DEF Knows, Versions
  <2>5. /\ Completes(podCache)' /\ Completes(p)'
        /\ Backed(build)' /\ Backed(buildCache)' /\ Backed(b)'
    BY <1>1, <2>1, <2>2, KnowledgeStays DEF Knows
  <2> QED
    BY <2>4, <2>5 DEF Knows
<1>7. CASE CreatePod
  <2>1. UNCHANGED <<build, buildCache, podCache>> /\ pc = "create"
    BY <1>7 DEF CreatePod
  <2>2. CASE Drop
    BY <1>1, <2>1, <2>2, KnowsDrop
  <2>3. CASE ~Drop
    <3>1. UNCHANGED b /\ p' = pod' /\ pc' \notin {"idle", "status"}
      BY <1>7, <2>3 DEF CreatePod, Failed, AnswerLost, Goto, AfterPod
    <3> QED
      BY <1>1, <1>2, <2>1, <3>1, KnowsGoto
  <2> QED
    BY <2>2, <2>3
<1>8. CASE SetBuildReady \/ CleanupIfNeeded
  <2>1. UNCHANGED <<build, buildCache, podCache>> /\ pc \notin {"idle", "status"}
    BY <1>8 DEF SetBuildReady, CleanupIfNeeded
  <2>2. CASE Drop
    BY <1>1, <2>1, <2>2, KnowsDrop
  <2>3. CASE ~Drop
    <3>1. UNCHANGED b /\ (p' = p \/ p' = pod') /\ pc' \notin {"idle", "status"}
      BY <1>8, <2>3 DEF SetBuildReady, CleanupIfNeeded, Patch, Failed, AnswerLost, Goto
    <3> QED
      BY <1>1, <1>2, <2>1, <3>1, KnowsGoto
  <2> QED
    BY <2>2, <2>3
<1>9. CASE ReadPod
  BY <1>1, <1>9, KnowsReadPod
<1>10. CASE UpdateStatus
  BY <1>1, <1>10, KnowsUpdateStatus
<1>11. CASE CallFails
  <2>1. Drop /\ UNCHANGED <<build, buildCache, podCache>>
    BY <1>11 DEF CallFails, Failed
  <2> QED
    BY <1>1, <2>1, KnowsDrop
<1>12. CASE Crash
  <2>1. Drop /\ UNCHANGED build /\ buildCache' = build /\ podCache' = pod
    BY <1>12 DEF Crash, Failed
  <2>2. pc' = "idle" /\ b'.condition = "Unknown" /\ p' = NoPod
    BY <2>1, DropType
  <2>3. Versions'
    BY <2>1, <2>2 DEF Versions, TypeOK, BuildObjects
  <2>4. Completes(podCache)'
    BY <1>1, <1>2, <2>1 DEF Completes
  <2>5. Completes(p)' /\ Backed(build)' /\ Backed(buildCache)' /\ Backed(b)'
    BY <1>1, <2>1, <2>2, KnowledgeStays DEF Knows
  <2> QED
    BY <2>3, <2>4, <2>5 DEF Knows
<1>13. CASE RefreshDownward \/ Deadline \/ DeletePod
  <2>1. UNCHANGED <<build, buildCache, podCache, pc, b, p>>
    BY <1>13 DEF RefreshDownward, Deadline, DeletePod, OfTheNode
  <2> QED
    BY <1>1, <2>1, KnowsUnchanged
<1>14. ASSUME NEW s \in Sidecars, StartSidecar(s) \/ EndSidecar(s)
       PROVE  Knows'
  <2>1. UNCHANGED <<build, buildCache, podCache, pc, b, p>>
    BY <1>14 DEF StartSidecar, EndSidecar, OfTheNode
  <2> QED
    BY <1>1, <2>1, KnowsUnchanged
<1>15. ASSUME NEW i \in Steps,
              StartContainer(i) \/ RunStep(i) \/ StepSucceeds(i) \/ WaiterExits(i)
                \/ StepFails(i) \/ WatchForErrors(i) \/ KillStep(i)
       PROVE  Knows'
  <2>1. UNCHANGED <<build, buildCache, podCache, pc, b, p>>
    BY <1>15 DEF StartContainer, RunStep, StepSucceeds, WaiterExits, StepFails,
                 WatchForErrors, KillStep, OfTheNode
  <2> QED
    BY <1>1, <2>1, KnowsUnchanged
<1>16. CASE UNCHANGED vars
  <2>1. UNCHANGED <<build, buildCache, podCache, pc, b, p>>
    BY <1>16 DEF vars
  <2> QED
    BY <1>1, <2>1, KnowsUnchanged
<1> QED
  BY <1>3, <1>4, <1>5, <1>6, <1>7, <1>8, <1>9, <1>10, <1>11, <1>12, <1>13, <1>14, <1>15,
     <1>16 DEF Next

-----------------------------------------------------------------------------
(* The theorems. *)

LEMMA InvParts == IInv <=> TypeOK /\ NodeInv /\ Completes(pod) /\ Knows
  BY DEF IInv, NodeInv, Knows

\* The inductive invariant holds in every behaviour: what the pod has done, what the
\* controller knows of it, and which versions of the Build it works on agree,
\* whatever calls, answers, pods or restarts are lost.
THEOREM BuildInvariant == Spec => []IInv
<1>1. Init => IInv
  <2> SUFFICES ASSUME Init PROVE IInv
    OBVIOUS
  <2>1. TypeOK
    BY InitType
  <2>2. NodeInv
    BY DEF Init, NodeInv, StepsInOrder, PodRuns, Pushed
  <2>3. Knows
    BY NewBuildType DEF Init, Knows, Completes, Backed, Versions, NewBuild
  <2> QED
    BY <2>1, <2>2, <2>3, CompletedIsPushed, InvParts
<1>2. IInv /\ [Next]_vars => IInv'
  <2> SUFFICES ASSUME IInv, [Next]_vars PROVE IInv'
    OBVIOUS
  <2>1. TypeOK /\ NodeInv /\ Knows
    BY InvParts
  <2>2. TypeOK' /\ NodeInv' /\ Knows'
    BY <2>1, TypeStep, NodeStep, KnowsStep
  <2>3. Completes(pod)'
    BY <2>2, CompletedIsPushed, PTL
  <2> QED
    BY <2>2, <2>3, InvParts, PTL
<1> QED
  BY <1>1, <1>2, PTL DEF Spec

\* The steps of a build run one after the other, each after the success of the one
\* before, for any number of steps (build-waiter and init containers alike).
THEOREM OrderOfSteps == Spec => []StepsInOrder
<1>1. IInv => StepsInOrder
  BY DEF IInv
<1> QED
  BY <1>1, BuildInvariant, PTL

\* A reported success is backed by an image in the registry and its attestation.
THEOREM SuccessBacked == Spec => []SuccessIsBacked
<1>1. IInv => SuccessIsBacked
  BY DEF IInv, Backed, SuccessIsBacked
<1> QED
  BY <1>1, BuildInvariant, PTL

\* Only updateStatus (build.go:362) changes the Build, and only forward.
LEMMA OutcomeUpdate ==
    ASSUME IInv, UpdateStatus, build' # build
    PROVE  Outcome!Succeed \/ Outcome!Fail \/ UNCHANGED <<build.condition, build.image, registry>>
<1>1. /\ ~Conflict /\ pc = "status" /\ UNCHANGED registry
      /\ build' = [b EXCEPT !.ver = build.ver + 1]
  BY DEF UpdateStatus, images
<1>2. b \in BuildObjects /\ Backed(b) /\ Versions
  BY DEF IInv, TypeOK
<1>3. build'.condition = b.condition /\ build'.image = b.image
  BY <1>1, <1>2 DEF BuildObjects
<1>4. build.condition = "Unknown" /\ (b.condition # "True" => b.image = build.image)
  BY <1>1, <1>2 DEF Versions, Conflict
<1>5. b.condition \in Conditions
  BY <1>2 DEF BuildObjects
<1>6. CASE b.condition = "True"
  BY <1>1, <1>2, <1>3, <1>4, <1>6 DEF Backed, Outcome!Succeed
<1>7. CASE b.condition = "False"
  BY <1>1, <1>3, <1>4, <1>7 DEF Outcome!Fail
<1>8. CASE b.condition = "Unknown"
  BY <1>1, <1>3, <1>4, <1>8
<1> QED
  BY <1>5, <1>6, <1>7, <1>8 DEF Conditions

LEMMA OnlyUpdateStatusChangesBuild ==
    ASSUME [Next]_vars, ~UpdateStatus PROVE build' = build
<1> USE DEF api, caches, OfTheNode
<1>1. ASSUME SyncBuild \/ SyncPod \/ StartReconcile \/ PermanentError \/ CreatePod
      PROVE  build' = build
  BY <1>1 DEF SyncBuild, SyncPod, StartReconcile, PermanentError, CreatePod
<1>2. ASSUME SetBuildReady \/ CleanupIfNeeded \/ ReadPod \/ CallFails \/ Crash
      PROVE  build' = build
  BY <1>2 DEF SetBuildReady, CleanupIfNeeded, ReadPod, CallFails, Crash
<1>3. ASSUME RefreshDownward \/ Deadline \/ DeletePod PROVE build' = build
  BY <1>3 DEF RefreshDownward, Deadline, DeletePod
<1>4. ASSUME NEW s \in Sidecars, StartSidecar(s) \/ EndSidecar(s) PROVE build' = build
  BY <1>4 DEF StartSidecar, EndSidecar
<1>5. ASSUME NEW i \in Steps,
             StartContainer(i) \/ RunStep(i) \/ StepSucceeds(i) \/ WaiterExits(i)
               \/ StepFails(i) \/ WatchForErrors(i) \/ KillStep(i)
      PROVE  build' = build
  BY <1>5 DEF StartContainer, RunStep, StepSucceeds, WaiterExits, StepFails,
              WatchForErrors, KillStep
<1>6. CASE UNCHANGED vars
  BY <1>6 DEF vars
<1> QED
  BY <1>1, <1>2, <1>3, <1>4, <1>5, <1>6 DEF Next

\* The reconciler with its caches, lost calls and restarts implements BuildOutcome: a
\* Build ends once, and its success names an image pushed before.
THEOREM Refinement == Spec => ImplementsBuildOutcome
<1>1. Init => Outcome!Init
  BY DEF Init, Outcome!Init, NewBuild
<1>2. IInv /\ [Next]_vars => [Outcome!Next]_<<build.condition, build.image, registry>>
  <2> SUFFICES ASSUME IInv, [Next]_vars
               PROVE  [Outcome!Next]_<<build.condition, build.image, registry>>
    OBVIOUS
  <2>1. CASE build' = build
    <3>1. registry \subseteq registry'
      BY ImagesStay
    <3> QED
      BY <2>1, <3>1 DEF Outcome!Next, Outcome!Push
  <2>2. CASE build' # build
    <3>1. UpdateStatus
      BY <2>2, OnlyUpdateStatusChangesBuild
    <3> QED
      BY <2>2, <3>1, OutcomeUpdate DEF Outcome!Next
  <2> QED
    BY <2>1, <2>2
<1> QED
  BY <1>1, <1>2, BuildInvariant, PTL DEF Spec, Outcome!Spec, ImplementsBuildOutcome

-----------------------------------------------------------------------------
(* What the copies of a pod say of the pod. *)

\* Two copies of a pod with the same containers and the same end.
Same(q, r) == r.step = q.step /\ r.sidecar = q.sidecar /\ r.reason = q.reason

\* How a pod goes on: a sidecar that was started stays so, and a pod that has ended
\* does not change any more.
Grows(q, r) ==
    /\ \A s \in Sidecars : q.sidecar[s] # "waiting" => r.sidecar[s] # "waiting"
    /\ Ended(q) => Same(q, r)

\* The copy q is of a pod before r, or of r at an earlier time.
Precedes(q, r) == \/ q = NoPod \/ q.uid < r.uid
                  \/ q.uid = r.uid /\ Grows(q, r)

\* The controller's copies precede the pod, of which there is the last one created.
CopyInv ==
    /\ podCache.uid <= created /\ p.uid <= created /\ pod.uid <= created
    /\ pod # NoPod => pod.uid = created /\ Precedes(podCache, pod) /\ Precedes(p, pod)

\* The phase depends on the containers and the reason alone.
LEMMA SamePhase ==
    ASSUME NEW q, NEW r, Same(q, r)
    PROVE  /\ Ended(r) = Ended(q) /\ ConditionForPod(r) = ConditionForPod(q)
<1>1. InitStates(r) = InitStates(q) /\ ContainerStates(r) = ContainerStates(q)
  BY DEF Same, InitStates, ContainerStates
<1>2. Phase(r) = Phase(q)
  BY <1>1 DEF Phase, Same
<1>3. StepsCompleted(r) = StepsCompleted(q)
  BY DEF Same, StepsCompleted
<1> QED
  BY <1>2, <1>3 DEF Ended, ConditionForPod, Same

LEMMA GrowsSelf == ASSUME NEW q PROVE Grows(q, q)
  BY DEF Grows, Same

LEMMA GrowsOn ==
    ASSUME NEW q, NEW r, NEW t, Grows(q, r), Grows(r, t) PROVE Grows(q, t)
<1>1. ASSUME Ended(q) PROVE Same(q, t)
  <2>1. Same(q, r)
    BY <1>1 DEF Grows
  <2>2. Ended(r)
    BY <1>1, <2>1, SamePhase
  <2> QED
    BY <2>1, <2>2 DEF Grows, Same
<1> QED
  BY <1>1 DEF Grows

LEMMA PodUid == ASSUME NEW q \in Pods \cup {NoPod} PROVE q.uid \in Nat
<1>1. CASE q \in Pods
  BY <1>1 DEF Pods
<1>2. CASE q = NoPod
  BY <1>2 DEF NoPod
<1> QED
  BY <1>1, <1>2

LEMMA PrecedesOn ==
    ASSUME NEW q \in Pods \cup {NoPod}, NEW r \in Pods, NEW t \in Pods,
           Precedes(q, r), t.uid = r.uid, Grows(r, t)
    PROVE  Precedes(q, t)
  BY GrowsOn DEF Precedes

\* What a step makes of the pod: nothing, another state of it, its end, or, where
\* there was none, the next one.
PodMove ==
    \/ pod' = pod /\ created' = created
    \/ /\ pod \in Pods /\ pod' \in Pods /\ created' = created
       /\ pod'.uid = pod.uid /\ Grows(pod, pod')
    \/ DeletePod /\ pod' = NoPod /\ created' = created
    \/ /\ CreatePod /\ pod = NoPod /\ pod' \in Pods
       /\ created' = created + 1 /\ pod'.uid = created + 1

\* A patch of the annotation or the deadline.
LEMMA PatchMove ==
    ASSUME pod \in Pods, NEW v,
           \/ pod' = [pod EXCEPT !.ready = v] \/ pod' = [pod EXCEPT !.deadline = v]
    PROVE  pod'.uid = pod.uid /\ Grows(pod, pod') /\ Same(pod, pod')
<1>1. pod'.uid = pod.uid /\ Same(pod, pod')
  BY DEF Pods, Same
<1> QED
  BY <1>1 DEF Grows, Same

\* A change of a pod that lives, of which no sidecar goes back to its start.
LEMMA LiveMove ==
    ASSUME PodLives, NEW q,
           \A s \in Sidecars : pod.sidecar[s] # "waiting" => q.sidecar[s] # "waiting"
    PROVE  Grows(pod, q)
  BY DEF PodLives, Grows

LEMMA SidecarMove ==
    ASSUME pod \in Pods, NEW s \in Sidecars, NEW state \in States \ {"waiting"}
    PROVE  /\ [pod EXCEPT !.sidecar[s] = state].uid = pod.uid
           /\ \A t \in Sidecars : pod.sidecar[t] # "waiting"
                => [pod EXCEPT !.sidecar[s] = state].sidecar[t] # "waiting"
  BY DEF Pods

LEMMA PodMoves == ASSUME TypeOK, TypeOK', PodRuns, [Next]_vars PROVE PodMove
<1> USE DEF api, caches, OfTheNode
<1>1. ASSUME SyncBuild \/ SyncPod \/ StartReconcile \/ PermanentError \/ ReadPod \/ UpdateStatus
      PROVE  PodMove
  BY <1>1 DEF SyncBuild, SyncPod, StartReconcile, PermanentError, ReadPod, UpdateStatus, PodMove
<1>2. ASSUME CallFails \/ Crash \/ RefreshDownward PROVE PodMove
  BY <1>2 DEF CallFails, Crash, RefreshDownward, PodMove
<1>3. CASE CreatePod
  <2>1. CASE pod # NoPod
    BY <1>3, <2>1 DEF CreatePod, PodMove
  <2>2. CASE pod = NoPod
    <3>1. created \in Nat /\ pod' = NewPod(created + 1) /\ created' = created + 1
      BY <1>3, <2>2 DEF CreatePod, TypeOK
    <3>2. pod' \in Pods
      BY <3>1, NewPodType
    <3>3. pod'.uid = created + 1
      BY <3>1 DEF NewPod
    <3> QED
      BY <1>3, <2>2, <3>1, <3>2, <3>3 DEF PodMove
  <2> QED
    BY <2>1, <2>2
<1>4. CASE SetBuildReady \/ CleanupIfNeeded
  <2>1. created' = created
    BY <1>4 DEF SetBuildReady, CleanupIfNeeded
  <2>2. \/ pod' = pod
        \/ pod # NoPod /\ pod' = [pod EXCEPT !.ready = TRUE]
        \/ pod # NoPod /\ pod' = [pod EXCEPT !.deadline = "now"]
    BY <1>4 DEF SetBuildReady, CleanupIfNeeded, Patch
  <2>3. CASE pod' # pod
    <3>1. pod \in Pods /\ pod' # NoPod
      <4>1. pod \in Pods
        BY <2>2, <2>3 DEF TypeOK
      <4>2. pod'.uid = pod.uid
        BY <2>2, <2>3, <4>1, PatchMove
      <4> QED
        BY <4>1, <4>2, PodIsThere DEF NoPod
    <3>2. pod' \in Pods
      BY <3>1 DEF TypeOK
    <3>3. pod'.uid = pod.uid /\ Grows(pod, pod')
      BY <2>2, <2>3, <3>1, PatchMove
    <3> QED
      BY <2>1, <3>1, <3>2, <3>3 DEF PodMove
  <2> QED
    BY <2>1, <2>3 DEF PodMove
<1>5. ASSUME NEW s \in Sidecars, StartSidecar(s) \/ EndSidecar(s) PROVE PodMove
  <2>1. PodLives /\ created' = created /\ pod \in Pods
    BY <1>5 DEF StartSidecar, EndSidecar, PodLives, TypeOK
  <2>2. PICK state \in States \ {"waiting"} : pod' = [pod EXCEPT !.sidecar[s] = state]
    BY <1>5 DEF StartSidecar, EndSidecar, States
  <2>3. /\ pod'.uid = pod.uid
        /\ \A t \in Sidecars : pod.sidecar[t] # "waiting" => pod'.sidecar[t] # "waiting"
    BY <2>1, <2>2, SidecarMove
  <2>4. Grows(pod, pod')
    BY <2>1, <2>3, LiveMove
  <2>5. pod' \in Pods
    BY <2>1, <2>3, PodIsThere DEF TypeOK, NoPod
  <2> QED
    BY <2>1, <2>3, <2>4, <2>5 DEF PodMove
<1>6. ASSUME NEW i \in Steps,
             StartContainer(i) \/ StepFails(i) \/ WatchForErrors(i) \/ KillStep(i)
      PROVE  PodMove
  <2>1. PodLives /\ created' = created /\ pod \in Pods
    BY <1>6 DEF StartContainer, StepFails, WatchForErrors, KillStep, PodLives, TypeOK
  <2>2. PICK state \in States : pod' = [pod EXCEPT !.step[i] = state]
    BY <1>6 DEF StartContainer, StepFails, WatchForErrors, KillStep, SetStep, States
  <2>3. pod' \in Pods /\ pod'.uid = pod.uid /\ pod'.sidecar = pod.sidecar
    BY <2>1, <2>2, StepType
  <2> QED
    BY <2>1, <2>3, LiveMove DEF PodMove
<1>7. ASSUME NEW i \in Steps, StepSucceeds(i) \/ WaiterExits(i) \/ RunStep(i) PROVE PodMove
  <2>1. PodLives /\ created' = created /\ pod \in Pods
    BY <1>7 DEF StepSucceeds, WaiterExits, RunStep, PodLives, TypeOK
  <2>2. CASE pod' = pod
    BY <2>1, <2>2 DEF PodMove
  <2>3. CASE pod' # pod
    <3>1. PICK m \in {"metadata", "cut"} : EndContainer(i, m)
      BY <1>7, <2>3 DEF StepSucceeds, WaiterExits, RunStep
    <3>2. pod' \in Pods /\ pod'.uid = pod.uid /\ pod'.sidecar = pod.sidecar
      BY <2>1, <3>1, EndType
    <3> QED
      BY <2>1, <3>2, LiveMove DEF PodMove
  <2> QED
    BY <2>2, <2>3
<1>8. CASE Deadline
  <2>1. PodLives /\ created' = created /\ pod \in Pods
    BY <1>8 DEF Deadline, PodLives, TypeOK
  <2>2. /\ pod' \in Pods /\ pod'.uid = pod.uid
        /\ \A s \in Sidecars : pod'.sidecar[s] = Killed(pod.sidecar[s])
    BY <1>8, <2>1, DeadlineType
  <2>3. \A s \in Sidecars : pod.sidecar[s] # "waiting" => pod'.sidecar[s] # "waiting"
    BY <2>2 DEF Killed
  <2> QED
    BY <2>1, <2>2, <2>3, LiveMove DEF PodMove
<1>9. CASE DeletePod
  BY <1>9 DEF DeletePod, PodMove
<1>10. CASE UNCHANGED vars
  BY <1>10 DEF vars, PodMove
<1> QED
  BY <1>1, <1>2, <1>3, <1>4, <1>5, <1>6, <1>7, <1>8, <1>9, <1>10 DEF Next

\* What a step makes of the copies: it keeps them, renews the informer's, or gives the
\* reconcile the informer's copy, the answer of the API server or none.
CopyMove ==
    /\ podCache' = podCache \/ (podCache' = pod /\ pod' = pod)
    /\ p' \in {p, podCache, NoPod, pod'}

LEMMA CopyMoves == ASSUME [Next]_vars PROVE CopyMove
<1> USE DEF api, caches, local, OfTheNode, Drop, Idle, Failed, Goto, AnswerLost
<1>1. ASSUME SyncBuild \/ SyncPod \/ StartReconcile \/ PermanentError PROVE CopyMove
  BY <1>1 DEF SyncBuild, SyncPod, StartReconcile, PermanentError, CopyMove
<1>2. CASE CreatePod
  <2>1. podCache' = podCache
    BY <1>2 DEF CreatePod
  <2>2. p' = NoPod \/ p' = pod'
    <3>1. CASE pod # NoPod
      BY <1>2, <3>1 DEF CreatePod
    <3>2. CASE pod = NoPod
      BY <1>2, <3>2 DEF CreatePod
    <3> QED
      BY <3>1, <3>2
  <2> QED
    BY <2>1, <2>2 DEF CopyMove
<1>8. CASE ReadPod
  <2>1. podCache' = podCache /\ (p' = p \/ p' = NoPod)
    BY <1>8 DEF ReadPod
  <2> QED
    BY <2>1 DEF CopyMove
<1>9. CASE UpdateStatus
  <2>1. podCache' = podCache /\ p' = NoPod
    BY <1>9 DEF UpdateStatus
  <2> QED
    BY <2>1 DEF CopyMove
<1>3. ASSUME SetBuildReady \/ CleanupIfNeeded PROVE CopyMove
  BY <1>3 DEF SetBuildReady, CleanupIfNeeded, Patch, CopyMove
<1>4. ASSUME CallFails \/ Crash \/ RefreshDownward \/ Deadline \/ DeletePod PROVE CopyMove
  BY <1>4 DEF CallFails, Crash, RefreshDownward, Deadline, DeletePod, CopyMove
<1>5. ASSUME NEW s \in Sidecars, StartSidecar(s) \/ EndSidecar(s) PROVE CopyMove
  BY <1>5 DEF StartSidecar, EndSidecar, CopyMove
<1>6. ASSUME NEW i \in Steps,
             StartContainer(i) \/ RunStep(i) \/ StepSucceeds(i) \/ WaiterExits(i)
               \/ StepFails(i) \/ WatchForErrors(i) \/ KillStep(i)
      PROVE  CopyMove
  BY <1>6 DEF StartContainer, RunStep, StepSucceeds, WaiterExits, StepFails,
              WatchForErrors, KillStep, CopyMove
<1>7. CASE UNCHANGED vars
  BY <1>7 DEF vars, CopyMove
<1> QED
  BY <1>1, <1>2, <1>3, <1>4, <1>5, <1>6, <1>7, <1>8, <1>9 DEF Next

\* A copy that precedes the pod precedes what a step makes of it.
LEMMA CopyStays ==
    ASSUME TypeOK, TypeOK', CopyInv, PodMove,
           NEW q \in Pods \cup {NoPod}, q.uid <= created, pod # NoPod => Precedes(q, pod)
    PROVE  q.uid <= created' /\ (pod' # NoPod => Precedes(q, pod'))
<1>1. created \in Nat /\ q.uid \in Nat
  BY PodUid DEF TypeOK
<1>2. CASE pod' = pod /\ created' = created
  BY <1>2
<1>3. CASE /\ pod \in Pods /\ pod' \in Pods /\ created' = created
           /\ pod'.uid = pod.uid /\ Grows(pod, pod')
  BY <1>3, PrecedesOn, PodIsThere
<1>4. CASE DeletePod /\ pod' = NoPod /\ created' = created
  BY <1>4
<1>5. CASE /\ CreatePod /\ pod = NoPod /\ pod' \in Pods
           /\ created' = created + 1 /\ pod'.uid = created + 1
  <2>1. q.uid < created + 1 /\ q.uid <= created + 1
    BY <1>1
  <2> QED
    BY <1>5, <2>1 DEF Precedes
<1> QED
  BY <1>2, <1>3, <1>4, <1>5 DEF PodMove

LEMMA CopyStep == ASSUME IInv, TypeOK', CopyInv, [Next]_vars PROVE CopyInv'
<1>1. PodMove /\ CopyMove /\ TypeOK
  BY PodMoves, CopyMoves DEF IInv
<1>2. /\ pod \in Pods \cup {NoPod} /\ podCache \in Pods \cup {NoPod} /\ p \in Pods \cup {NoPod}
      /\ pod' \in Pods \cup {NoPod} /\ created \in Nat
  BY <1>1 DEF TypeOK
<1>3. NoPod.uid = 0 /\ Precedes(NoPod, pod')
  BY DEF NoPod, Precedes
<1>4. pod'.uid <= created' /\ (pod' # NoPod => pod'.uid = created')
  <2>1. created' \in Nat
    BY DEF TypeOK
  <2> QED
    BY <1>1, <1>2, <1>3, <2>1, PodIsThere DEF PodMove, CopyInv
<1>5. Precedes(pod', pod')
  BY GrowsSelf DEF Precedes
<1>6. podCache.uid <= created' /\ (pod' # NoPod => Precedes(podCache, pod'))
  BY <1>1, <1>2, CopyStays DEF CopyInv
<1>7. p.uid <= created' /\ (pod' # NoPod => Precedes(p, pod'))
  BY <1>1, <1>2, CopyStays DEF CopyInv
<1>8. podCache'.uid <= created' /\ (pod' # NoPod => Precedes(podCache', pod'))
  BY <1>1, <1>4, <1>5, <1>6 DEF CopyMove
<1>9. 0 <= created'
  BY DEF TypeOK
<1>10. p'.uid <= created' /\ (pod' # NoPod => Precedes(p', pod'))
  BY <1>1, <1>3, <1>4, <1>5, <1>6, <1>7, <1>9 DEF CopyMove
<1> QED
  BY <1>4, <1>8, <1>10 DEF CopyInv

-----------------------------------------------------------------------------
(* Steps wait for the sidecars. *)

SidecarsRun == \A s \in Sidecars : pod.sidecar[s] # "waiting"

\* The annotation is there, or its file, or a step that waited for it.
Started == \/ pod.ready \/ readyFile
           \/ InjectedSidecarSupport /\ executing \cup succeeded # {}

\* The file of the annotation goes with its pod, and of the only pod of a Build the
\* annotation was patched when all sidecars ran.
SidecarInv ==
    /\ pod = NoPod => ~readyFile
    /\ created <= 1 /\ pod # NoPod /\ Started => SidecarsRun

\* The copy that setBuildReady looks at is one of the pod it patches, if there was no
\* other pod.
LEMMA ReadyIsOfThePod ==
    ASSUME TypeOK, CopyInv, pod \in Pods, created <= 1, p \in Pods, NeedsReady(p)
    PROVE  SidecarsRun
<1>1. p.uid \in Nat \ {0} /\ pod.uid \in Nat \ {0} /\ created \in Nat
  BY DEF TypeOK, Pods
<1>2. p.uid = pod.uid /\ p # NoPod /\ Precedes(p, pod)
  BY <1>1, PodIsThere DEF CopyInv
<1>3. Grows(p, pod)
  BY <1>1, <1>2 DEF Precedes
<1>4. ASSUME NEW s \in Sidecars PROVE p.sidecar[s] # "waiting"
  BY DEF NeedsReady, AllContainersReady, ContainerStates
<1> QED
  BY <1>3, <1>4 DEF Grows, SidecarsRun

\* Only setBuildReady sets the annotation.
LEMMA AnnotationStays ==
    ASSUME TypeOK, [Next]_vars, ~SetBuildReady, pod \in Pods, pod' \in Pods
    PROVE  pod'.ready = pod.ready
<1> USE DEF api, OfTheNode
<1>1. ASSUME SyncBuild \/ SyncPod \/ StartReconcile \/ PermanentError \/ ReadPod \/ UpdateStatus
      PROVE  pod' = pod
  BY <1>1 DEF SyncBuild, SyncPod, StartReconcile, PermanentError, ReadPod, UpdateStatus
<1>2. ASSUME CallFails \/ Crash \/ RefreshDownward \/ CreatePod PROVE pod' = pod
  BY <1>2, PodIsThere DEF CallFails, Crash, RefreshDownward, CreatePod
<1>3. CASE CleanupIfNeeded
  <2>1. pod' = pod \/ pod' = [pod EXCEPT !.deadline = "now"]
    BY <1>3 DEF CleanupIfNeeded, Patch
  <2> QED
    BY <2>1 DEF Pods
<1>4. ASSUME NEW s \in Sidecars, StartSidecar(s) \/ EndSidecar(s) PROVE pod'.ready = pod.ready
  <2>1. PICK state \in States : pod' = [pod EXCEPT !.sidecar[s] = state]
    BY <1>4 DEF StartSidecar, EndSidecar, States
  <2> QED
    BY <2>1 DEF Pods
<1>5. ASSUME NEW i \in Steps,
             StartContainer(i) \/ StepFails(i) \/ WatchForErrors(i) \/ KillStep(i)
      PROVE  pod'.ready = pod.ready
  <2>1. PICK state \in States : pod' = [pod EXCEPT !.step[i] = state]
    BY <1>5 DEF StartContainer, StepFails, WatchForErrors, KillStep, SetStep, States
  <2> QED
    BY <2>1 DEF Pods
<1>6. ASSUME NEW i \in Steps, StepSucceeds(i) \/ WaiterExits(i) \/ RunStep(i)
      PROVE  pod'.ready = pod.ready
  <2>1. pod' = pod \/ \E m \in {"metadata", "cut"} : EndContainer(i, m)
    BY <1>6 DEF StepSucceeds, WaiterExits, RunStep
  <2> QED
    BY <2>1 DEF Pods, EndContainer
<1>7. CASE Deadline
  BY <1>7 DEF Deadline, Pods
<1>8. CASE DeletePod
  BY <1>8, PodIsThere DEF DeletePod
<1>9. CASE UNCHANGED vars
  BY <1>9 DEF vars
<1> QED
  BY <1>1, <1>2, <1>3, <1>4, <1>5, <1>6, <1>7, <1>8, <1>9 DEF Next

\* Steps run, and the file appears, only after the annotation.
LEMMA FilesStay ==
    ASSUME TypeOK, [Next]_vars
    PROVE  /\ readyFile' => readyFile \/ (pod # NoPod /\ pod.ready)
           /\ InjectedSidecarSupport /\ (executing \cup succeeded)' # {} => Started
<1> USE DEF node, OfTheNode, Started
<1>1. ASSUME SyncBuild \/ SyncPod \/ StartReconcile \/ PermanentError \/ ReadPod \/ UpdateStatus
      PROVE  UNCHANGED node
  BY <1>1 DEF SyncBuild, SyncPod, StartReconcile, PermanentError, ReadPod, UpdateStatus
<1>2. ASSUME CallFails \/ Crash \/ CreatePod \/ SetBuildReady \/ CleanupIfNeeded
      PROVE  UNCHANGED node
  BY <1>2 DEF CallFails, Crash, CreatePod, SetBuildReady, CleanupIfNeeded
<1>3. ASSUME NEW s \in Sidecars, StartSidecar(s) \/ EndSidecar(s) PROVE UNCHANGED node
  BY <1>3 DEF StartSidecar, EndSidecar
<1>4. CASE UNCHANGED vars
  BY <1>4 DEF vars
<1>5. CASE RefreshDownward \/ Deadline \/ DeletePod
  BY <1>5 DEF RefreshDownward, Deadline, DeletePod, PodLives
<1>6. ASSUME NEW i \in Steps,
             StartContainer(i) \/ StepFails(i) \/ WatchForErrors(i) \/ KillStep(i)
      PROVE  /\ readyFile' = readyFile /\ succeeded' = succeeded
             /\ InjectedSidecarSupport => executing' \subseteq executing
  BY <1>6 DEF StartContainer, StepFails, WatchForErrors, KillStep
<1>7. ASSUME NEW i \in Steps, StepSucceeds(i) \/ WaiterExits(i) \/ RunStep(i)
      PROVE  readyFile' = readyFile /\ (InjectedSidecarSupport => Started)
  BY <1>7 DEF StepSucceeds, WaiterExits, RunStep, WaitFile
<1>8. UNCHANGED node =>
        /\ readyFile' => readyFile \/ (pod # NoPod /\ pod.ready)
        /\ InjectedSidecarSupport /\ (executing \cup succeeded)' # {} => Started
  OBVIOUS
<1>9. ASSUME NEW i \in Steps,
             StartContainer(i) \/ StepFails(i) \/ WatchForErrors(i) \/ KillStep(i)
      PROVE  /\ readyFile' => readyFile \/ (pod # NoPod /\ pod.ready)
             /\ InjectedSidecarSupport /\ (executing \cup succeeded)' # {} => Started
  BY <1>6, <1>9
<1> QED
  BY <1>1, <1>2, <1>3, <1>4, <1>5, <1>7, <1>8, <1>9 DEF Next

LEMMA SidecarStep ==
    ASSUME IInv, TypeOK', CopyInv, SidecarInv, [Next]_vars PROVE SidecarInv'
<1>1. PodMove /\ TypeOK
  BY PodMoves DEF IInv
<1>2. CASE pod' \in Pods /\ pod \in Pods
  <2>1. pod # NoPod /\ pod' # NoPod /\ Grows(pod, pod') /\ created' = created
    BY <1>1, <1>2, PodIsThere, GrowsSelf DEF PodMove
  <2>2. SidecarsRun => SidecarsRun'
    BY <2>1 DEF Grows, SidecarsRun
  <2>3. ASSUME created' <= 1, Started' PROVE SidecarsRun
    <3>1. CASE Started
      BY <2>1, <2>3, <3>1 DEF SidecarInv
    <3>2. CASE ~Started
      <4>1. ~readyFile' /\ ~(InjectedSidecarSupport /\ (executing \cup succeeded)' # {})
        BY <1>1, <1>2, <3>2, FilesStay DEF Started
      <4>2. pod'.ready /\ ~pod.ready
        BY <2>3, <3>2, <4>1 DEF Started
      <4>3. SetBuildReady
        BY <1>1, <1>2, <4>2, AnnotationStays
      <4>4. pc = "ready" /\ NeedsReady(p)
        BY <4>2, <4>3 DEF SetBuildReady
      <4>5. p \in Pods
        BY <1>1, <4>4 DEF TypeOK
      <4> QED
        BY <1>1, <1>2, <2>1, <2>3, <4>4, <4>5, ReadyIsOfThePod
    <3> QED
      BY <3>1, <3>2
  <2> QED
    BY <2>1, <2>2, <2>3 DEF SidecarInv
<1>3. CASE pod' \in Pods /\ pod = NoPod
  <2>1. CreatePod
    BY <1>1, <1>3, PodIsThere DEF PodMove
  <2>2. UNCHANGED node /\ pod' = NewPod(created + 1)
    BY <1>3, <2>1 DEF CreatePod
  <2>3. executing = {} /\ succeeded = {} /\ ~readyFile
    BY <1>3 DEF SidecarInv, IInv, PodRuns
  <2>4. ~Started' /\ pod' # NoPod
    <3>1. pod'.ready = FALSE
      BY <2>2 DEF NewPod
    <3> QED
      BY <1>3, <2>2, <2>3, <3>1, PodIsThere DEF Started, node
  <2> QED
    BY <2>4 DEF SidecarInv
<1>4. CASE pod' = NoPod
  <2>1. CASE pod = NoPod
    <3>1. ~readyFile
      BY <2>1 DEF SidecarInv
    <3>2. ~readyFile'
      BY <1>1, <2>1, <3>1, FilesStay
    <3> QED
      BY <1>4, <3>2 DEF SidecarInv
  <2>2. CASE pod # NoPod
    <3>1. DeletePod
      BY <1>1, <1>4, <2>2, PodIsThere DEF PodMove
    <3> QED
      BY <1>4, <3>1 DEF DeletePod, SidecarInv
  <2> QED
    BY <2>1, <2>2
<1> QED
  BY <1>1, <1>2, <1>3, <1>4 DEF TypeOK

\* Where a Build has had one pod only, no step runs before every sidecar of it has
\* been started, for any number of steps and sidecars and all other faults.  A pod
\* that takes the place of a deleted one is marked ready by name (build.go:229), for
\* its predecessor's containers.
THEOREM SidecarsFirst == Spec => [](created <= 1 => StepsWaitForSidecars)
<1>1. Init => CopyInv /\ SidecarInv
  BY DEF Init, CopyInv, SidecarInv, NoPod
<1>2. IInv /\ IInv' /\ CopyInv /\ SidecarInv /\ [Next]_vars => CopyInv' /\ SidecarInv'
  <2> SUFFICES ASSUME IInv, IInv', CopyInv, SidecarInv, [Next]_vars PROVE CopyInv' /\ SidecarInv'
    OBVIOUS
  <2>1. TypeOK'
    BY DEF IInv
  <2> QED
    BY <2>1, CopyStep, SidecarStep
<1>3. IInv /\ SidecarInv => (created <= 1 => StepsWaitForSidecars)
  BY DEF IInv, PodRuns, SidecarInv, Started, SidecarsRun, StepsWaitForSidecars
<1> QED
  BY <1>1, <1>2, <1>3, BuildInvariant, PTL DEF Spec

-----------------------------------------------------------------------------
(* No event is lost. *)

\* The informer has seen the end of the pod.
SeenEnded == pod # NoPod /\ podCache.uid = pod.uid /\ Ended(podCache)

\* While no event waits in the queue, the reconcile in progress knows what the informer
\* knows, and one that leaves the Build unfinished has not seen the end of the pod.
SettleInv ==
    ~queued =>
        /\ pc # "idle" => Precedes(podCache, p)
        /\ pc = "status" /\ ~Finished(b) => p # NoPod /\ ~Ended(p)
        /\ pc = "idle" => Finished(buildCache) \/ buildCache.ver < build.ver \/ ~SeenEnded

LEMMA EndReading ==
    ASSUME NEW q \in Pods PROVE Ended(q) <=> ConditionForPod(q) # "Unknown"
<1>1. Phase(q) \in {"Pending", "Running", "Succeeded", "Failed"}
  BY DEF Phase
<1> QED
  BY <1>1 DEF Ended, ConditionForPod

\* A step of the node or the user, and one that queues the key.
LEMMA SettleUnchanged ==
    ASSUME SettleInv, PodMove, ~CreatePod,
           queued' \/ UNCHANGED <<build, buildCache, podCache, queued, pc, b, p>>
    PROVE  SettleInv'
<1>1. ASSUME ~queued', UNCHANGED <<build, buildCache, podCache, queued, pc, b, p>>
      PROVE  SeenEnded' => SeenEnded
  <2>1. pod' # NoPod => pod # NoPod /\ pod'.uid = pod.uid
    BY PodIsThere DEF PodMove
  <2> QED
    BY <1>1, <2>1 DEF SeenEnded
<1>2. Finished(buildCache) /\ UNCHANGED buildCache => Finished(buildCache')
  OBVIOUS
<1> QED
  BY <1>1, <1>2 DEF SettleInv

LEMMA SettleUpdateStatus ==
    ASSUME IInv, CopyInv, SettleInv, UpdateStatus, ~queued', PodMove PROVE SettleInv'
<1>1. ~queued /\ pc = "status" /\ pc' = "idle" /\ UNCHANGED <<pod, podCache, buildCache>>
  BY DEF UpdateStatus, Idle, Drop, Failed, AnswerLost, caches
<1>2. b \in BuildObjects /\ buildCache \in BuildObjects /\ build \in BuildObjects
  BY DEF IInv, TypeOK
<1>3. CASE StatusOf(b) = StatusOf(buildCache)
  <2>1. b.condition = buildCache.condition
    <3>1. StatusOf(b).condition = b.condition /\ StatusOf(buildCache).condition = buildCache.condition
      BY <1>2 DEF StatusOf, BuildObjects
    <3> QED
      BY <1>3, <3>1
  <2>2. CASE Finished(b)
    <3>1. Finished(buildCache')
      BY <1>1, <2>1, <2>2 DEF Finished
    <3> QED
      BY <1>1, <3>1 DEF SettleInv
  <2>3. CASE ~Finished(b)
    <3>1. p # NoPod /\ ~Ended(p) /\ Precedes(podCache, p)
      BY <1>1, <2>3 DEF SettleInv
    <3>2. ~SeenEnded
      <4> SUFFICES ASSUME SeenEnded PROVE FALSE
        OBVIOUS
      <4>1. pod # NoPod /\ podCache.uid = pod.uid /\ Ended(podCache) /\ Precedes(p, pod)
        BY DEF SeenEnded, CopyInv
      <4>2. p \in Pods /\ pod \in Pods /\ podCache \in Pods \cup {NoPod}
        BY <3>1, <4>1 DEF IInv, TypeOK
      <4>3. p.uid \in Nat /\ pod.uid \in Nat \ {0} /\ NoPod.uid = 0
        BY <4>2, PodUid DEF Pods, NoPod
      <4>4. p.uid <= pod.uid
        BY <3>1, <4>1, <4>3 DEF Precedes
      <4>5. podCache.uid = p.uid /\ Grows(podCache, p)
        BY <3>1, <4>1, <4>3, <4>4 DEF Precedes
      <4> QED
        BY <3>1, <4>1, <4>5, SamePhase DEF Grows
    <3>3. ~SeenEnded'
      BY <1>1, <3>2 DEF SeenEnded
    <3> QED
      BY <1>1, <3>3 DEF SettleInv
  <2> QED
    BY <2>2, <2>3
<1>4. CASE StatusOf(b) # StatusOf(buildCache)
  <2>1. build' = [b EXCEPT !.ver = build.ver + 1]
    BY <1>1, <1>4 DEF UpdateStatus, Failed
  <2>2. build'.ver = build.ver + 1
    BY <1>2, <2>1 DEF BuildObjects
  <2>3. build.ver \in Nat /\ buildCache.ver \in Nat
    BY <1>2 DEF BuildObjects
  <2>4. buildCache.ver <= build.ver
    BY DEF IInv, Versions
  <2>5. buildCache'.ver < build'.ver
    BY <1>1, <2>2, <2>3, <2>4
  <2> QED
    BY <1>1, <2>5 DEF SettleInv
<1> QED
  BY <1>3, <1>4

LEMMA SettleStep ==
    ASSUME IInv, TypeOK', CopyInv, CopyInv', SettleInv, [Next]_vars PROVE SettleInv'
<1>1. PodMove /\ TypeOK
  BY PodMoves DEF IInv
<1>2. CASE queued'
  BY <1>2 DEF SettleInv
<1>3. CASE ~queued'
  <2>1. ASSUME SyncBuild \/ SyncPod \/ CallFails \/ Crash PROVE FALSE
    BY <1>3, <2>1 DEF SyncBuild, SyncPod, CallFails, Crash, Failed
  <2>2. CASE StartReconcile
    <3>1. pc = "idle" /\ UNCHANGED <<buildCache, podCache>>
      BY <2>2 DEF StartReconcile, caches
    <3>2. CASE Finished(buildCache)
      <4>1. pc' = "idle"
        BY <2>2, <3>1, <3>2 DEF StartReconcile, local
      <4>2. Finished(buildCache')
        BY <3>1, <3>2
      <4> QED
        BY <4>1, <4>2 DEF SettleInv
    <3>3. CASE ~Finished(buildCache)
      <4>1. p' = podCache /\ pc' \notin {"idle", "status"}
        BY <2>2, <3>3 DEF StartReconcile, AfterPod
      <4>2. Precedes(podCache', p')
        BY <3>1, <4>1, GrowsSelf DEF Precedes
      <4> QED
        BY <4>1, <4>2 DEF SettleInv
    <3> QED
      BY <3>2, <3>3
  <2>3. CASE PermanentError
    <3>1. /\ pc = "create" /\ pc' = "status" /\ UNCHANGED <<podCache, p, queued>>
          /\ b' = [b EXCEPT !.condition = "False"]
      BY <2>3 DEF PermanentError, caches
    <3>2. b \in BuildObjects
      BY <1>1 DEF TypeOK
    <3>3. Finished(b')
      BY <3>1, <3>2 DEF Finished, BuildObjects
    <3> QED
      BY <1>3, <3>1, <3>3 DEF SettleInv
  <2>4. CASE CreatePod
    <3>1. pod = NoPod
      BY <1>3, <2>4 DEF CreatePod, Failed
    <3>2. /\ pc' \notin {"idle", "status"} /\ p' = pod' /\ podCache' = podCache
          /\ pod' = NewPod(created + 1)
      BY <1>3, <2>4, <3>1 DEF CreatePod, Failed, AnswerLost, Goto, AfterPod, caches
    <3>3. pod'.uid = created + 1
      BY <3>2 DEF NewPod
    <3>4. podCache.uid <= created /\ podCache.uid \in Nat /\ created \in Nat
      BY <1>1, PodUid DEF CopyInv, TypeOK
    <3>5. podCache.uid < pod'.uid
      BY <3>3, <3>4
    <3>6. Precedes(podCache', p')
      BY <3>2, <3>5 DEF Precedes
    <3> QED
      BY <3>2, <3>6 DEF SettleInv
  <2>5. CASE SetBuildReady \/ CleanupIfNeeded
    <3>1. /\ pc \in {"ready", "cleanup"} /\ pc' \in {"cleanup", "metadata"}
          /\ podCache' = podCache /\ queued' = queued
          /\ p' = p \/ (p' = pod' /\ pod # NoPod)
      BY <1>3, <2>5 DEF SetBuildReady, CleanupIfNeeded, Patch, Failed, AnswerLost, Goto, caches
    <3>2. CASE p' = p
      BY <1>3, <3>1, <3>2 DEF SettleInv
    <3>3. CASE p' = pod' /\ pod # NoPod
      <4>1. pod' # NoPod
        BY <2>5, <3>1, <3>3 DEF TypeOK
      <4>2. Precedes(podCache', p')
        BY <3>3, <4>1 DEF CopyInv
      <4> QED
        BY <3>1, <4>2 DEF SettleInv
    <3> QED
      BY <3>1, <3>2, <3>3
  <2>6. CASE ReadPod
    <3>1. pc = "metadata" /\ p \in Pods /\ podCache' = podCache
      BY <1>1, <2>6 DEF ReadPod, TypeOK, caches
    <3>2. pc' = "status" /\ p' = p /\ queued' = queued /\ b'.condition = ConditionForPod(p)
      BY <1>3, <2>6 DEF ReadPod, Failed, AnswerLost, Goto
    <3>3. ~Finished(b') => ~Ended(p)
      BY <3>1, <3>2, EndReading DEF Finished
    <3>4. p' # NoPod /\ (~Finished(b') => ~Ended(p'))
      BY <3>1, <3>2, <3>3, PodIsThere
    <3>5. Precedes(podCache', p')
      BY <1>3, <3>1, <3>2 DEF SettleInv
    <3> QED
      BY <3>2, <3>4, <3>5 DEF SettleInv
  <2>7. CASE UpdateStatus
    BY <1>1, <1>3, <2>7, SettleUpdateStatus
  <2>8. ASSUME UNCHANGED <<build, buildCache, podCache, queued, pc, b, p>> PROVE SettleInv'
    BY <1>1, <2>4, <2>8, SettleUnchanged
  <2>9. ASSUME RefreshDownward \/ Deadline \/ DeletePod
        PROVE  UNCHANGED <<build, buildCache, podCache, queued, pc, b, p>>
    BY <2>9 DEF RefreshDownward, Deadline, DeletePod, OfTheNode, caches, local
  <2>10. ASSUME NEW s \in Sidecars, StartSidecar(s) \/ EndSidecar(s)
         PROVE  UNCHANGED <<build, buildCache, podCache, queued, pc, b, p>>
    BY <2>10 DEF StartSidecar, EndSidecar, OfTheNode, caches, local
  <2>11. ASSUME NEW i \in Steps,
                StartContainer(i) \/ RunStep(i) \/ StepSucceeds(i) \/ WaiterExits(i)
                  \/ StepFails(i) \/ WatchForErrors(i) \/ KillStep(i)
         PROVE  UNCHANGED <<build, buildCache, podCache, queued, pc, b, p>>
    BY <2>11 DEF StartContainer, RunStep, StepSucceeds, WaiterExits, StepFails,
                 WatchForErrors, KillStep, OfTheNode, caches, local
  <2>12. CASE UNCHANGED vars
    BY <2>8, <2>12 DEF vars, api, caches, local
  <2> QED
    BY <2>1, <2>2, <2>3, <2>4, <2>5, <2>6, <2>7, <2>8, <2>9, <2>10, <2>11, <2>12 DEF Next
<1> QED
  BY <1>2, <1>3

\* Once the controller is quiet, the Build of a pod that has ended has ended too.
SettledHasEnded == Settled /\ pod # NoPod /\ Ended(pod) => Finished(build)

LEMMA SettleEnds == ASSUME IInv, SettleInv PROVE SettledHasEnded
<1> SUFFICES ASSUME Settled, pod # NoPod, Ended(pod) PROVE Finished(build)
  BY DEF SettledHasEnded
<1>1. SeenEnded
  BY DEF SeenEnded, Settled
<1>2. build.ver \in Nat
  BY DEF IInv, TypeOK, BuildObjects
<1> QED
  BY <1>1, <1>2 DEF SettleInv, Settled

-----------------------------------------------------------------------------
(* The outcome is that of the pod. *)

\* Without sidecar support a step ends with its command.
InitDone ==
    ~InjectedSidecarSupport /\ pod # NoPod => \A i \in succeeded : pod.step[i] = "done"

LEMMA InitDoneKept ==
    ASSUME TypeOK, InitDone, pod \in Pods, succeeded' = succeeded,
           ~InjectedSidecarSupport =>
               \A i \in Steps : pod.step[i] = "done" => pod'.step[i] = "done"
    PROVE  InitDone'
  BY PodIsThere DEF TypeOK, InitDone

LEMMA InitDoneStep ==
    ASSUME TypeOK, TypeOK', PodRuns, InitDone, [Next]_vars PROVE InitDone'
<1> USE DEF api, node, OfTheNode
<1>1. ASSUME SyncBuild \/ SyncPod \/ StartReconcile \/ PermanentError \/ ReadPod \/ UpdateStatus
      PROVE  UNCHANGED <<pod, succeeded>>
  BY <1>1 DEF SyncBuild, SyncPod, StartReconcile, PermanentError, ReadPod, UpdateStatus
<1>2. ASSUME CallFails \/ Crash \/ RefreshDownward PROVE UNCHANGED <<pod, succeeded>>
  BY <1>2 DEF CallFails, Crash, RefreshDownward
<1>3. CASE UNCHANGED vars
  BY <1>3 DEF vars, InitDone
<1>4. CASE CreatePod
  <2>1. pod # NoPod => UNCHANGED <<pod, succeeded>>
    BY <1>4 DEF CreatePod
  <2>2. pod = NoPod => succeeded' = {}
    BY <1>4 DEF CreatePod, PodRuns
  <2> QED
    BY <2>1, <2>2 DEF InitDone
<1>5. CASE SetBuildReady \/ CleanupIfNeeded
  <2>1. succeeded' = succeeded
    BY <1>5 DEF SetBuildReady, CleanupIfNeeded
  <2>2. \/ pod' = pod
        \/ pod # NoPod /\ pod' = [pod EXCEPT !.ready = TRUE]
        \/ pod # NoPod /\ pod' = [pod EXCEPT !.deadline = "now"]
    BY <1>5 DEF SetBuildReady, CleanupIfNeeded, Patch
  <2>3. CASE pod' # pod
    <3>1. pod \in Pods
      BY <2>2, <2>3 DEF TypeOK
    <3>2. pod'.step = pod.step
      BY <2>2, <2>3, <3>1, PatchMove DEF Same
    <3> QED
      BY <2>1, <3>1, <3>2, InitDoneKept
  <2> QED
    BY <2>1, <2>3 DEF InitDone
<1>6. ASSUME NEW s \in Sidecars, StartSidecar(s) \/ EndSidecar(s) PROVE InitDone'
  <2>1. succeeded' = succeeded /\ pod \in Pods
    BY <1>6 DEF StartSidecar, EndSidecar, PodLives, TypeOK
  <2>2. PICK state \in States : pod' = [pod EXCEPT !.sidecar[s] = state]
    BY <1>6 DEF StartSidecar, EndSidecar, States
  <2>3. pod'.step = pod.step
    BY <2>1, <2>2 DEF Pods
  <2> QED
    BY <2>1, <2>3, InitDoneKept
<1>7. ASSUME NEW i \in Steps,
             StartContainer(i) \/ StepFails(i) \/ WatchForErrors(i) \/ KillStep(i)
      PROVE  InitDone'
  <2>1. succeeded' = succeeded /\ pod \in Pods
    BY <1>7 DEF StartContainer, StepFails, WatchForErrors, KillStep, PodLives, TypeOK
  <2>2. PICK state \in States : pod' = [pod EXCEPT !.step[i] = state]
    BY <1>7 DEF StartContainer, StepFails, WatchForErrors, KillStep, SetStep, States
  <2>3. pod.step[i] \in {"waiting", "running"}
    BY <1>7, <2>1, PodIsThere DEF StartContainer, StepFails, WatchForErrors, KillStep, PodRuns
  <2>4. \A j \in Steps : pod'.step[j] = IF j = i THEN state ELSE pod.step[j]
    BY <2>1, <2>2, StepType
  <2> QED
    BY <2>1, <2>3, <2>4, InitDoneKept
<1>8. ASSUME NEW i \in Steps, StepSucceeds(i) PROVE InitDone'
  <2>1. pod \in Pods /\ succeeded' = succeeded \cup {i} /\ succeeded \subseteq Steps
    BY <1>8 DEF StepSucceeds, PodLives, TypeOK
  <2>2. ASSUME ~InjectedSidecarSupport PROVE \A j \in succeeded' : pod'.step[j] = "done"
    <3>1. PICK m \in {"metadata", "cut"} : EndContainer(i, m)
      BY <1>8, <2>2 DEF StepSucceeds
    <3>2. \A j \in Steps : pod'.step[j] = IF j = i THEN "done" ELSE pod.step[j]
      BY <2>1, <3>1, EndType
    <3>3. \A j \in succeeded : pod.step[j] = "done"
      BY <2>1, <2>2, PodIsThere DEF InitDone
    <3> QED
      BY <2>1, <3>2, <3>3
  <2> QED
    BY <2>2 DEF InitDone
<1>9. ASSUME NEW i \in Steps, WaiterExits(i) \/ RunStep(i) PROVE InitDone'
  BY <1>9 DEF WaiterExits, RunStep, InitDone
<1>10. CASE Deadline
  <2>1. pod \in Pods /\ succeeded' = succeeded
    BY <1>10 DEF Deadline, PodLives, TypeOK
  <2>2. \A i \in Steps : pod'.step[i] = Killed(pod.step[i])
    BY <1>10, <2>1, DeadlineType
  <2> QED
    BY <2>1, <2>2, InitDoneKept DEF Killed
<1>11. CASE DeletePod
  BY <1>11 DEF DeletePod, InitDone
<1>12. UNCHANGED <<pod, succeeded>> => InitDone'
  BY DEF InitDone
<1> QED
  BY <1>1, <1>2, <1>3, <1>4, <1>5, <1>6, <1>7, <1>8, <1>9, <1>10, <1>11, <1>12 DEF Next

\* PodCompleted of any copy of a pod.
Completed(q) ==
    /\ q.step[Completion] = "done"
    /\ q.reason = "DeadlineExceeded" \/ "error" \notin ContainerStates(q)

PodOutcome(q) == IF Completed(q) THEN "True" ELSE "False"

\* What conditionForPod (build.go:266) makes of a pod that has ended: an init container
\* that failed leaves completion waiting.
LEMMA OutcomeReading ==
    ASSUME pod \in Pods, NodeInv, InitDone, Ended(pod)
    PROVE  ConditionForPod(pod) = PodOutcome(pod)
<1>2. CASE Phase(pod) = "Succeeded"
  <2>1. pod.step[Completion] = "done"
    BY <1>2, PodReading DEF MetadataReady
  <2>2. "error" \notin ContainerStates(pod)
    BY <1>2 DEF Phase
  <2> QED
    BY <1>2, <2>1, <2>2 DEF ConditionForPod, Completed, PodOutcome
<1>3. CASE Phase(pod) = "Failed" /\ pod.reason = "DeadlineExceeded"
  <2>1. Completion \in StepsCompleted(pod) <=> pod.step[Completion] = "done"
    BY StepSets DEF StepsCompleted
  <2> QED
    BY <1>3, <2>1 DEF ConditionForPod, Completed, PodOutcome
<1>4. CASE Phase(pod) = "Failed" /\ pod.reason # "DeadlineExceeded"
  <2>1. ConditionForPod(pod) = "False"
    BY <1>4 DEF ConditionForPod
  <2>2. "error" \in InitStates(pod) \/ "error" \in ContainerStates(pod)
    BY <1>4 DEF Phase
  <2>3. ASSUME Completed(pod) PROVE FALSE
    <3>1. "error" \in InitStates(pod) /\ pod.step[Completion] = "done"
      BY <1>4, <2>2, <2>3 DEF Completed
    <3>2. PICK i \in Steps \ ContainerSteps : pod.step[i] = "error"
      BY <3>1 DEF InitStates
    <3>3. ~InjectedSidecarSupport /\ i # Completion
      BY <3>2 DEF ContainerSteps
    <3>4. Completion \in succeeded
      BY <3>1, StepSets, PodIsThere DEF NodeInv, PodRuns
    <3>5. i \in 1..(Completion - 1)
      BY <3>3, StepsAssumption DEF Steps, Completion
    <3>6. i \in succeeded
      BY <3>4, <3>5 DEF NodeInv, StepsInOrder
    <3> QED
      BY <3>2, <3>3, <3>6, PodIsThere DEF InitDone
  <2> QED
    BY <2>1, <2>3 DEF PodOutcome
<1> QED
  BY <1>2, <1>3, <1>4 DEF Ended

LEMMA SameOutcome == ASSUME NEW q, NEW r, Same(q, r) PROVE PodOutcome(r) = PodOutcome(q)
<1>1. ContainerStates(r) = ContainerStates(q)
  BY DEF Same, ContainerStates
<1> QED
  BY <1>1 DEF Same, PodOutcome, Completed

\* A Build x that has ended has had a pod q, the n-th one, and has ended as its first
\* pod did.
EndedAs(x, n, q) ==
    Finished(x) =>
        /\ n # 0
        /\ n = 1 /\ q # NoPod => Ended(q) /\ x.condition = PodOutcome(q)

OutcomeInv ==
    /\ InitDone
    /\ EndedAs(build, created, pod) /\ EndedAs(buildCache, created, pod)
    /\ EndedAs(b, created, pod)

\* An outcome is not changed by what a step makes of the pod.
LEMMA OutcomeStays ==
    ASSUME TypeOK, PodMove, NEW x, EndedAs(x, created, pod) PROVE EndedAs(x, created', pod')
<1> SUFFICES ASSUME Finished(x)
             PROVE  /\ created' # 0
                    /\ created' = 1 /\ pod' # NoPod
                         => Ended(pod') /\ x.condition = PodOutcome(pod')
  BY DEF EndedAs
<1>1. created \in Nat /\ created # 0
  BY DEF TypeOK, EndedAs
<1>2. CASE pod' = pod /\ created' = created
  BY <1>1, <1>2 DEF EndedAs
<1>3. CASE /\ pod \in Pods /\ pod' \in Pods /\ created' = created
           /\ pod'.uid = pod.uid /\ Grows(pod, pod')
  <2>1. ASSUME created = 1 PROVE Ended(pod') /\ x.condition = PodOutcome(pod')
    <3>1. Ended(pod) /\ x.condition = PodOutcome(pod)
      BY <1>3, <2>1, PodIsThere DEF EndedAs
    <3>2. Same(pod, pod')
      BY <1>3, <3>1 DEF Grows
    <3> QED
      BY <3>1, <3>2, SamePhase, SameOutcome
  <2> QED
    BY <1>1, <1>3, <2>1
<1>4. CASE DeletePod /\ pod' = NoPod /\ created' = created
  BY <1>1, <1>4
<1>5. CASE created' = created + 1
  BY <1>1, <1>5
<1> QED
  BY <1>2, <1>3, <1>4, <1>5 DEF PodMove

\* What the reconcile reads from the end of its copy is the end of the pod.
LEMMA OutcomeReadPod ==
    ASSUME IInv, CopyInv, InitDone, p \in Pods, NEW x, x.condition = ConditionForPod(p)
    PROVE  EndedAs(x, created, pod)
<1> SUFFICES ASSUME Finished(x)
             PROVE  /\ created # 0
                    /\ created = 1 /\ pod # NoPod => Ended(pod) /\ x.condition = PodOutcome(pod)
  BY DEF EndedAs
<1>1. p.uid \in Nat \ {0} /\ created \in Nat
  BY DEF Pods, IInv, TypeOK
<1>2. created # 0
  BY <1>1 DEF CopyInv
<1>3. ASSUME created = 1, pod # NoPod PROVE Ended(pod) /\ x.condition = PodOutcome(pod)
  <2>1. Ended(p)
    BY EndReading DEF Finished
  <2>2. pod \in Pods /\ NodeInv
    BY <1>3, InvParts DEF IInv, TypeOK
  <2>3. p.uid = pod.uid /\ Precedes(p, pod)
    BY <1>1, <1>3 DEF CopyInv
  <2>4. Same(p, pod)
    BY <1>1, <2>1, <2>3, PodIsThere DEF Precedes, Grows
  <2>5. Ended(pod) /\ ConditionForPod(pod) = ConditionForPod(p)
    BY <2>1, <2>4, SamePhase
  <2> QED
    BY <2>2, <2>5, OutcomeReading
<1> QED
  BY <1>2, <1>3

\* What a step makes of the Builds: it keeps them, gives the informer or the reconcile
\* one of the others, or writes the copy of the reconcile.
BuildMove ==
    /\ build' = build \/ (pc = "status" /\ build' = [b EXCEPT !.ver = build.ver + 1])
    /\ buildCache' \in {buildCache, build}
    /\ b' \in {b, buildCache, NewBuild} \/ (ReadPod /\ b'.condition = ConditionForPod(p))

LEMMA BuildMoves ==
    ASSUME "generate" \notin Faults, [Next]_vars PROVE BuildMove
<1> USE DEF api, caches, local, OfTheNode, Drop, Idle, Failed, Goto, AnswerLost
<1>1. ASSUME SyncBuild \/ SyncPod \/ StartReconcile PROVE BuildMove
  BY <1>1 DEF SyncBuild, SyncPod, StartReconcile, BuildMove
<1>2. CASE PermanentError
  BY <1>2 DEF PermanentError, GenerateFails, Fault
<1>3. CASE CreatePod
  <2>1. UNCHANGED <<build, buildCache>> /\ b' \in {b, NewBuild}
    BY <1>3 DEF CreatePod
  <2> QED
    BY <2>1 DEF BuildMove
<1>4. CASE SetBuildReady \/ CleanupIfNeeded
  <2>1. UNCHANGED <<build, buildCache>> /\ b' \in {b, NewBuild}
    BY <1>4 DEF SetBuildReady, CleanupIfNeeded, Patch
  <2> QED
    BY <2>1 DEF BuildMove
<1>5. CASE ReadPod
  <2>1. /\ UNCHANGED <<build, buildCache>>
        /\ b' = NewBuild \/ b'.condition = ConditionForPod(p)
    BY <1>5 DEF ReadPod
  <2> QED
    BY <1>5, <2>1 DEF BuildMove
<1>6. CASE UpdateStatus
  <2>1. pc = "status" /\ buildCache' = buildCache /\ b' = NewBuild
    BY <1>6 DEF UpdateStatus
  <2>2. build' = build \/ build' = [b EXCEPT !.ver = build.ver + 1]
    BY <1>6 DEF UpdateStatus
  <2> QED
    BY <2>1, <2>2 DEF BuildMove
<1>7. ASSUME CallFails \/ Crash \/ RefreshDownward \/ Deadline \/ DeletePod PROVE BuildMove
  BY <1>7 DEF CallFails, Crash, RefreshDownward, Deadline, DeletePod, BuildMove
<1>8. ASSUME NEW s \in Sidecars, StartSidecar(s) \/ EndSidecar(s) PROVE BuildMove
  BY <1>8 DEF StartSidecar, EndSidecar, BuildMove
<1>9. ASSUME NEW i \in Steps,
             StartContainer(i) \/ RunStep(i) \/ StepSucceeds(i) \/ WaiterExits(i)
               \/ StepFails(i) \/ WatchForErrors(i) \/ KillStep(i)
      PROVE  BuildMove
  BY <1>9 DEF StartContainer, RunStep, StepSucceeds, WaiterExits, StepFails,
              WatchForErrors, KillStep, BuildMove
<1>10. CASE UNCHANGED vars
  BY <1>10 DEF vars, BuildMove
<1> QED
  BY <1>1, <1>2, <1>3, <1>4, <1>5, <1>6, <1>7, <1>8, <1>9, <1>10 DEF Next

LEMMA OutcomeStep ==
    ASSUME "generate" \notin Faults,
           IInv, TypeOK', CopyInv, OutcomeInv, [Next]_vars
    PROVE  OutcomeInv'
<1>1. PodMove /\ TypeOK /\ BuildMove
  BY PodMoves, BuildMoves DEF IInv
<1>2. InitDone'
  BY <1>1, InitDoneStep DEF IInv, OutcomeInv
<1>3. /\ EndedAs(build, created', pod') /\ EndedAs(buildCache, created', pod')
      /\ EndedAs(b, created', pod')
  BY <1>1, OutcomeStays DEF OutcomeInv
<1>4. EndedAs(NewBuild, created', pod')
  BY NewBuildType DEF EndedAs, Finished
<1>5. EndedAs(buildCache', created', pod')
  BY <1>1, <1>3 DEF BuildMove
<1>6. EndedAs(build', created', pod')
  <2>1. CASE build' = build
    BY <1>3, <2>1
  <2>2. CASE build' = [b EXCEPT !.ver = build.ver + 1]
    <3>1. b \in BuildObjects
      BY <1>1 DEF TypeOK
    <3>2. build'.condition = b.condition
      BY <2>2, <3>1 DEF BuildObjects
    <3> QED
      BY <1>3, <3>2 DEF EndedAs, Finished
  <2> QED
    BY <1>1, <2>1, <2>2 DEF BuildMove
<1>7. EndedAs(b', created', pod')
  <2>1. CASE b' \in {b, buildCache, NewBuild}
    BY <1>3, <1>4, <2>1
  <2>2. CASE ReadPod /\ b'.condition = ConditionForPod(p)
    <3>1. p \in Pods /\ UNCHANGED <<created, pod>>
      BY <1>1, <2>2 DEF ReadPod, TypeOK, api
    <3>2. EndedAs(b', created, pod)
      BY <2>2, <3>1, OutcomeReadPod DEF OutcomeInv
    <3> QED
      BY <3>1, <3>2
  <2> QED
    BY <1>1, <2>1, <2>2 DEF BuildMove
<1> QED
  BY <1>2, <1>5, <1>6, <1>7 DEF OutcomeInv

\* Once the controller is quiet the Build of an ended pod has ended, in every run of
\* the reconciler: no event is lost, whatever is patched, restarted or deleted.
THEOREM SettledEnds == Spec => []SettledHasEnded
<1>1. Init => CopyInv /\ SettleInv
  BY DEF Init, CopyInv, SettleInv, NoPod
<1>2. IInv /\ IInv' /\ CopyInv /\ SettleInv /\ [Next]_vars => CopyInv' /\ SettleInv'
  <2> SUFFICES ASSUME IInv, IInv', CopyInv, SettleInv, [Next]_vars PROVE CopyInv' /\ SettleInv'
    OBVIOUS
  <2>1. TypeOK'
    BY DEF IInv
  <2>2. CopyInv'
    BY <2>1, CopyStep
  <2> QED
    BY <2>1, <2>2, SettleStep
<1>3. IInv /\ SettleInv => SettledHasEnded
  BY SettleEnds
<1> QED
  BY <1>1, <1>2, <1>3, BuildInvariant, PTL DEF Spec

\* ... and it has ended as its pod did, unless a failing read of Generate has ended it
\* before (build.go:255), for any number of steps and sidecars and all other faults.
THEOREM SettledAsThePod ==
    ASSUME "generate" \notin Faults PROVE Spec => []SettledOutcomeIsThePods
<1>1. Init => CopyInv /\ OutcomeInv
  <2> SUFFICES ASSUME Init PROVE CopyInv /\ OutcomeInv
    OBVIOUS
  <2>1. CopyInv
    BY DEF Init, CopyInv, NoPod
  <2>2. InitDone
    BY DEF Init, InitDone
  <2> QED
    BY <2>1, <2>2, NewBuildType DEF Init, OutcomeInv, EndedAs, Finished
<1>2. IInv /\ IInv' /\ CopyInv /\ OutcomeInv /\ [Next]_vars => CopyInv' /\ OutcomeInv'
  <2> SUFFICES ASSUME IInv, IInv', CopyInv, OutcomeInv, [Next]_vars
               PROVE  CopyInv' /\ OutcomeInv'
    OBVIOUS
  <2>1. TypeOK'
    BY DEF IInv
  <2> QED
    BY <2>1, CopyStep, OutcomeStep
<1>3. SettledHasEnded /\ OutcomeInv => SettledOutcomeIsThePods
  BY DEF SettledHasEnded, OutcomeInv, EndedAs, PodOutcome, Completed, PodCompleted,
         SettledOutcomeIsThePods
<1> QED
  BY <1>1, <1>2, <1>3, BuildInvariant, SettledEnds, PTL DEF Spec
=============================================================================
