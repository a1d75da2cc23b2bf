--------------------------- MODULE BuildController ---------------------------
(***************************************************************************)
(* The Build reconciler of kpack (pkg/reconciler/build) for one Build,     *)
(* with the pod it creates and the programs that run in that pod.          *)
(*                                                                         *)
(* A pod runs NumSteps steps: prepare, analyze, detect, restore, build,    *)
(* export and completion, or rebase and completion.  The last one is       *)
(* completion; the one before it pushes the image.  Without sidecar        *)
(* support the steps before completion are init containers.  With it every *)
(* step is a container beside the injected sidecars, and build-waiter      *)
(* (cmd/build-waiter) orders them through files on a shared volume.        *)
(*                                                                         *)
(* A reconcile is cut into steps at its API calls.  Between two of them    *)
(* the kubelet, the steps and the informers may act, a call may fail or    *)
(* its answer may be lost, and the controller may crash.                   *)
(***************************************************************************)
EXTENDS Naturals

CONSTANTS
    NumSteps,                 \* steps of the pod: 7, or 2 when it rebases
    Sidecars,                 \* containers injected into the pod
    InjectedSidecarSupport,   \* the controller's feature flags
    GenerateSlsaAttestation,
    ActiveDeadlineSeconds,    \* does the Build's spec set a deadline?
    Rebase,                   \* is it a Build that only rebases the last image?
    StepsMayHang,             \* may a command run for ever?
    Faults,                   \* which faults may happen
    MaxFaults                 \* bound on the faults of a behaviour

FaultKinds == {"call", "crash", "generate", "delete", "kill", "truncate", "sidecar"}

ASSUME StepsAssumption == NumSteps \in Nat /\ NumSteps >= 2

ASSUME FlagsAssumption ==
    /\ InjectedSidecarSupport \in BOOLEAN /\ GenerateSlsaAttestation \in BOOLEAN
    /\ ActiveDeadlineSeconds \in BOOLEAN /\ Rebase \in BOOLEAN
    /\ StepsMayHang \in BOOLEAN
    /\ ~InjectedSidecarSupport => Sidecars = {}

ASSUME FaultsAssumption == Faults \subseteq FaultKinds /\ MaxFaults \in Nat

VARIABLES
    build,        \* the Build: resource version and status
    buildCache,   \* ... as the Build informer last saw it
    pod,          \* the pod of the Build, NoPod when there is none
    podCache,     \* ... as the pod informer last saw it
    created,      \* number of pods created for the Build
    executing,    \* steps whose command runs
    succeeded,    \* steps whose command succeeded: the done files of build-waiter
    errorFile,    \* the error file of build-waiter is there
    readyFile,    \* /downward/sidecars-ready has content
    registry,     \* images pushed, named by the pod that pushed them
    attested,     \* images with an attestation in the registry
    pc,           \* next step of the reconcile in progress, "idle" when there is none
    b,            \* its copy of the Build
    p,            \* its pod
    queued,       \* the Build's key is in the work queue
    faults        \* faults so far

api == <<build, pod, created>>
caches == <<buildCache, podCache>>
node == <<executing, succeeded, errorFile, readyFile>>
images == <<registry, attested>>
local == <<pc, b, p>>
vars == <<api, caches, node, images, local, queued, faults>>

-----------------------------------------------------------------------------
(* The pod and what the reconciler reads from it. *)

Steps == 1..NumSteps
Completion == NumSteps
Publish == NumSteps - 1       \* export, or rebase

NoPod == [uid |-> 0]

\* A pod as BuildPod or rebasePod makes it.  rebasePod leaves the deadline out.
NewPod(uid) ==
    [uid |-> uid,
     step |-> [i \in Steps |-> "waiting"],
     sidecar |-> [s \in Sidecars |-> "waiting"],
     ready |-> FALSE,
     deadline |-> IF ActiveDeadlineSeconds /\ ~Rebase THEN "set" ELSE "none",
     reason |-> "",
     message |-> ""]

\* With sidecar support every step is a container, otherwise only completion is.
ContainerSteps == IF InjectedSidecarSupport THEN Steps ELSE {Completion}

InitStates(q) == {q.step[i] : i \in Steps \ ContainerSteps}

ContainerStates(q) == {q.step[i] : i \in ContainerSteps} \cup {q.sidecar[s] : s \in Sidecars}

\* The phase the kubelet reports for a pod that is never restarted.
Phase(q) ==
    IF q.reason = "DeadlineExceeded" \/ "error" \in InitStates(q) THEN "Failed"
    ELSE IF ~(InitStates(q) \subseteq {"done"}) \/ "waiting" \in ContainerStates(q)
         THEN "Pending"
    ELSE IF "running" \in ContainerStates(q) THEN "Running"
    ELSE IF "error" \in ContainerStates(q) THEN "Failed" ELSE "Succeeded"

Ended(q) == Phase(q) \in {"Succeeded", "Failed"}

StepsCompleted(q) == {i \in Steps : q.step[i] = "done"}

PodCompletedWithActiveDeadline(q) ==
    /\ Phase(q) = "Failed" /\ q.reason = "DeadlineExceeded"
    /\ q.step[Completion] = "done"

MetadataReady(q) == Phase(q) = "Succeeded" \/ PodCompletedWithActiveDeadline(q)

BadConditionForPod(q) ==
    CASE Phase(q) = "Succeeded" \/ q.reason = "DeadlineExceeded" -> "True"
      [] Phase(q) = "Failed" /\ q.reason = "" -> "False"
      [] Phase(q) \in {"Pending", "Running"} -> "Unknown"

ConditionForPod(q) ==
    CASE Phase(q) = "Succeeded" -> "True"
      [] Phase(q) = "Failed" ->
            IF q.reason = "DeadlineExceeded" /\ Completion \in StepsCompleted(q)
            THEN "True" ELSE "False"
      [] Phase(q) \in {"Pending", "Running"} -> "Unknown"

BadAllContainersReady(q) == {q.step[i] : i \in Steps} \subseteq {"running"}

\* A container without a probe is ready while it runs.
AllContainersReady(q) == ContainerStates(q) \subseteq {"running"}

CompletionContainerExited(q) == q.step[Completion] \in {"done", "error"}

Finished(x) == x.condition # "Unknown"

NewBuild == [ver |-> 1, condition |-> "Unknown", image |-> 0, attestation |-> 0,
             podName |-> FALSE, steps |-> {}]

-----------------------------------------------------------------------------
(* Informers and the ends of a reconcile. *)

Fault(kind) == kind \in Faults /\ faults < MaxFaults /\ faults' = faults + 1

\* The handler of Build events queues the key.
SyncBuild == /\ buildCache # build
             /\ buildCache' = build /\ queued' = TRUE
             /\ UNCHANGED <<api, podCache, node, images, local, faults>>

BadSyncPod == /\ podCache # pod
              /\ podCache' = pod
              /\ UNCHANGED <<api, buildCache, node, images, local, queued, faults>>

\* The handler of pod events queues the Build that controls the pod.
SyncPod == /\ podCache # pod
           /\ podCache' = pod /\ queued' = TRUE
           /\ UNCHANGED <<api, buildCache, node, images, local, faults>>

Drop == pc' = "idle" /\ b' = NewBuild /\ p' = NoPod

\* Reconcile returns nil.
Idle == Drop /\ UNCHANGED <<queued, faults>>

\* Reconcile returns an error: the key is queued again.
Failed == Drop /\ queued' = TRUE

\* The reconcile goes on at another step.
Goto(step) == pc' = step /\ UNCHANGED <<queued, faults>>

\* An API call took effect, but its answer is lost: Reconcile returns an error.
AnswerLost == Failed /\ Fault("call")

-----------------------------------------------------------------------------
(* One reconcile. *)

AfterPod == IF InjectedSidecarSupport THEN "ready" ELSE "metadata"

\* Reconcile reads the Build and, unless it is finished, its pod from the caches.
StartReconcile ==
    /\ pc = "idle" /\ queued
    /\ queued' = FALSE
    /\ IF Finished(buildCache)
       THEN UNCHANGED local
       ELSE /\ b' = buildCache /\ p' = podCache
            /\ pc' = IF podCache = NoPod THEN "create" ELSE AfterPod
    /\ UNCHANGED <<api, caches, node, images, faults>>

\* Generate reads bindings, secrets, service accounts and the builder and its image,
\* and returns the first error it meets.
GenerateFails == Fault("generate")

\* Whatever error Generate returns is permanent and ends the Build.  So does a pod
\* the API server calls invalid.
PermanentError ==
    /\ pc = "create" /\ GenerateFails
    /\ b' = [b EXCEPT !.condition = "False"]
    /\ pc' = "status"
    /\ UNCHANGED <<api, caches, node, images, p, queued>>

BadCreatePod ==
    /\ pc = "create"
    /\ IF pod # NoPod
       THEN Goto(AfterPod) /\ UNCHANGED <<pod, created, b, p>>
       ELSE /\ created' = created + 1
            /\ pod' = NewPod(created + 1)
            /\ Goto(AfterPod) /\ p' = pod' /\ UNCHANGED b
    /\ UNCHANGED <<build, caches, node, images>>

\* The pod is created under a name that depends on the Build only.
CreatePod ==
    /\ pc = "create"
    /\ IF pod # NoPod
       THEN Failed /\ UNCHANGED <<pod, created, faults>>
       ELSE /\ created' = created + 1
            /\ pod' = NewPod(created + 1)
            /\ \/ Goto(AfterPod) /\ p' = pod' /\ UNCHANGED b
               \/ AnswerLost
    /\ UNCHANGED <<build, caches, node, images>>

\* A merge patch of the pod, by name; the answer is the pod as it is now.
Patch(patched, next) ==
    IF pod = NoPod
    THEN Failed /\ UNCHANGED <<pod, faults>>
    ELSE /\ pod' = patched
         /\ \/ Goto(next) /\ p' = pod' /\ UNCHANGED b
            \/ AnswerLost

NeedsReady(q) == ~q.ready /\ AllContainersReady(q)

SetBuildReady ==
    /\ pc = "ready"
    /\ IF NeedsReady(p)
       THEN Patch([pod EXCEPT !.ready = TRUE], "cleanup")
       ELSE Goto("cleanup") /\ UNCHANGED <<b, p, pod>>
    /\ UNCHANGED <<build, created, caches, node, images>>

BadNeedsCleanup(q) == Phase(q) = "Running" /\ Completion \in StepsCompleted(q)

NeedsCleanup(q) == Phase(q) = "Running" /\ CompletionContainerExited(q)

CleanupIfNeeded ==
    /\ pc = "cleanup"
    /\ IF NeedsCleanup(p)
       THEN Patch([pod EXCEPT !.deadline = "now"], "metadata")
       ELSE Goto("metadata") /\ UNCHANGED <<b, p, pod>>
    /\ UNCHANGED <<build, created, caches, node, images>>

\* Can the metadata be decoded from completion's termination message?
BuildMetadataFromBuildPod(q) == q.message = "metadata"

\* The attestations once attestBuild has written that of the pod's image.
AttestBuild(q) == attested \cup {q.uid}

\* The metadata of a completed pod is decoded from completion's termination message,
\* the image is attested, and both enter the status with the pod's condition.
ReadPod ==
    /\ pc = "metadata"
    /\ IF MetadataReady(p) /\ ~BuildMetadataFromBuildPod(p)
       THEN Failed /\ UNCHANGED <<attested, faults>>
       ELSE LET done == MetadataReady(p)
                attest == done /\ GenerateSlsaAttestation
            IN /\ attested' = IF attest THEN AttestBuild(p) ELSE attested
               /\ \/ /\ Goto("status") /\ UNCHANGED p
                     /\ b' = [ver |-> b.ver,
                              condition |-> ConditionForPod(p),
                              image |-> IF done THEN p.uid ELSE b.image,
                              attestation |-> IF attest THEN p.uid ELSE b.attestation,
                              podName |-> TRUE,
                              steps |-> StepsCompleted(p)]
                  \/ attest /\ AnswerLost
    /\ UNCHANGED <<api, caches, node, registry>>

StatusOf(x) == [x EXCEPT !.ver = 0]

BadConflict == FALSE

\* The API server refuses an update of an older version.
Conflict == b.ver # build.ver

\* The status is written unless the cached Build already has it.
UpdateStatus ==
    /\ pc = "status"
    /\ \/ /\ StatusOf(b) = StatusOf(buildCache)
          /\ Idle /\ UNCHANGED build
       \/ /\ StatusOf(b) # StatusOf(buildCache) /\ Conflict
          /\ Failed /\ UNCHANGED <<build, faults>>
       \/ /\ StatusOf(b) # StatusOf(buildCache) /\ ~Conflict
          /\ build' = [b EXCEPT !.ver = build.ver + 1]
          /\ Idle \/ AnswerLost
    /\ UNCHANGED <<pod, created, caches, node, images>>

\* An API call of the reconcile fails without effect.
CallFails ==
    /\ \/ pc = "create"
       \/ pc = "ready" /\ NeedsReady(p)
       \/ pc = "cleanup" /\ NeedsCleanup(p)
       \/ pc = "metadata" /\ MetadataReady(p) /\ GenerateSlsaAttestation
       \/ pc = "status" /\ StatusOf(b) # StatusOf(buildCache)
    /\ Failed /\ Fault("call")
    /\ UNCHANGED <<api, caches, node, images>>

\* The controller restarts: its informers list everything afresh.
Crash == /\ Fault("crash")
         /\ Failed
         /\ buildCache' = build /\ podCache' = pod
         /\ UNCHANGED <<api, node, images>>

Reconcile == \/ StartReconcile \/ CreatePod \/ SetBuildReady \/ CleanupIfNeeded
             \/ ReadPod \/ UpdateStatus

-----------------------------------------------------------------------------
(* The kubelet and the steps. *)

PodLives == pod # NoPod /\ ~Ended(pod)

SetStep(i, state) == pod' = [pod EXCEPT !.step[i] = state]

OfTheNode == UNCHANGED <<build, created, caches, attested, local, queued>>

\* The kubelet starts an init container when the one before has ended well, and the
\* containers at any time after that.  An init container runs its command at once,
\* a container build-waiter.
StartContainer(i) ==
    /\ PodLives /\ pod.step[i] = "waiting"
    /\ InjectedSidecarSupport \/ \A j \in 1..(i - 1) : pod.step[j] = "done"
    /\ SetStep(i, "running")
    /\ executing' = IF InjectedSidecarSupport THEN executing ELSE executing \cup {i}
    /\ OfTheNode /\ UNCHANGED <<succeeded, errorFile, readyFile, registry, faults>>

StartSidecar(s) ==
    /\ PodLives /\ pod.sidecar[s] = "waiting"
    /\ pod' = [pod EXCEPT !.sidecar[s] = "running"]
    /\ OfTheNode /\ UNCHANGED <<node, registry, faults>>

\* A sidecar ends by itself, well or not.
EndSidecar(s) ==
    /\ PodLives /\ pod.sidecar[s] = "running"
    /\ Fault("sidecar")
    /\ \E state \in {"done", "error"} : pod' = [pod EXCEPT !.sidecar[s] = state]
    /\ OfTheNode /\ UNCHANGED <<node, registry>>

\* The kubelet writes the annotation to the downward volume some time later.
RefreshDownward ==
    /\ PodLives /\ pod.ready /\ ~readyFile
    /\ readyFile' = TRUE
    /\ OfTheNode /\ UNCHANGED <<pod, executing, succeeded, errorFile, registry, faults>>

BadWaitFile(i) == readyFile

\* The file a step waits for: the annotation, or the done file of the step before.
WaitFile(i) == IF i = 1 THEN readyFile ELSE i - 1 \in succeeded

\* build-waiter: the awaited file has appeared, the command is started.
RunStep(i) ==
    /\ InjectedSidecarSupport /\ PodLives
    /\ pod.step[i] = "running" /\ i \notin executing \cup succeeded
    /\ WaitFile(i)
    /\ executing' = executing \cup {i}
    /\ OfTheNode /\ UNCHANGED <<pod, succeeded, errorFile, readyFile, registry, faults>>

\* completion leaves the build's metadata in its termination message, which the
\* kubelet may cut.
EndContainer(i, message) ==
    pod' = [pod EXCEPT !.step[i] = "done",
                       !.message = IF i = Completion THEN message ELSE @]

Message(m) == m = "metadata" \/ ("truncate" \in Faults /\ m = "cut")

\* A command succeeds.  An init container ends with it, build-waiter writes the
\* done file first.
StepSucceeds(i) ==
    /\ PodLives /\ i \in executing
    /\ executing' = executing \ {i} /\ succeeded' = succeeded \cup {i}
    /\ registry' = IF i = Publish THEN registry \cup {pod.uid} ELSE registry
    /\ IF InjectedSidecarSupport
       THEN UNCHANGED pod
       ELSE \E m \in {"metadata", "cut"} : Message(m) /\ EndContainer(i, m)
    /\ OfTheNode /\ UNCHANGED <<errorFile, readyFile, faults>>

\* build-waiter returns after its command succeeded and the done file is there.
WaiterExits(i) ==
    /\ InjectedSidecarSupport /\ PodLives
    /\ pod.step[i] = "running" /\ i \in succeeded
    /\ \E m \in {"metadata", "cut"} : Message(m) /\ EndContainer(i, m)
    /\ OfTheNode /\ UNCHANGED <<node, registry, faults>>

\* A command fails; build-waiter writes the error file before it exits.
StepFails(i) ==
    /\ PodLives /\ i \in executing
    /\ executing' = executing \ {i}
    /\ errorFile' = (errorFile \/ InjectedSidecarSupport)
    /\ SetStep(i, "error")
    /\ OfTheNode /\ UNCHANGED <<succeeded, readyFile, registry, faults>>

\* build-waiter sees the error file and exits, whatever its command does.
WatchForErrors(i) ==
    /\ errorFile /\ PodLives /\ pod.step[i] = "running"
    /\ SetStep(i, "error")
    /\ executing' = executing \ {i}
    /\ OfTheNode /\ UNCHANGED <<succeeded, errorFile, readyFile, registry, faults>>

\* All processes of a container are killed, build-waiter with them (out of memory).
KillStep(i) ==
    /\ PodLives /\ pod.step[i] = "running"
    /\ Fault("kill")
    /\ SetStep(i, "error")
    /\ executing' = executing \ {i}
    /\ OfTheNode /\ UNCHANGED <<succeeded, errorFile, readyFile, registry>>

Killed(state) == IF state = "running" THEN "error" ELSE state

\* The deadline of the pod has passed: the kubelet kills what runs.
Deadline ==
    /\ PodLives /\ pod.deadline # "none"
    /\ pod' = [pod EXCEPT !.reason = "DeadlineExceeded",
                          !.step = [i \in Steps |-> Killed(@[i])],
                          !.sidecar = [s \in Sidecars |-> Killed(@[s])]]
    /\ executing' = {}
    /\ OfTheNode /\ UNCHANGED <<succeeded, errorFile, readyFile, registry, faults>>

\* A user, or the node's eviction, deletes the pod.
DeletePod ==
    /\ pod # NoPod /\ Fault("delete")
    /\ pod' = NoPod
    /\ executing' = {} /\ succeeded' = {} /\ errorFile' = FALSE /\ readyFile' = FALSE
    /\ OfTheNode /\ UNCHANGED registry

StepEnds(i) == StepSucceeds(i) \/ StepFails(i)

-----------------------------------------------------------------------------
Init == /\ build = NewBuild /\ buildCache = NewBuild
        /\ pod = NoPod /\ podCache = NoPod /\ created = 0
        /\ executing = {} /\ succeeded = {} /\ errorFile = FALSE /\ readyFile = FALSE
        /\ registry = {} /\ attested = {}
        /\ pc = "idle" /\ b = NewBuild /\ p = NoPod
        /\ queued = TRUE /\ faults = 0

Next == \/ SyncBuild \/ SyncPod
        \/ StartReconcile \/ PermanentError \/ CreatePod \/ SetBuildReady
        \/ CleanupIfNeeded \/ ReadPod \/ UpdateStatus \/ CallFails \/ Crash
        \/ RefreshDownward \/ Deadline \/ DeletePod
        \/ \E s \in Sidecars : StartSidecar(s) \/ EndSidecar(s)
        \/ \E i \in Steps : \/ StartContainer(i) \/ RunStep(i) \/ StepSucceeds(i)
                            \/ WaiterExits(i) \/ StepFails(i) \/ WatchForErrors(i)
                            \/ KillStep(i)

Spec == Init /\ [][Next]_vars

\* Fairness: the work queue hands out a queued key and a reconcile runs to its end,
\* informers deliver, the kubelet starts containers, refreshes volumes and enforces
\* deadlines, build-waiter looks at its files every second, and a command ends
\* unless it may hang.  Users and faults are under no obligation.
Fairness == /\ WF_vars(Reconcile)
            /\ WF_vars(SyncBuild) /\ WF_vars(SyncPod)
            /\ WF_vars(RefreshDownward) /\ WF_vars(Deadline)
            /\ WF_vars(\E s \in Sidecars : StartSidecar(s))
            /\ \A i \in Steps : /\ WF_vars(StartContainer(i)) /\ WF_vars(RunStep(i))
                                /\ WF_vars(WaiterExits(i)) /\ WF_vars(WatchForErrors(i))
                                /\ StepsMayHang \/ WF_vars(StepEnds(i))

FairSpec == Spec /\ Fairness

-----------------------------------------------------------------------------
(* Properties. *)

States == {"waiting", "running", "done", "error"}

Conditions == {"Unknown", "True", "False"}

BuildObjects == [ver : Nat, condition : Conditions, image : Nat, attestation : Nat,
                 podName : BOOLEAN, steps : SUBSET Steps]

Pods == [uid : Nat \ {0}, step : [Steps -> States], sidecar : [Sidecars -> States],
         ready : BOOLEAN, deadline : {"none", "set", "now"},
         reason : {"", "DeadlineExceeded"}, message : {"", "metadata", "cut"}]

\* Every object, cache and local variable holds a value of its type; a reconcile that
\* has passed the creation of the pod has a pod.
TypeOK ==
    /\ build \in BuildObjects /\ buildCache \in BuildObjects /\ b \in BuildObjects
    /\ pod \in Pods \cup {NoPod} /\ podCache \in Pods \cup {NoPod}
    /\ p \in Pods \cup {NoPod}
    /\ created \in Nat
    /\ executing \subseteq Steps /\ succeeded \subseteq Steps
    /\ errorFile \in BOOLEAN /\ readyFile \in BOOLEAN
    /\ registry \subseteq Nat /\ attested \subseteq Nat
    /\ pc \in {"idle", "create", "ready", "cleanup", "metadata", "status"}
    /\ pc \in {"ready", "cleanup", "metadata"} => p # NoPod
    /\ queued \in BOOLEAN /\ faults \in Nat

Outcome == INSTANCE BuildOutcome WITH condition <- build.condition,
                                      latestImage <- build.image, pushed <- registry

\* A Build ends once and for all, and only a pushed image makes it succeed, although
\* reconcile (build.go:155) works on copies that may be outdated and reads phase,
\* reason and containers of the pod in several places: the detailed specification
\* implements BuildOutcome.
ImplementsBuildOutcome == Outcome!Spec

\* A step runs only after all the steps before it have succeeded, and no two steps
\* run at once, also where build-waiter orders them through files
\* (build_pod.go:620-667, cmd/build-waiter/main.go).
StepsInOrder ==
    \A i \in executing \cup succeeded : \A j \in 1..(i - 1) : j \in succeeded \ executing

\* No step runs before every sidecar of this pod has been running: the annotation is
\* patched from a cached pod and reaches the steps through a volume (build.go:209).
StepsWaitForSidecars ==
    InjectedSidecarSupport /\ executing \cup succeeded # {} =>
        \A s \in Sidecars : pod.sidecar[s] # "waiting"

\* A Build that reports success has an image whose pod ran to completion, and when
\* attestations are on the attestation was written before the report (build.go:179).
SuccessIsBacked ==
    build.condition = "True" =>
        /\ build.image \in registry
        /\ GenerateSlsaAttestation => build.image \in attested /\ build.attestation = build.image

Settled == pc = "idle" /\ ~queued /\ buildCache = build /\ podCache = pod

\* Did the pod end with a completed build?  Killing sidecars, or steps that were
\* about to exit, is no failure; a container that failed by itself is.
PodCompleted ==
    /\ pod.step[Completion] = "done"
    /\ pod.reason = "DeadlineExceeded" \/ "error" \notin ContainerStates(pod)

\* Once the controller is quiet the Build of an ended pod has ended, and as its pod
\* did unless the pod replaced a deleted one: no event is lost and none is misread
\* (build.go:102-110, 266-335).
SettledOutcomeIsThePods ==
    Settled /\ pod # NoPod /\ Ended(pod) =>
        /\ Finished(build)
        /\ created = 1 => build.condition = IF PodCompleted THEN "True" ELSE "False"

\* What only a deadline ends, and only where the spec sets one: a command that hangs;
\* steps behind a waiter that was killed and left no error file; steps that are never
\* told to start because a sidecar ended before the pod was seen ready.  Metadata that
\* was cut is asked for again for ever (build.go:180).
Stuck ==
    \/ pod.message = "cut"
    \/ /\ pod.deadline = "none" /\ ~errorFile /\ ~CompletionContainerExited(pod)
       /\ \/ executing # {}
          \/ \E i \in Steps : pod.step[i] = "error"
          \/ ~pod.ready /\ \E s \in Sidecars : pod.sidecar[s] \in {"done", "error"}

\* A Build ends, although its sidecars run for ever, a step waits for every step before
\* it and a failed call or a restart may come at any time, with or without a deadline:
\* failing steps release the others through the error file (build-waiter/main.go:147),
\* and once completion has exited, well or not, cleanupIfNeeded (build.go:234) ends the
\* sidecars.  The exceptions are those of Stuck.
BuildEnds == <>Finished(build) \/ <>[](pod # NoPod /\ Stuck)

=============================================================================
