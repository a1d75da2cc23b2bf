-------------------------- MODULE BuilderController --------------------------
(***************************************************************************)
(* A Builder or ClusterBuilder of kpack, the objects it is made from, and  *)
(* the controllers that keep them: pkg/reconciler/builder, clusterbuilder, *)
(* clusterstack, clusterlifecycle, clusterstore, buildpack and             *)
(* clusterbuildpack, the tracker that tells a builder of a change of its   *)
(* inputs (pkg/tracker) and the rule that decides which errors are tried   *)
(* again (NetworkErrorReconciler).                                         *)
(*                                                                         *)
(* The reconcile of the builder is cut at its lister reads, its registry   *)
(* writes and its status update; users, informers and the controllers of   *)
(* the inputs act in between.  The reconcile of an input reads one cached  *)
(* object and writes one status, and is one step: a cache that lags stands *)
(* for the copy it holds.  The contents of an input are a number that      *)
(* every edit raises; a builder image is the contents it was made from.    *)
(***************************************************************************)
EXTENDS Integers, FiniteSets

CONSTANTS
    Kinds,            \* kinds of builder looked at: Builder, ClusterBuilder
    Changed,          \* objects a user edits, deletes and creates again
    CosignSecrets,    \* has the builder's service account cosign secrets?
    Faults,           \* which of http, dial, call, crash may happen
    MaxChanges,       \* bound on the changes users make
    MaxFaults         \* bound on faults

\* The kinds of object a builder is made from.
Inputs == {"ClusterStack", "ClusterLifecycle", "ClusterStore",
           "Buildpack", "ClusterBuildpack"}

ASSUME BuilderAssumption ==
    /\ Kinds # {} /\ Kinds \subseteq {"Builder", "ClusterBuilder"}
    /\ Changed \subseteq Inputs \cup {"builder"}
    /\ CosignSecrets \in BOOLEAN
    /\ Faults \subseteq {"http", "dial", "call", "crash"}
    /\ MaxChanges \in Nat /\ MaxFaults \in Nat

VARIABLES
    kind,             \* the kind of the builder
    obj,              \* obj[i]: input i in the API server
    cache,            \* ... as its informer last saw it
    queue,            \* keys in the work queues: inputs and "builder"
    builder,          \* the builder in the API server
    builderCache,     \* ... as its informer last saw it
    lease,            \* resync periods left of the builder's lease on an input
    pc,               \* where the reconcile of the builder is
    copy,             \* the builder it works on
    got,              \* the contents of the inputs it has read, 0 for none
    err,              \* the error it ends with, "" for none
    dropped,          \* keys whose last reconcile ended in a fault nobody retries
    registry,         \* what has been written to the registry
    changes, faults   \* bounded counters

vars == <<kind, obj, cache, queue, builder, builderCache, lease, pc, copy,
          got, err, dropped, registry, changes, faults>>

inputVars == <<obj, cache>>
workVars == <<copy, got, err>>

---------------------------------------------------------------------------
(***************************************************************************)
(* Objects.  An input's status says which contents it describes, 0 for     *)
(* none, and the error of its last reconcile; it is Ready when it          *)
(* describes some.                                                         *)
(***************************************************************************)

Nothing == [i \in Inputs |-> 0]

NoImage == [spec |-> 0, of |-> Nothing]

Ready(input) == input.exists /\ input.status.of # 0

\* DuckBuilder.UpToDate: the condition counts at the generation it is about.
UpToDate(b) == b.status.upToDate /\ b.status.observed = b.spec

\* The error of a status that no reconcile has written yet.
Unwritten == "none yet"

InitInput == [exists |-> TRUE, version |-> 1, spec |-> 1,
              status |-> [of |-> 1, error |-> ""]]

InitBuilder ==
    [exists |-> TRUE, version |-> 1, spec |-> 1,
     status |-> [observed |-> 0, image |-> NoImage, ready |-> FALSE,
                 upToDate |-> FALSE, error |-> Unwritten]]

\* The informers whose events reach the tracker of the Builder controller.
BuilderInputs == Inputs

\* ... and of the ClusterBuilder controller, which knows no Buildpacks.
ClusterBuilderInputs == Inputs \ {"Buildpack"}

Used == IF kind = "Builder" THEN BuilderInputs ELSE ClusterBuilderInputs

\* The inputs tracked one object at a time; the others are tracked by kind.
TrackedObjects == {"ClusterStack", "ClusterLifecycle", "ClusterStore"}

\* Options.TrackerResyncPeriod: a lease lasts three resync periods.
TrackerResyncPeriod == 3

\* An error the registry client marks as a NetworkError: the server answered,
\* with a status other than 401 and 403.  A connection that fails is none, nor is
\* the answer to a call whose error does not pass through handleError.
IsNetworkError(e) == e = "http"

---------------------------------------------------------------------------
(***************************************************************************)
(* Work queues and the tracker.                                            *)
(***************************************************************************)

\* NetworkErrorReconciler: a network error queues the key again, any other
\* error is permanent.
Requeue(key, e) == IF IsNetworkError(e) THEN {key} ELSE {}

\* Not in the code: remembers that the last reconcile of the key met a fault and
\* was not queued again.
Remember(key, e) ==
    dropped' = IF e \in {"dial", "unmarked", "call", "update"} THEN dropped \cup {key}
                                                  ELSE dropped \ {key}

\* Mutant of Track: only objects are tracked, TrackKind is forgotten.
Track_no_kinds(inputs) ==
    lease' = [i \in Inputs |-> IF i \in inputs \cap TrackedObjects
                               THEN TrackerResyncPeriod ELSE lease[i]]

\* Tracker.Track and TrackKind: the lease starts again.
Track(inputs) ==
    lease' = [i \in Inputs |-> IF i \in inputs THEN TrackerResyncPeriod
                                               ELSE lease[i]]

\* Tracker.notify: a watcher whose lease is over is dropped unheard.
Notified(i) == IF i \in Used /\ lease[i] > 0 THEN {"builder"} ELSE {}

Idle == pc = "idle"

---------------------------------------------------------------------------
(***************************************************************************)
(* Users, informers and time.                                              *)
(***************************************************************************)

Touch(o) == [o EXCEPT !.version = @ + 1]

Edited(o) == Touch([o EXCEPT !.spec = @ + 1])
Deleted(o) == Touch([o EXCEPT !.exists = FALSE])
Recreated(o) == Touch([o EXCEPT !.exists = TRUE, !.spec = @ + 1,
                                !.status = [of |-> 0, error |-> Unwritten]])

\* A user edits an object, deletes it, or creates it again.
UserChange ==
    /\ changes < MaxChanges
    /\ changes' = changes + 1
    /\ \/ \E i \in Changed \cap Inputs :
            /\ \/ obj[i].exists /\ obj' = [obj EXCEPT ![i] = Edited(@)]
               \/ obj[i].exists /\ obj' = [obj EXCEPT ![i] = Deleted(@)]
               \/ ~obj[i].exists /\ obj' = [obj EXCEPT ![i] = Recreated(@)]
            /\ UNCHANGED builder
       \/ /\ "builder" \in Changed /\ builder.exists
          /\ builder' = Edited(builder) \/ builder' = Deleted(builder)
          /\ UNCHANGED obj
    /\ UNCHANGED <<kind, cache, queue, builderCache, lease, pc, workVars,
                   dropped, registry, faults>>

\* The informer of input i sees its newest version: its own controller queues
\* it and the tracker notifies the builder.
InformInput(i) ==
    /\ cache[i] # obj[i]
    /\ cache' = [cache EXCEPT ![i] = obj[i]]
    /\ queue' = queue \cup {i} \cup Notified(i)
    /\ UNCHANGED <<kind, obj, builder, builderCache, lease, pc, workVars, dropped, registry,
                   changes, faults>>

InformBuilder ==
    /\ builderCache # builder
    /\ builderCache' = builder
    /\ queue' = queue \cup {"builder"}
    /\ UNCHANGED <<kind, inputVars, builder, lease, pc, workVars, dropped, registry,
                   changes, faults>>

\* reconcile...Status and CreateStatusWithReadyCondition: an error takes the
\* place of everything the status said.
StatusAfterRead(input, e) ==
    IF e = "" THEN [of |-> input.spec, error |-> ""] ELSE [of |-> 0, error |-> e]

\* A resync and a restart queue every input.  The reconcile of one whose status
\* is right writes nothing unless its read fails, so the model keeps those with
\* something to write and at most one more, for whose read a fault is left.
Stale(c) == {i \in Inputs : c[i].exists /\ StatusAfterRead(c[i], "") # c[i].status}
OneOf(inputs) == {{}} \cup (IF faults' < MaxFaults THEN {{i} : i \in inputs} ELSE {})

\* Nothing is queued, under way or still to be seen by an informer.
Settled ==
    /\ Idle /\ queue = {}
    /\ cache = obj /\ builderCache = builder

\* Mutant of Resync: informers without a resync period.
Resync_never ==
    /\ Settled
    /\ lease' = [i \in Inputs |-> IF lease[i] = 0 THEN 0 ELSE lease[i] - 1]
    /\ UNCHANGED <<kind, inputVars, queue, builder, builderCache, pc, workVars,
                   dropped, registry, changes, faults>>

\* A resync period passes: leases grow older and every informer hands out again
\* what it holds.  Ten hours are taken to be longer than any work in hand.
Resync ==
    /\ Settled
    /\ UNCHANGED faults
    /\ lease' = [i \in Inputs |-> IF lease[i] = 0 THEN 0 ELSE lease[i] - 1]
    /\ \E one \in OneOf({i \in Inputs : cache[i].exists}) :
         queue' = Stale(cache) \cup one
                  \cup (IF builderCache.exists THEN {"builder"} ELSE {})
                  \cup UNION {Notified(i) : i \in {j \in Inputs : cache[j].exists}}
    /\ UNCHANGED <<kind, inputVars, builder, builderCache, pc, workVars,
                   dropped, registry, changes>>

\* The controller stops and starts: queues, leases and the reconcile in hand
\* are gone, and the informers list everything.  waitForSync does not wait for
\* the ClusterLifecycle informer, whose list may still be missing.
Crash ==
    /\ "crash" \in Faults /\ faults < MaxFaults
    /\ faults' = faults + 1
    /\ \/ cache' = obj
       \/ cache' = [obj EXCEPT !["ClusterLifecycle"].exists = FALSE]
    /\ builderCache' = builder
    /\ \E one \in OneOf({i \in Inputs : cache'[i].exists}) :
         queue' = Stale(cache') \cup one
                  \cup (IF builder.exists THEN {"builder"} ELSE {})
    /\ lease' = [i \in Inputs |-> 0]
    /\ pc' = "idle"
    /\ copy' = InitBuilder /\ got' = Nothing /\ err' = ""
    /\ UNCHANGED <<kind, obj, builder, dropped, registry, changes>>

---------------------------------------------------------------------------
(***************************************************************************)
(* The controllers of the inputs.  Each reads its cached object and the    *)
(* images it names, and writes what it found, or the error alone.          *)
(***************************************************************************)

\* The faults a call may meet, and what they cost.
Fault(kinds) == {""} \cup (Faults \cap kinds)
Cost(e) == IF e = "" THEN 0 ELSE 1

\* An input that is gone from the cache is done with.  Otherwise its status is
\* sent unless the cache shows it already; the API server refuses it when the
\* cached copy is not the newest version, and the call itself may fail.
\* A status that was not written hides the error of the read.
ReconcileInput(i) ==
    \E e \in Fault({"http", "dial", "call"}), lost \in Fault({"call"}) :
        LET status  == StatusAfterRead(cache[i], e)
            needed  == cache[i].exists /\ status # cache[i].status
            written == needed /\ obj[i] = cache[i] /\ lost = ""
        IN  /\ i \in queue
            /\ e # "" => cache[i].exists
            /\ lost # "" => needed
            /\ faults' = faults + Cost(e) + Cost(lost)
            /\ faults' <= MaxFaults
            /\ obj' = IF written
                      THEN [obj EXCEPT ![i] = Touch([@ EXCEPT !.status = status])]
                      ELSE obj
            /\ LET error == IF needed /\ ~written THEN "update" ELSE e
               IN  /\ queue' = (queue \ {i}) \cup Requeue(i, error)
                   /\ Remember(i, error)
            /\ UNCHANGED <<kind, cache, builder, builderCache, lease, pc,
                           workVars, registry, changes>>

ReconcileClusterStack == ReconcileInput("ClusterStack")
ReconcileClusterLifecycle == ReconcileInput("ClusterLifecycle")
ReconcileClusterStore == ReconcileInput("ClusterStore")
ReconcileBuildpack == ReconcileInput("Buildpack")
ReconcileClusterBuildpack == ReconcileInput("ClusterBuildpack")

---------------------------------------------------------------------------
(***************************************************************************)
(* The reconcile of the builder.                                           *)
(***************************************************************************)

\* reconcileBuilder returns an error: the status is next.
Fail(e) == err' = e /\ pc' = "update"

\* Reconcile takes the key from the queue and, if the builder is there, tracks
\* its stack, its lifecycle and its store.
StartReconcile ==
    /\ Idle /\ "builder" \in queue
    /\ queue' = queue \ {"builder"}
    /\ IF builderCache.exists
       THEN /\ copy' = builderCache /\ got' = Nothing /\ err' = ""
            /\ Track(TrackedObjects)
            /\ pc' = "store"
       ELSE UNCHANGED <<copy, got, err, lease, pc>>
    /\ UNCHANGED <<kind, inputVars, builder, builderCache, dropped, registry,
                   changes, faults>>

\* The store is read, and the kinds of the buildpacks are tracked after it: a
\* builder whose store is missing leaves without a lease on them.
GetStore ==
    /\ pc = "store"
    /\ \/ /\ ~cache["ClusterStore"].exists
          /\ Fail("store not found")
          /\ UNCHANGED <<got, lease>>
       \/ /\ cache["ClusterStore"].exists
          /\ got' = [got EXCEPT !["ClusterStore"] = cache["ClusterStore"].status.of]
          /\ Track(Used \ TrackedObjects)
          /\ pc' = "inputs"
          /\ UNCHANGED err
    /\ UNCHANGED <<kind, inputVars, queue, builder, builderCache, copy,
                   dropped, registry, changes, faults>>

\* The buildpacks are listed, the stack and the lifecycle must be Ready, at
\* whatever generation, and the keychains and secrets are fetched.
GetInputs ==
    /\ pc = "inputs"
    /\ got' = [i \in Inputs |->
                 IF i = "ClusterStore" \/ i \notin Used THEN got[i]
                 ELSE IF cache[i].exists THEN cache[i].status.of ELSE 0]
    /\ \E e \in Fault({"call"}) :
         /\ faults' = faults + Cost(e) /\ faults' <= MaxFaults
         /\ \/ /\ e = "" /\ ~Ready(cache["ClusterStack"])
               /\ Fail("stack not ready")
            \/ /\ e = "" /\ Ready(cache["ClusterStack"])
               /\ ~Ready(cache["ClusterLifecycle"])
               /\ Fail("lifecycle not ready")
            \/ /\ Ready(cache["ClusterStack"]) /\ Ready(cache["ClusterLifecycle"])
               /\ IF e = "" THEN pc' = "relocate" /\ UNCHANGED err ELSE Fail(e)
    /\ UNCHANGED <<kind, inputVars, queue, builder, builderCache, lease, copy,
                   dropped, registry, changes>>

\* The image the builder is about to be.
NewImage == [spec |-> copy.spec, of |-> got]

\* One registry write of CreateBuilder: an error may come before the write, or
\* after it, and goes through handleError or not.
Write(entry, handled, next) ==
    \E e \in Fault({"http", "dial"}), done \in BOOLEAN :
        /\ e = "" => done
        /\ faults' = faults + Cost(e) /\ faults' <= MaxFaults
        /\ registry' = IF done THEN registry \cup {entry} ELSE registry
        /\ IF e = "" THEN next ELSE Fail(IF e = "http" /\ ~handled THEN "unmarked" ELSE e)
        /\ UNCHANGED <<kind, inputVars, queue, builder, builderCache, lease,
                       copy, got, dropped, changes>>

\* Client.Save handles the errors of the write, and not those of the tag it puts
\* on what is written.
Save(entry, next) ==
    Write(entry, TRUE, next) \/ (Write(entry, FALSE, next) /\ entry \in registry')

\* CreateBuilder fetches the stack and lifecycle images and relocates the run
\* image first; then it resolves the buildpacks, which fails when a source of
\* them has none to offer.
RelocateRunImage ==
    /\ pc = "relocate"
    /\ Save(<<"run", got["ClusterStack"]>>,
            IF \E i \in Used : got[i] = 0 THEN Fail("buildpack not found")
            ELSE pc' = "save" /\ UNCHANGED err)

SaveBuilder ==
    /\ pc = "save"
    /\ Save(<<"image", NewImage>>,
            pc' = (IF CosignSecrets THEN "sign" ELSE "update") /\ UNCHANGED err)

\* Mutant of SignBuilder: a failure to sign is logged and passed over.
SignBuilder_unchecked ==
    /\ pc = "sign" /\ pc' = "update"
    /\ registry' \in {registry, registry \cup {<<"signature", NewImage>>}}
    /\ UNCHANGED <<kind, inputVars, queue, builder, builderCache, lease, workVars,
                   dropped, changes, faults>>

\* No error of cosign is marked as a NetworkError.
SignBuilder ==
    /\ pc = "sign"
    /\ Write(<<"signature", NewImage>>, FALSE, pc' = "update" /\ UNCHANGED err)

\* BuilderStatus.BuilderRecord
BuilderRecord(image) ==
    [observed |-> copy.spec, image |-> image, ready |-> TRUE, upToDate |-> TRUE,
     error |-> ""]

\* Mutant of ErrorCreate: the error replaces the whole status, as for an input.
ErrorCreate_wiped(e) ==
    [observed |-> copy.spec, image |-> NoImage, ready |-> FALSE, upToDate |-> FALSE,
     error |-> e]

\* BuilderStatus.ErrorCreate: only the conditions change, and a builder that
\* has an image stays Ready.
ErrorCreate(e) ==
    [copy.status EXCEPT !.observed = copy.spec, !.ready = copy.status.image # NoImage,
                        !.upToDate = FALSE, !.error = e]

\* updateStatus, and the end of the reconcile: an update that fails hides the
\* error of the creation, and no such error is a network error.
UpdateStatus ==
    \E lost \in Fault({"call"}) :
        LET status  == IF err = "" THEN BuilderRecord(NewImage) ELSE ErrorCreate(err)
            needed  == builderCache.exists => status # builderCache.status
            written == /\ needed /\ builderCache.exists /\ lost = ""
                       /\ builder.exists /\ builder.version = copy.version
        IN  /\ pc = "update"
            /\ lost # "" => needed /\ builderCache.exists
            /\ faults' = faults + Cost(lost) /\ faults' <= MaxFaults
            /\ builder' = IF written THEN Touch([builder EXCEPT !.status = status])
                                     ELSE builder
            /\ LET error == IF needed /\ ~written THEN "update" ELSE err
               IN  /\ queue' = queue \cup Requeue("builder", error)
                   /\ Remember("builder", error)
            /\ pc' = "idle"
            /\ copy' = InitBuilder /\ got' = Nothing /\ err' = ""
            /\ UNCHANGED <<kind, inputVars, builderCache, lease, registry, changes>>

---------------------------------------------------------------------------
Init ==
    /\ kind \in Kinds
    /\ \E stored \in BOOLEAN :
         obj = [i \in Inputs |-> IF i = "ClusterStore" /\ ~stored
                                 THEN [InitInput EXCEPT !.exists = FALSE] ELSE InitInput]
    /\ cache = obj
    /\ builder = InitBuilder /\ builderCache = builder
    /\ queue = {"builder"}
    /\ lease = [i \in Inputs |-> 0]
    /\ pc = "idle" /\ copy = InitBuilder /\ got = Nothing /\ err = ""
    /\ dropped = {} /\ registry = {}
    /\ changes = 0 /\ faults = 0

BuilderReads == kind = "Builder" /\ (StartReconcile \/ GetStore \/ GetInputs)

BuilderWrites ==
    kind = "Builder" /\ (RelocateRunImage \/ SaveBuilder \/ SignBuilder \/ UpdateStatus)

\* The ClusterBuilder reconciler takes the same steps with its own inputs.
ClusterBuilderReads ==
    kind = "ClusterBuilder" /\ (StartReconcile \/ GetStore \/ GetInputs)

ClusterBuilderWrites ==
    kind = "ClusterBuilder" /\ (RelocateRunImage \/ SaveBuilder \/ SignBuilder \/ UpdateStatus)

ReconcileBuilder ==
    BuilderReads \/ BuilderWrites \/ ClusterBuilderReads \/ ClusterBuilderWrites

ReconcileInputs ==
    ReconcileClusterStack \/ ReconcileClusterLifecycle \/ ReconcileClusterStore
        \/ ReconcileBuildpack \/ ReconcileClusterBuildpack

Inform == InformBuilder \/ \E i \in Inputs : InformInput(i)

Next ==
    UserChange \/ Inform \/ Resync \/ Crash \/ ReconcileInputs \/ ReconcileBuilder

Spec == Init /\ [][Next]_vars

\* The work queues hand out every key, watches deliver what has changed, and
\* every ten hours the informers resync.
Fairness ==
    /\ WF_vars(ReconcileBuilder) /\ WF_vars(Resync)
    /\ WF_vars(InformBuilder)
    /\ \A i \in Inputs : WF_vars(InformInput(i)) /\ WF_vars(ReconcileInput(i))

FairSpec == Spec /\ Fairness

---------------------------------------------------------------------------
(***************************************************************************)
(* Properties.                                                             *)
(***************************************************************************)

Images == [spec : Nat, of : [Inputs -> Nat]]

\* The errors a status may show.
Errors == {"", Unwritten, "http", "dial", "unmarked", "call", "store not found", "stack not ready",
           "lifecycle not ready", "buildpack not found"}

BuilderObjects ==
    [exists : BOOLEAN, version : Nat, spec : Nat,
     status : [observed : Nat, image : Images, ready : BOOLEAN,
               upToDate : BOOLEAN, error : Errors]]

InputObjects ==
    [exists : BOOLEAN, version : Nat, spec : Nat,
     status : [of : Nat, error : Errors]]

\* Every variable has the shape the controllers rely on.
TypeOK ==
    /\ kind \in Kinds
    /\ obj \in [Inputs -> InputObjects] /\ cache \in [Inputs -> InputObjects]
    /\ queue \subseteq Inputs \cup {"builder"}
    /\ builder \in BuilderObjects /\ builderCache \in BuilderObjects
    /\ copy \in BuilderObjects
    /\ lease \in [Inputs -> 0..TrackerResyncPeriod]
    /\ pc \in {"idle", "store", "inputs", "relocate", "save", "sign", "update"}
    /\ got \in [Inputs -> Nat] /\ err \in Errors
    /\ dropped \subseteq Inputs \cup {"builder"}
    /\ registry \subseteq ({"run"} \X Nat) \cup ({"image", "signature"} \X Images)
    /\ changes \in 0..MaxChanges /\ faults \in 0..MaxFaults

\* The image the builder should be, given what its inputs hold.
WantedImage == [spec |-> builder.spec,
                of |-> [i \in Inputs |-> IF i \in Used THEN obj[i].spec ELSE 0]]

AllRead == \A i \in Used : Ready(obj[i]) /\ obj[i].status.of = obj[i].spec

\* No change of an input is lost on the builder: once everything is quiet, and
\* unless the last reconcile of a key ended in a fault that is not retried, the
\* builder's status is about its newest spec, and it is up to date exactly when
\* all its inputs can be had, and then made from what they hold now.  This is
\* what Track before Get, the kinds tracked, leases longer than a resync and
\* the refusal of stale status updates are for.
SettledBuilderIsCurrent ==
    Settled /\ dropped = {} /\ builder.exists =>
        /\ builder.status.observed = builder.spec
        /\ builder.status.upToDate <=> AllRead
        /\ AllRead => builder.status.image = WantedImage

\* NetworkErrorReconciler: "Re-queue the key if it's a network error."  Once
\* everything is quiet no status is left with the failure of a network call.
NetworkErrorsAreRetried ==
    Settled => /\ \A i \in Inputs : obj[i].exists => obj[i].status.error \notin {"http", "dial"}
               /\ builder.exists => builder.status.error \notin {"http", "dial", "unmarked"}

\* What a builder's status offers to Images is all there: the run image it
\* names was relocated, the image pushed and, with cosign secrets, signed,
\* whichever call of a creation failed.
ReportedImageIsComplete ==
    builder.status.image # NoImage =>
        /\ <<"run", builder.status.image.of["ClusterStack"]>> \in registry
        /\ <<"image", builder.status.image>> \in registry
        /\ CosignSecrets => <<"signature", builder.status.image>> \in registry

\* A builder that has offered an image goes on offering one: no failed or
\* deleted input takes it away, and no stale read brings an older one back.
KeepsServing ==
    [][builder.status.image # NoImage =>
         /\ builder'.status.ready /\ builder'.status.image # NoImage
         /\ \A i \in Inputs : builder'.status.image.of[i] >= builder.status.image.of[i]]_vars

\* Whatever failed before, a builder whose inputs exist is up to date with them
\* in the end: what no event brings back, the resync does.
EventuallyUpToDate ==
    <>[](builder.exists /\ (\A i \in Used : obj[i].exists)
           => UpToDate(builder) /\ builder.status.image = WantedImage)
===============================================================================
