--------------------------- MODULE ImageController ---------------------------
(***************************************************************************)
(* The Image reconciler of kpack (pkg/reconciler/image) for one Image:     *)
(* the objects it keeps in the Kubernetes API server, the informer caches  *)
(* it reads them from, and one reconcile cut into steps at its API calls.  *)
(* Between two steps users, the Build controller, the SourceResolver       *)
(* controller and the informers may act, an API call may fail and the      *)
(* controller may crash.                                                   *)
(*                                                                         *)
(* Builds are kept as the history of the Build collection: `builds` lists  *)
(* every Build ever created, each with the resource version (1..rv) at     *)
(* which it was created, annotated, finished and deleted, 0 standing for   *)
(* "not yet".  What the Build informer shows is then a function of the     *)
(* version `seen` it has reached, and a list taken earlier is a number.    *)
(***************************************************************************)
EXTENDS Integers, Sequences, FiniteSets

CONSTANTS
    Sources,          \* values of spec.source
    GitSources,       \* those of them that are Git sources, polled for commits
    Envs,             \* values of spec.build, the rest of what CONFIG compares
    CacheSizes,       \* values of spec.cache.volume.size, 0 for no volume cache
    RunImages,        \* what a ready builder offers: stack, buildpacks, lifecycle
    FailedLimit,      \* spec.failedBuildHistoryLimit
    SuccessLimit,     \* spec.successBuildHistoryLimit
    SameSecond,       \* may two Builds of the Image carry one creationTimestamp?
    ChangeKinds,      \* which of edit, trigger, commit, builder may happen
    MaxBuilds,        \* bound on the Builds created in a behaviour
    MaxChanges,       \* bound on edits, commits, triggers and builder changes
    MaxFaults         \* bound on failed API calls and controller crashes

ASSUME SpecAssumption ==
    /\ Sources # {} /\ GitSources \subseteq Sources
    /\ Envs # {} /\ RunImages # {}
    /\ CacheSizes \subseteq Nat /\ CacheSizes # {}

\* Image.validateBuildHistoryLimit: a history limit is at least 1.
ASSUME LimitsAssumption ==
    /\ FailedLimit \in Nat \ {0}
    /\ SuccessLimit \in Nat \ {0}

ASSUME BoundsAssumption ==
    /\ SameSecond \in BOOLEAN
    /\ ChangeKinds \subseteq {"edit", "trigger", "commit", "builder"}
    /\ MaxBuilds \in Nat /\ MaxChanges \in Nat /\ MaxFaults \in Nat

VARIABLES
    builds,           \* every Build ever created for the Image, in creation order
    rv,               \* resource version of the Build collection
    seen,             \* resource version the Build informer has reached
    specs,            \* specs[g] is the Image's spec at generation g
    image,            \* the Image object: version, generation, status
    imageCache,       \* ... as the Image informer last saw it
    sr,               \* the Image's SourceResolver
    srCache,          \* ... as the SourceResolver informer last saw it
    pvc,              \* the Image's build cache claim
    pvcCache,         \* ... as the claim informer last saw it
    head,             \* commit at the head of the tracked Git revision
    builder,          \* the builder, as the DuckBuilder lister shows it
    dirty,            \* the Image's key is in the work queue
    pc,               \* next step of the reconcile in progress
    view,             \* Build version that fetchLastBuild listed
    last,             \* the lastBuild it returned, 0 for nil
    trim,             \* Build version that deleteOldBuilds listed
    w,                \* the other local variables of the reconcile
    changes, faults   \* environment events so far

buildVars  == <<builds, rv>>
imageVars  == <<specs, image>>
cacheVars  == <<imageCache, srCache, pvcCache>>
budgetVars == <<changes, faults>>
vars == <<builds, rv, seen, specs, image, imageCache, sr, srCache, pvc, pvcCache,
          head, builder, dirty, pc, view, last, trim, w, changes, faults>>

-----------------------------------------------------------------------------
(* Objects. *)

ImageSpecs == [src : Sources, env : Envs, cache : CacheSizes]

Builders == { b \in [found : BOOLEAN, ready : BOOLEAN, run : RunImages] : b.ready => b.found }

\* ImageStatus: the reason of the Ready condition, buildCounter, latestBuildRef,
\* latestImage (the Build it came from), whether buildCacheName is set, and
\* observedGeneration.
NoStatus == [cond |-> "none", counter |-> 0, ref |-> 0, latestImage |-> 0,
             claim |-> FALSE, obs |-> 0]

\* A SourceResolver that does not exist has generation 0.
NoResolver == [gen |-> 0, src |-> CHOOSE s \in Sources : TRUE, obs |-> 0,
               resolved |-> CHOOSE s \in Sources : TRUE, rev |-> 0]

\* A claim of size 0 does not exist; uid counts the claims there have been.
NoClaim == [uid |-> 0, size |-> 0]

NoWork == [img |-> [ver |-> 0, gen |-> 0, status |-> NoStatus], sr |-> NoResolver,
           bld |-> [found |-> FALSE, ready |-> FALSE, run |-> CHOOSE r \in RunImages : TRUE],
           claim |-> FALSE, status |-> NoStatus]

-----------------------------------------------------------------------------
(* Builds as a list at resource version v shows them. *)

VisibleAt(v) == { i \in DOMAIN builds :
                    /\ builds[i].created <= v
                    /\ ~(builds[i].deleted # 0 /\ builds[i].deleted <= v) }

FinishedAt(i, v) == i # 0 /\ builds[i].finished # 0 /\ builds[i].finished <= v
RunningAt(i, v)  == i # 0 /\ ~FinishedAt(i, v)
SuccessAt(i, v)  == FinishedAt(i, v) /\ builds[i].ok
FailureAt(i, v)  == FinishedAt(i, v) /\ ~builds[i].ok
TriggeredAt(i, v) == i # 0 /\ builds[i].triggered # 0 /\ builds[i].triggered <= v

BadOldestOf(S) == { i \in S : \A j \in S : builds[j].ts <= builds[i].ts }

\* ByCreationTimestamp: one of the earliest of S, and one of the latest.  Builds
\* with the same timestamp are sorted in no particular order.
OldestOf(S) == { i \in S : \A j \in S : builds[i].ts <= builds[j].ts }
NewestOf(S) == { i \in S : \A j \in S : builds[j].ts <= builds[i].ts }

\* newBuildList(...).lastBuild
LastBuilds(v) == IF VisibleAt(v) = {} THEN {0} ELSE NewestOf(VisibleAt(v))

-----------------------------------------------------------------------------
(* Whether a build is needed, and which one. *)

\* SourceResolver.Ready
BadResolverReady(r) == r.obs > 0
ResolverReady(r) == r.obs > 0 /\ r.gen = r.obs

BadConfigChange(l, env, r) == builds[l].env # env
BadBuilderChange(l, v, bld) == builds[l].run # bld.run

\* commitChange, configChange, and the three changes of the builder, which only
\* a successful last build is compared with.
CommitChange(l, r) == /\ builds[l].src \in GitSources /\ r.resolved \in GitSources
                      /\ builds[l].rev # r.rev
ConfigChange(l, env, r) == builds[l].env # env \/ builds[l].src # r.resolved
BuilderChange(l, v, bld) == SuccessAt(l, v) /\ builds[l].run # bld.run

\* isBuildRequired on the last build l as listed at version v: "Unknown" until
\* source and builder are ready.
IsBuildRequired(l, v, env, r, bld) ==
    CASE ~ResolverReady(r) \/ ~bld.ready -> "Unknown"
      [] OTHER -> IF \/ l = 0
                     \/ TriggeredAt(l, v)
                     \/ CommitChange(l, r)
                     \/ ConfigChange(l, env, r)
                     \/ BuilderChange(l, v, bld)
                  THEN "True" ELSE "False"

BadBuildCounter(l) == IF l = 0 THEN -1 ELSE builds[l].num

\* buildCounter: the number of the last build.
BuildCounter(l) == IF l = 0 THEN 0 ELSE builds[l].num

\* lastBuild(latestBuild) of image.Build: the image a new build starts from.
BadLastImage(l, v) == IF SuccessAt(l, v) THEN l ELSE 0
LastImage(l, v) == CASE l = 0 -> 0
                     [] FailureAt(l, v) -> builds[l].lastImage
                     [] OTHER -> l

\* Image.LatestForImage
LatestForImage(l, v, img) == IF SuccessAt(l, v) THEN l ELSE img.status.latestImage

\* The reason that noScheduledBuild puts in the Ready condition.
NoScheduledBuild(needed, l, v, bld) ==
    CASE ~bld.ready                                              -> "BuilderNotReady"
      [] bld.ready /\ needed = "Unknown"                         -> "ResolverNotReady"
      [] bld.ready /\ needed # "Unknown" /\ SuccessAt(l, v)      -> "UpToDate"
      [] OTHER                                                   -> "BuildFailed"

\* Timestamps are whole seconds: the next Build may share the newest one's.
NextTimestamps == LET newest == IF builds = <<>> THEN 0 ELSE builds[Len(builds)].ts
                  IN  IF SameSecond THEN {newest, newest + 1} ELSE {newest + 1}

-----------------------------------------------------------------------------
(* The informers: caches follow the API server and queue the Image. *)

SyncImage ==
    /\ imageCache # image
    /\ imageCache' = image
    /\ dirty' = TRUE
    /\ UNCHANGED <<buildVars, seen, imageVars, sr, srCache, pvc, pvcCache, head,
                   builder, pc, view, last, trim, w, budgetVars>>

SyncBuilds ==
    /\ seen < rv
    /\ seen' = seen + 1
    /\ dirty' = TRUE
    /\ UNCHANGED <<buildVars, imageVars, cacheVars, sr, pvc, head,
                   builder, pc, view, last, trim, w, budgetVars>>

BadSyncResolver ==
    /\ srCache # sr
    /\ srCache' = sr
    /\ UNCHANGED <<buildVars, seen, imageVars, imageCache, sr, pvc, pvcCache, head,
                   builder, dirty, pc, view, last, trim, w, budgetVars>>
SyncResolver ==
    /\ srCache # sr
    /\ srCache' = sr
    /\ dirty' = TRUE
    /\ UNCHANGED <<buildVars, seen, imageVars, imageCache, sr, pvc, pvcCache, head,
                   builder, pc, view, last, trim, w, budgetVars>>

SyncClaim ==
    /\ pvcCache # pvc
    /\ pvcCache' = pvc
    /\ dirty' = TRUE
    /\ UNCHANGED <<buildVars, seen, imageVars, imageCache, sr, srCache, pvc, head,
                   builder, pc, view, last, trim, w, budgetVars>>

-----------------------------------------------------------------------------
(* The reconcile. *)

Idle == pc' = "idle" /\ view' = 0 /\ last' = 0 /\ trim' = 0 /\ w' = NoWork

\* Reconcile returns an error: nothing more is done and the key is queued again.
BadFailed == Idle /\ UNCHANGED dirty
Failed == Idle /\ dirty' = TRUE

SpecOf(img) == specs[img.gen]

\* Reconcile, up to the first API call: the Image, its builder and its last build
\* are read from the listers.
StartReconcile ==
    /\ pc = "idle"
    /\ dirty
    /\ dirty' = FALSE
    /\ view' = seen
    /\ trim' = 0
    /\ \E l \in LastBuilds(seen) :
         LET work(cond) == [NoWork EXCEPT !.img = imageCache, !.bld = builder,
                                          !.status = [imageCache.status EXCEPT !.cond = cond]]
         IN  /\ last' = l
             /\ \/ /\ ~builder.found
                   /\ pc' = "status"
                   /\ w' = work("BuilderNotFound")
                \/ /\ builder.found
                   /\ RunningAt(l, seen)
                   /\ pc' = "status"
                   /\ w' = work("BuildRunning")
                \/ /\ builder.found
                   /\ ~RunningAt(l, seen)
                   /\ pc' = "cache"
                   /\ w' = work(imageCache.status.cond)
    /\ UNCHANGED <<buildVars, seen, imageVars, cacheVars, sr, pvc, head, builder, budgetVars>>

\* What reconcileBuildCache does to the claim: size is the size the spec asks for.
ClaimDelete(size) == size = 0 /\ pvcCache.size # 0
ClaimCreate(size) == size # 0 /\ pvcCache.size = 0
ClaimUpdate(size) == size # 0 /\ pvcCache.size # 0 /\ pvcCache.size # size

\* reconcileBuildCache: the delete has the cached uid as a precondition, the update
\* its resource version, and Kubernetes refuses to shrink a claim.
ReconcileBuildCache ==
    /\ pc = "cache"
    /\ LET size == SpecOf(w.img).cache
           Next(p) == /\ pvc' = p
                      /\ pc' = "source"
                      /\ w' = [w EXCEPT !.claim = (size # 0)]
                      /\ UNCHANGED <<dirty, view, last, trim>>
           Error   == Failed /\ UNCHANGED pvc
       IN  \/ /\ ~ClaimDelete(size) /\ ~ClaimCreate(size) /\ ~ClaimUpdate(size)
              /\ Next(pvc)
           \/ /\ ClaimDelete(size)
              /\ IF pvc.size # 0 /\ pvc.uid = pvcCache.uid
                 THEN Next([pvc EXCEPT !.size = 0]) ELSE Error
           \/ /\ ClaimCreate(size)
              /\ IF pvc.size = 0
                 THEN Next([uid |-> pvc.uid + 1, size |-> size]) ELSE Error
           \/ /\ ClaimUpdate(size)
              /\ IF pvc = pvcCache /\ size > pvc.size
                 THEN Next([pvc EXCEPT !.size = size]) ELSE Error
    /\ UNCHANGED <<buildVars, seen, imageVars, cacheVars, sr, head, builder, budgetVars>>

\* reconcileSourceResolver: what is created or updated is returned by the API, and
\* is not ready before the SourceResolver controller has resolved it.
ReconcileSourceResolver ==
    /\ pc = "source"
    /\ LET desired == SpecOf(w.img).src
           Next(r) == /\ w' = [w EXCEPT !.sr = r]
                      /\ pc' = "build"
                      /\ UNCHANGED <<dirty, view, last, trim>>
           Error   == Failed /\ UNCHANGED sr
           Write(r) == sr' = r /\ Next(r)
       IN  \/ /\ srCache.gen = 0
              /\ IF sr.gen = 0
                 THEN Write([sr EXCEPT !.gen = 1, !.src = desired]) ELSE Error
           \/ /\ srCache.gen # 0 /\ srCache.src = desired
              /\ Next(srCache) /\ UNCHANGED sr
           \/ /\ srCache.gen # 0 /\ srCache.src # desired
              /\ IF sr = srCache
                 THEN Write([sr EXCEPT !.gen = @ + 1, !.src = desired]) ELSE Error
    /\ UNCHANGED <<buildVars, seen, imageVars, cacheVars, pvc, head, builder, budgetVars>>

Needed == IsBuildRequired(last, view, SpecOf(w.img).env, w.sr, w.bld)

\* reconcileBuild when no build is needed, or none can be judged needed.
SkipBuild ==
    /\ pc = "build"
    /\ Needed # "True"
    /\ pc' = "trimFailed"
    /\ w' = [w EXCEPT !.status =
              [cond        |-> NoScheduledBuild(Needed, last, view, w.bld),
               counter     |-> BuildCounter(last),
               ref         |-> last,
               latestImage |-> LatestForImage(last, view, w.img),
               claim       |-> w.claim,
               obs         |-> w.img.status.obs]]
    /\ UNCHANGED <<buildVars, seen, imageVars, cacheVars, sr, pvc, head, builder, dirty,
                   view, last, trim, budgetVars>>

\* A Build of this number is in the API server: its name is taken.
BadNameTaken(n) == FALSE
NameTaken(n) == \E i \in DOMAIN builds : builds[i].num = n /\ builds[i].deleted = 0

\* image.Build(...): buildCacheName is read from the status the Image had, not from
\* the claim just reconciled.
NewBuild(n, ts) ==
    [num |-> n, ts |-> ts, gen |-> w.img.gen, env |-> SpecOf(w.img).env,
     src |-> w.sr.resolved, rev |-> w.sr.rev, run |-> w.bld.run,
     lastImage |-> LastImage(last, view),
     claim |-> SpecOf(w.img).cache # 0 /\ w.img.status.claim,
     created |-> rv + 1, triggered |-> 0, finished |-> 0, ok |-> FALSE, deleted |-> 0]

\* reconcileBuild when a build is needed: Builds are created under a name that
\* their number determines.
CreateBuild ==
    /\ pc = "build"
    /\ Needed = "True"
    /\ Len(builds) < MaxBuilds
    /\ LET n == BuildCounter(last) + 1
       IN  \/ /\ NameTaken(n)
              /\ Failed
              /\ UNCHANGED buildVars
           \/ /\ ~NameTaken(n)
              /\ \E ts \in NextTimestamps : builds' = Append(builds, NewBuild(n, ts))
              /\ rv' = rv + 1
              /\ pc' = "trimFailed"
              /\ w' = [w EXCEPT !.status =
                        [cond        |-> "BuildRunning",
                         counter     |-> n,
                         ref         |-> Len(builds) + 1,
                         latestImage |-> LatestForImage(last, view, w.img),
                         claim       |-> w.claim,
                         obs         |-> w.img.status.obs]]
              /\ UNCHANGED <<dirty, view, last, trim>>
    /\ UNCHANGED <<seen, imageVars, cacheVars, sr, pvc, head, builder, budgetVars>>

FailedBuilds(v)  == { i \in VisibleAt(v) : FailureAt(i, v) }
SuccessBuilds(v) == { i \in VisibleAt(v) : SuccessAt(i, v) }

\* Deleting the Build i that a list showed: NotFound when it is already gone.
DeleteBuild(i, next) ==
    IF builds[i].deleted = 0
    THEN /\ builds' = [builds EXCEPT ![i].deleted = rv + 1]
         /\ rv' = rv + 1
         /\ next
    ELSE Failed /\ UNCHANGED buildVars

\* One half of deleteOldBuilds: the oldest of S goes when S is over the limit.
BadTrimOneAtLimit(S, limit, next) ==
    \/ Cardinality(S) < limit /\ next /\ UNCHANGED buildVars
    \/ Cardinality(S) >= limit /\ \E i \in OldestOf(S) : DeleteBuild(i, next)
TrimOne(S, limit, next) ==
    \/ Cardinality(S) <= limit /\ next /\ UNCHANGED buildVars
    \/ Cardinality(S) > limit /\ \E i \in OldestOf(S) : DeleteBuild(i, next)

\* deleteOldBuilds lists once, then deletes a failed and a successful Build.
TrimFailed ==
    /\ pc = "trimFailed"
    /\ TrimOne(FailedBuilds(seen), FailedLimit,
               pc' = "trimSuccess" /\ trim' = seen /\ UNCHANGED <<dirty, view, last, w>>)
    /\ UNCHANGED <<seen, imageVars, cacheVars, sr, pvc, head, builder, budgetVars>>

TrimSuccess ==
    /\ pc = "trimSuccess"
    /\ TrimOne(SuccessBuilds(trim), SuccessLimit,
               pc' = "status" /\ UNCHANGED <<dirty, view, last, trim, w>>)
    /\ UNCHANGED <<seen, imageVars, cacheVars, sr, pvc, head, builder, budgetVars>>

\* UpdateStatus on an Image that changed since it was read is a conflict.
Conflict(img) == image.ver # img.ver

\* updateStatus: no call when the lister already shows the status.
UpdateStatus ==
    /\ pc = "status"
    /\ LET desired == [w.status EXCEPT !.obs = w.img.gen]
       IN  \/ /\ imageCache.status = desired
              /\ Idle /\ UNCHANGED <<dirty, image>>
           \/ /\ imageCache.status # desired /\ Conflict(w.img)
              /\ Failed /\ UNCHANGED image
           \/ /\ imageCache.status # desired /\ ~Conflict(w.img)
              /\ image' = [image EXCEPT !.ver = @ + 1, !.status = desired]
              /\ Idle /\ UNCHANGED dirty
    /\ UNCHANGED <<buildVars, seen, specs, cacheVars, sr, pvc, head, builder, budgetVars>>

Reconcile == \/ StartReconcile \/ ReconcileBuildCache \/ ReconcileSourceResolver
             \/ SkipBuild \/ CreateBuild \/ TrimFailed \/ TrimSuccess \/ UpdateStatus

\* An API call of the reconcile fails; its effect, if it had one, is the step before.
CallFails ==
    /\ pc # "idle"
    /\ faults < MaxFaults
    /\ faults' = faults + 1
    /\ Failed
    /\ UNCHANGED <<buildVars, seen, imageVars, cacheVars, sr, pvc, head, builder, changes>>

\* The controller restarts: its caches are listed afresh and every Image is queued.
Crash ==
    /\ faults < MaxFaults
    /\ faults' = faults + 1
    /\ Failed
    /\ seen' = rv
    /\ imageCache' = image /\ srCache' = sr /\ pvcCache' = pvc
    /\ UNCHANGED <<buildVars, imageVars, sr, pvc, head, builder, changes>>

-----------------------------------------------------------------------------
(* The other controllers. *)

\* The Build controller reports the end of a Build's pod.
FinishBuild(i, ok) ==
    /\ builds[i].finished = 0
    /\ builds' = [builds EXCEPT ![i].finished = rv + 1, ![i].ok = ok]
    /\ rv' = rv + 1
    /\ UNCHANGED <<seen, imageVars, cacheVars, sr, pvc, head, builder, dirty,
                   pc, view, last, trim, w, budgetVars>>

\* The SourceResolver controller resolves the spec it finds; a Git source again
\* whenever its revision has moved.
ResolvedRev == IF sr.src \in GitSources THEN head ELSE 0
ResolveSource ==
    /\ sr.gen # 0
    /\ sr.obs # sr.gen \/ sr.rev # ResolvedRev
    /\ sr' = [sr EXCEPT !.obs = sr.gen, !.resolved = sr.src, !.rev = ResolvedRev]
    /\ UNCHANGED <<buildVars, seen, imageVars, cacheVars, pvc, head, builder, dirty,
                   pc, view, last, trim, w, budgetVars>>

-----------------------------------------------------------------------------
(* Users and the outside world: each of these counts as a change. *)

Change(kind) == /\ kind \in ChangeKinds
                /\ changes < MaxChanges
                /\ changes' = changes + 1
                /\ UNCHANGED faults

\* Image.validateVolumeCache: between two edits that both ask for a volume cache
\* its size may not decrease.
CacheEditAllowed(old, new) == old # 0 /\ new # 0 => new >= old

EditSpec(s) ==
    /\ Change("edit")
    /\ s # SpecOf(image)
    /\ CacheEditAllowed(SpecOf(image).cache, s.cache)
    /\ specs' = Append(specs, s)
    /\ image' = [image EXCEPT !.ver = @ + 1, !.gen = @ + 1]
    /\ UNCHANGED <<buildVars, seen, cacheVars, sr, pvc, head, builder, dirty,
                   pc, view, last, trim, w>>

\* Someone asks for one more build by annotating the newest one.
Trigger ==
    /\ Change("trigger")
    /\ builds # <<>>
    /\ builds[Len(builds)].triggered = 0
    /\ builds' = [builds EXCEPT ![Len(builds)].triggered = rv + 1]
    /\ rv' = rv + 1
    /\ UNCHANGED <<seen, imageVars, cacheVars, sr, pvc, head, builder, dirty,
                   pc, view, last, trim, w>>

NewCommit ==
    /\ Change("commit")
    /\ GitSources # {}
    /\ head' = head + 1
    /\ UNCHANGED <<buildVars, seen, imageVars, cacheVars, sr, pvc, builder, dirty,
                   pc, view, last, trim, w>>

\* The tracker queues the Image when its builder changes.
ChangeBuilder(b) ==
    /\ Change("builder")
    /\ b # builder
    /\ builder' = b
    /\ dirty' = TRUE
    /\ UNCHANGED <<buildVars, seen, imageVars, cacheVars, sr, pvc, head,
                   pc, view, last, trim, w>>

-----------------------------------------------------------------------------

Init ==
    /\ builds = <<>> /\ rv = 0 /\ seen = 0
    /\ \E s \in ImageSpecs : specs = <<s>>
    /\ image = [ver |-> 1, gen |-> 1, status |-> NoStatus]
    /\ imageCache = image
    /\ sr = NoResolver /\ srCache = NoResolver
    /\ pvc = NoClaim /\ pvcCache = NoClaim
    /\ head = 1
    /\ builder \in Builders
    /\ dirty = TRUE
    /\ pc = "idle" /\ view = 0 /\ last = 0 /\ trim = 0 /\ w = NoWork
    /\ changes = 0 /\ faults = 0

Sync == SyncImage \/ SyncBuilds \/ SyncResolver \/ SyncClaim

Users == \/ \E s \in ImageSpecs : EditSpec(s)
         \/ Trigger
         \/ NewCommit
         \/ \E b \in Builders : ChangeBuilder(b)

Next == \/ Sync \/ Reconcile \/ CallFails \/ Crash \/ ResolveSource \/ Users
        \/ \E i \in DOMAIN builds, ok \in BOOLEAN : FinishBuild(i, ok)

Spec == Init /\ [][Next]_vars

\* Fairness: the work queue hands out a queued key and a reconcile runs to its end,
\* informers deliver what the API server holds, SourceResolvers are resolved and
\* every Build's pod ends.  Users and faults are under no obligation.
Fairness == /\ WF_vars(Reconcile)
            /\ WF_vars(SyncImage) /\ WF_vars(SyncBuilds)
            /\ WF_vars(SyncResolver) /\ WF_vars(SyncClaim)
            /\ WF_vars(ResolveSource)
            /\ WF_vars(\E i \in DOMAIN builds, ok \in BOOLEAN : FinishBuild(i, ok))

FairSpec == Spec /\ Fairness

-----------------------------------------------------------------------------
(* Properties. *)

Statuses == [cond : {"none", "BuilderNotFound", "BuildRunning", "BuilderNotReady",
                     "ResolverNotReady", "UpToDate", "BuildFailed"},
             counter : Nat, ref : Nat, latestImage : Nat, claim : BOOLEAN, obs : Nat]

Images == [ver : Nat, gen : Nat, status : Statuses]

Resolvers == [gen : Nat, src : Sources, obs : Nat, resolved : Sources, rev : Nat]

Claims == [uid : Nat, size : Nat]

Builds == [num : Nat, ts : Nat, gen : Nat, env : Envs, src : Sources, rev : Nat,
           run : RunImages, lastImage : Nat, claim : BOOLEAN, created : Nat,
           triggered : Nat, finished : Nat, ok : BOOLEAN, deleted : Nat]

\* Every object, cache and local variable of the reconciler holds a value of its
\* type, and the indices into histories point into them.
TypeOK ==
    /\ builds \in Seq(Builds)
    /\ rv \in Nat /\ seen \in 0..rv
    /\ specs \in Seq(ImageSpecs) /\ image \in Images /\ imageCache \in Images
    /\ image.gen = Len(specs) /\ imageCache.gen \in 1..Len(specs)
    /\ sr \in Resolvers /\ srCache \in Resolvers
    /\ pvc \in Claims /\ pvcCache \in Claims
    /\ head \in Nat /\ builder \in Builders /\ dirty \in BOOLEAN
    /\ pc \in {"idle", "cache", "source", "build", "trimFailed", "trimSuccess", "status"}
    /\ view \in 0..seen /\ last \in 0..Len(builds) /\ trim \in 0..seen
    /\ w \in [img : Images, sr : Resolvers, bld : Builders, claim : BOOLEAN,
              status : Statuses]
    /\ pc # "idle" => w.img.gen \in 1..Len(specs)
    /\ changes \in 0..MaxChanges /\ faults \in 0..MaxFaults

\* lastBuild.IsRunning() keeps a second build from starting; this says it does so
\* although the list it is read from may be older than the builds it missed:
\* an Image never has two unfinished builds.
OneBuildAtATime ==
    \A i, j \in DOMAIN builds : builds[i].finished = 0 /\ builds[j].finished = 0 => i = j

\* reconcileBuild numbers a build from the label of the last one it listed: the
\* n-th build created is number n, so none is skipped and none is used twice, not
\* even after the build that had it was deleted.
BuildNumbersNeverReused == \A i \in DOMAIN builds : builds[i].num = i

\* deleteOldBuilds works on lists that may be stale: it never deletes the newest
\* build, nor the newest successful one, which latestImage and the next build's
\* lastBuild are read from.
NewestBuildsKept ==
    \A i \in DOMAIN builds : builds[i].deleted # 0 =>
        /\ \E k \in DOMAIN builds : k > i
        /\ builds[i].ok => \E k \in DOMAIN builds : k > i /\ builds[k].ok

\* image.Build copies lastBuild from a failed predecessor: through any run of
\* failures, and any deletions, a build starts from the newest success before it.
StartsFromNewestSuccess ==
    \A j \in DOMAIN builds :
        LET i == builds[j].lastImage
        IN  /\ i < j
            /\ i # 0 => builds[i].ok
            /\ \A k \in (i + 1)..(j - 1) : ~builds[k].ok

\* A build is labelled with the Image generation it was made for; its source, which
\* comes by way of the SourceResolver, is that generation's.
SourceOfItsGeneration ==
    \A i \in DOMAIN builds : builds[i].src = specs[builds[i].gen].src

\* isBuildRequired: a build differs from the one before it, or that one had been
\* annotated; a stale list never makes the controller build the same thing twice.
EveryBuildHasACause ==
    \A i \in DOMAIN builds : i > 1 =>
        \/ builds[i-1].triggered # 0 /\ builds[i-1].triggered < builds[i].created
        \/ builds[i].env # builds[i-1].env \/ builds[i].src # builds[i-1].src
        \/ builds[i].rev # builds[i-1].rev
        \/ builds[i-1].ok /\ builds[i].run # builds[i-1].run

\* The controller has seen everything and has nothing queued.
Settled == /\ pc = "idle" /\ ~dirty
           /\ seen = rv /\ imageCache = image /\ srCache = sr /\ pvcCache = pvc

NewestFinished == builds # <<>> /\ builds[Len(builds)].finished # 0

\* No event is lost: when nothing is queued any more, the status the reconciler left
\* describes the newest build and the newest generation of the Image.
SettledStatusIsCurrent ==
    Settled =>
        /\ image.status.obs = image.gen
        /\ builder.found /\ NewestFinished =>
             LET n == Len(builds) IN
             /\ image.status.ref = n /\ image.status.counter = builds[n].num
             /\ builds[n].ok => image.status.latestImage = n

\* reconcileBuildCache is skipped while a build runs and fails on a stale claim: once
\* nothing is queued the claim is the one the spec asks for, or gone with the request.
SettledClaimMatchesSpec ==
    Settled /\ builder.found /\ NewestFinished => pvc.size = SpecOf(image).cache

\* When nothing is queued, the condition UpToDate means what it says: the newest
\* build succeeded, with the current spec, the resolved revision and the builder's
\* current stack and buildpacks.
SettledReadyIsUpToDate ==
    Settled /\ image.status.cond = "UpToDate" =>
        LET b == builds[Len(builds)]
        IN  /\ b.ok /\ image.status.latestImage = Len(builds)
            /\ b.env = SpecOf(image).env /\ b.src = SpecOf(image).src
            /\ b.rev = sr.rev /\ b.run = builder.run

\* deleteOldBuilds deletes one build of a kind per reconcile, and a stale list stops
\* it: the limits are met all the same once nothing is queued.
SettledHistoryWithinLimits ==
    Settled /\ builder.found /\ NewestFinished =>
        /\ Cardinality(FailedBuilds(rv)) <= FailedLimit
        /\ Cardinality(SuccessBuilds(rv)) <= SuccessLimit

\* Once nothing is queued, all that the Image owns is as its spec asks, whatever was
\* skipped, refused or lost on the way: history, claim and status.
SettledAsSpecified ==
    SettledHistoryWithinLimits /\ SettledClaimMatchesSpec /\ SettledStatusIsCurrent

\* What the Build collection amounts to, whatever is cached, lost or retried.
History == INSTANCE BuildHistory WITH
    hist <- [i \in DOMAIN builds |-> IF builds[i].finished = 0 THEN "running"
                                     ELSE IF builds[i].ok THEN "succeeded" ELSE "failed"],
    kept <- {i \in DOMAIN builds : builds[i].deleted = 0}

\* The reconciler, with its stale lists, retries and crashes, implements the build
\* history of BuildHistory: builds one at a time, deleted only when outdated.
ImplementsBuildHistory == History!Spec

\* Once users and faults are quiet and the builder is ready, the newest build is of
\* the current spec and commit, and its result is in the status.
EventuallyBuilt ==
    <>[](builder.found /\ builder.ready =>
           /\ NewestFinished
           /\ builds[Len(builds)].env = SpecOf(image).env
           /\ builds[Len(builds)].src = SpecOf(image).src
           /\ builds[Len(builds)].src \in GitSources => builds[Len(builds)].rev = head
           /\ image.status.cond = IF builds[Len(builds)].ok THEN "UpToDate" ELSE "BuildFailed")

\* docs/image.md: "When an image resource has successfully built with its current
\* configuration, its status will report the up to date fully qualified built OCI
\* image reference."
LatestImageReported ==
    Settled => \A i \in DOMAIN builds :
                 builds[i].ok /\ builds[i].gen = image.gen => image.status.latestImage >= i

=============================================================================
