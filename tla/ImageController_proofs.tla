------------------------ MODULE ImageController_proofs ------------------------
(***************************************************************************)
(* Theorems about ImageController, for any sources and limits and any      *)
(* number of builds, edits and faults: the types; that a Build has the     *)
(* source of its generation; the history of Builds - one build at a time,  *)
(* numbered without gaps, each started from the newest success and for a   *)
(* reason, and the newest ones never deleted -, which implements           *)
(* BuildHistory; and what is true of the Image once nothing is queued.     *)
(*                                                                         *)
(* The history and the settled Image rest on what the reconciler knows     *)
(* from a list that is out of date.  HistoryInv relates the resource       *)
(* versions of the Builds; LastIsNewest says that the last build of a      *)
(* reconcile in progress is the newest of those created up to the version  *)
(* it listed; SettleInv says what its steps have reached, unless the key   *)
(* is queued again or an informer is about to queue it.                    *)
(***************************************************************************)
EXTENDS ImageController, FiniteSetTheorems, TLAPS, WellFoundedInduction

-----------------------------------------------------------------------------
(* Types. *)

LEMMA ConstantValues ==
    /\ NoStatus \in Statuses
    /\ NoResolver \in Resolvers
    /\ NoClaim \in Claims
    /\ NoWork \in [img : Images, sr : Resolvers, bld : Builders, claim : BOOLEAN,
                   status : Statuses]
  <1>1. NoStatus \in Statuses
    BY DEF NoStatus, Statuses
  <1>2. NoResolver \in Resolvers
    BY SpecAssumption DEF NoResolver, Resolvers
  <1>3. NoClaim \in Claims
    BY DEF NoClaim, Claims
  <1>4. (CHOOSE r \in RunImages : TRUE) \in RunImages
    BY SpecAssumption
  <1>5. [ver |-> 0, gen |-> 0, status |-> NoStatus] \in Images
    BY <1>1 DEF Images
  <1>6. [found |-> FALSE, ready |-> FALSE, run |-> CHOOSE r \in RunImages : TRUE] \in Builders
    BY <1>4 DEF Builders
  <1> QED
    BY <1>1, <1>2, <1>3, <1>5, <1>6 DEF NoWork

LEMMA InitType == Init => TypeOK
  <1> SUFFICES ASSUME Init PROVE TypeOK
    OBVIOUS
  <1>1. PICK s \in ImageSpecs : specs = <<s>>
    BY DEF Init
  <1>2. specs \in Seq(ImageSpecs) /\ Len(specs) = 1
    BY <1>1
  <1>3. image \in Images
    BY ConstantValues DEF Init, Images
  <1> QED
    BY <1>2, <1>3, ConstantValues, BoundsAssumption DEF Init, TypeOK

LEMMA SyncType == TypeOK /\ Sync => TypeOK'
  <1> SUFFICES ASSUME TypeOK, Sync PROVE TypeOK'
    OBVIOUS
  <1> USE DEF TypeOK, buildVars, imageVars, cacheVars, budgetVars
  <1>1. CASE SyncImage
    BY <1>1 DEF SyncImage
  <1>2. CASE SyncBuilds
    BY <1>2 DEF SyncBuilds
  <1>3. CASE SyncResolver
    BY <1>3 DEF SyncResolver
  <1>4. CASE SyncClaim
    BY <1>4 DEF SyncClaim
  <1> QED
    BY <1>1, <1>2, <1>3, <1>4 DEF Sync

\* A failed reconcile drops its local variables.
LEMMA FailedType ==
    ASSUME TypeOK, Failed,
           UNCHANGED <<buildVars, seen, imageVars, cacheVars, sr, pvc, head, builder, budgetVars>>
    PROVE  TypeOK'
  BY ConstantValues DEF TypeOK, Failed, Idle, buildVars, imageVars, cacheVars, budgetVars

LEMMA StartType == TypeOK /\ StartReconcile => TypeOK'
  <1> SUFFICES ASSUME TypeOK, StartReconcile PROVE TypeOK'
    OBVIOUS
  <1> USE DEF TypeOK, buildVars, imageVars, cacheVars, budgetVars
  <1>1. last' \in 0..Len(builds) /\ pc' \in {"status", "cache"}
    BY DEF StartReconcile, LastBuilds, NewestOf, VisibleAt
  <1>2. ASSUME NEW c \in {"BuilderNotFound", "BuildRunning", imageCache.status.cond}
        PROVE  [NoWork EXCEPT !.img = imageCache, !.bld = builder,
                              !.status = [imageCache.status EXCEPT !.cond = c]]
                 \in [img : Images, sr : Resolvers, bld : Builders, claim : BOOLEAN,
                      status : Statuses]
    <2>1. [imageCache.status EXCEPT !.cond = c] \in Statuses
      BY DEF Images, Statuses
    <2> QED
      BY <2>1, ConstantValues
  <1>3. w' \in [img : Images, sr : Resolvers, bld : Builders, claim : BOOLEAN, status : Statuses]
        /\ w'.img = imageCache
    BY <1>2, ConstantValues DEF StartReconcile, NoWork
  <1>4. dirty' \in BOOLEAN
    BY DEF StartReconcile
  <1>5. UNCHANGED <<builds, rv, seen, specs, image, imageCache, sr, srCache, pvc, pvcCache,
                    head, builder, changes, faults>>
        /\ view' = seen /\ trim' = 0
    BY DEF StartReconcile
  <1> QED
    BY <1>1, <1>3, <1>4, <1>5

\* The spec that a reconcile works with is one the Image has had.
LEMMA SpecOfType ==
    ASSUME TypeOK, pc # "idle"
    PROVE  SpecOf(w.img) \in ImageSpecs /\ SpecOf(w.img).cache \in Nat
  <1>1. specs[w.img.gen] \in ImageSpecs
    BY DEF TypeOK
  <1>2. specs[w.img.gen].cache \in CacheSizes
    BY <1>1 DEF ImageSpecs
  <1> QED
    BY <1>1, <1>2, SpecAssumption DEF SpecOf

LEMMA ClaimValues ==
    ASSUME NEW p \in Claims, NEW n \in Nat
    PROVE  /\ [p EXCEPT !.size = 0] \in Claims
           /\ [p EXCEPT !.size = n] \in Claims
           /\ [uid |-> p.uid + 1, size |-> n] \in Claims
  <1>1. p.uid + 1 \in Nat
    BY DEF Claims
  <1> QED
    BY <1>1 DEF Claims

LEMMA ResolverValues ==
    ASSUME NEW r \in Resolvers, NEW s \in Sources
    PROVE  /\ [r EXCEPT !.gen = 1, !.src = s] \in Resolvers
           /\ [r EXCEPT !.gen = @ + 1, !.src = s] \in Resolvers
  <1>1. r.gen + 1 \in Nat
    BY DEF Resolvers
  <1> QED
    BY <1>1 DEF Resolvers

LEMMA BuildCacheType == TypeOK /\ ReconcileBuildCache => TypeOK'
  <1> SUFFICES ASSUME TypeOK, ReconcileBuildCache PROVE TypeOK'
    OBVIOUS
  <1> DEFINE size == SpecOf(w.img).cache
             Proceed == /\ pc' = "source" /\ w' = [w EXCEPT !.claim = (size # 0)]
                        /\ UNCHANGED <<dirty, view, last, trim>>
  <1>1. size \in Nat
    BY SpecOfType DEF ReconcileBuildCache
  <1>2. UNCHANGED <<buildVars, seen, imageVars, cacheVars, sr, head, builder, budgetVars>>
    BY DEF ReconcileBuildCache
  <1>3. CASE Failed /\ UNCHANGED pvc
    BY <1>2, <1>3, FailedType
  <1>4. CASE Proceed /\ pvc' \in Claims
    <2>1. w.img.gen \in 1..Len(specs) /\ pc' = "source"
      BY <1>4 DEF TypeOK, ReconcileBuildCache
    <2>2. w' \in [img : Images, sr : Resolvers, bld : Builders, claim : BOOLEAN, status : Statuses]
          /\ w'.img = w.img
      BY <1>4 DEF TypeOK
    <2>3. UNCHANGED <<dirty, view, last, trim>> /\ pvc' \in Claims
      BY <1>4
    <2> HIDE DEF Proceed, size
    <2> QED
      BY <1>2, <2>1, <2>2, <2>3 DEF TypeOK, buildVars, imageVars, cacheVars, budgetVars
  <1>5. /\ [pvc EXCEPT !.size = 0] \in Claims
        /\ [pvc EXCEPT !.size = size] \in Claims
        /\ [uid |-> pvc.uid + 1, size |-> size] \in Claims
    BY <1>1, ClaimValues DEF TypeOK
  <1>6. (Failed /\ UNCHANGED pvc) \/ (Proceed /\ pvc' \in Claims)
    BY <1>5 DEF TypeOK, ReconcileBuildCache
  <1> QED
    BY <1>3, <1>4, <1>6

LEMMA SourceResolverType == TypeOK /\ ReconcileSourceResolver => TypeOK'
  <1> SUFFICES ASSUME TypeOK, ReconcileSourceResolver PROVE TypeOK'
    OBVIOUS
  <1> DEFINE desired == SpecOf(w.img).src
             Proceed(r) == /\ w' = [w EXCEPT !.sr = r] /\ pc' = "build"
                           /\ UNCHANGED <<dirty, view, last, trim>>
  <1>1. desired \in Sources
    BY SpecOfType DEF ReconcileSourceResolver, ImageSpecs
  <1>2. UNCHANGED <<buildVars, seen, imageVars, cacheVars, pvc, head, builder, budgetVars>>
    BY DEF ReconcileSourceResolver
  <1>3. CASE Failed /\ UNCHANGED sr
    BY <1>2, <1>3, FailedType
  <1>4. ASSUME NEW r \in Resolvers, Proceed(r), sr' \in Resolvers PROVE TypeOK'
    <2>1. w.img.gen \in 1..Len(specs) /\ pc' = "build"
      BY <1>4 DEF TypeOK, ReconcileSourceResolver
    <2>2. w' \in [img : Images, sr : Resolvers, bld : Builders, claim : BOOLEAN, status : Statuses]
          /\ w'.img = w.img
      BY <1>4 DEF TypeOK
    <2>3. UNCHANGED <<dirty, view, last, trim>> /\ sr' \in Resolvers
      BY <1>4
    <2> HIDE DEF Proceed, desired
    <2> QED
      BY <1>2, <2>1, <2>2, <2>3 DEF TypeOK, buildVars, imageVars, cacheVars, budgetVars
  <1>5. /\ [sr EXCEPT !.gen = 1, !.src = desired] \in Resolvers
        /\ [sr EXCEPT !.gen = @ + 1, !.src = desired] \in Resolvers
    BY <1>1, ResolverValues DEF TypeOK
  <1>6. \/ Failed /\ UNCHANGED sr
        \/ sr' = [sr EXCEPT !.gen = 1, !.src = desired] /\ Proceed(sr')
        \/ sr' = [sr EXCEPT !.gen = @ + 1, !.src = desired] /\ Proceed(sr')
        \/ sr' = sr /\ Proceed(srCache)
    BY DEF ReconcileSourceResolver
  <1>7. sr \in Resolvers /\ srCache \in Resolvers
    BY DEF TypeOK
  <1> HIDE DEF Proceed, desired
  <1> QED
    BY <1>3, <1>4, <1>5, <1>6, <1>7

\* The values that a reconcile puts in the status and in a new Build.
LEMMA BuildStepValues ==
    ASSUME TypeOK, pc = "build"
    PROVE  /\ BuildCounter(last) \in Nat
           /\ LastImage(last, view) \in Nat
           /\ LatestForImage(last, view, w.img) \in Nat
           /\ NoScheduledBuild(Needed, last, view, w.bld)
                \in {"BuilderNotReady", "ResolverNotReady", "UpToDate", "BuildFailed"}
           /\ w.img.status \in Statuses
  <1>1. last = 0 \/ builds[last] \in Builds
    BY DEF TypeOK
  <1>2. last \in Nat /\ w.img.status \in Statuses
    BY DEF TypeOK, Images
  <1>3. BuildCounter(last) \in Nat /\ LastImage(last, view) \in Nat
    BY <1>1, <1>2 DEF BuildCounter, LastImage, FailureAt, FinishedAt, Builds
  <1>4. LatestForImage(last, view, w.img) \in Nat
    BY <1>2 DEF LatestForImage, Statuses
  <1> QED
    BY <1>2, <1>3, <1>4 DEF NoScheduledBuild

LEMMA SkipBuildType == TypeOK /\ SkipBuild => TypeOK'
  <1> SUFFICES ASSUME TypeOK, SkipBuild PROVE TypeOK'
    OBVIOUS
  <1>1. w'.status \in Statuses
    BY BuildStepValues DEF SkipBuild, Statuses, TypeOK
  <1>2. w' \in [img : Images, sr : Resolvers, bld : Builders, claim : BOOLEAN, status : Statuses]
        /\ w'.img = w.img
    BY <1>1 DEF SkipBuild, TypeOK
  <1>3. w.img.gen \in 1..Len(specs) /\ pc' = "trimFailed"
    BY DEF TypeOK, SkipBuild
  <1>4. UNCHANGED <<buildVars, seen, imageVars, cacheVars, sr, pvc, head, builder, dirty,
                    view, last, trim, budgetVars>>
    BY DEF SkipBuild
  <1> QED
    BY <1>2, <1>3, <1>4 DEF TypeOK, buildVars, imageVars, cacheVars, budgetVars

LEMMA CreateBuildType == TypeOK /\ CreateBuild => TypeOK'
  <1> SUFFICES ASSUME TypeOK, CreateBuild PROVE TypeOK'
    OBVIOUS
  <1> DEFINE n == BuildCounter(last) + 1
             created == /\ \E ts \in NextTimestamps : builds' = Append(builds, NewBuild(n, ts))
                        /\ rv' = rv + 1
                        /\ pc' = "trimFailed"
                        /\ w' = [w EXCEPT !.status =
                                  [cond        |-> "BuildRunning",
                                   counter     |-> n,
                                   ref         |-> Len(builds) + 1,
                                   latestImage |-> LatestForImage(last, view, w.img),
                                   claim       |-> w.claim,
                                   obs         |-> w.img.status.obs]]
                        /\ UNCHANGED <<dirty, view, last, trim>>
  <1>1. UNCHANGED <<seen, imageVars, cacheVars, sr, pvc, head, builder, budgetVars>>
        /\ pc = "build"
    BY DEF CreateBuild
  <1>2. CASE Failed /\ UNCHANGED buildVars
    BY <1>1, <1>2, FailedType
  <1>3. CASE created
    <2>1. n \in Nat /\ Len(builds) + 1 \in Nat
      BY <1>1, BuildStepValues DEF TypeOK
    <2>2. w'.status \in Statuses
      <3>1. w.img.status.obs \in Nat /\ LatestForImage(last, view, w.img) \in Nat
        BY <1>1, BuildStepValues DEF Statuses
      <3>2. w.claim \in BOOLEAN
        BY DEF TypeOK
      <3>3. w'.status = [cond |-> "BuildRunning", counter |-> n, ref |-> Len(builds) + 1,
                         latestImage |-> LatestForImage(last, view, w.img),
                         claim |-> w.claim, obs |-> w.img.status.obs]
        BY <1>3 DEF TypeOK
      <3> HIDE DEF n, created
      <3> QED
        BY <2>1, <3>1, <3>2, <3>3 DEF Statuses
    <2>3. w' \in [img : Images, sr : Resolvers, bld : Builders, claim : BOOLEAN, status : Statuses]
          /\ w'.img = w.img
      BY <1>3, <2>2 DEF TypeOK
    <2>4. NextTimestamps \subseteq Nat
      <3>1. builds # <<>> => Len(builds) \in DOMAIN builds
        BY DEF TypeOK
      <3>2. builds # <<>> => builds[Len(builds)] \in Builds
        BY <3>1 DEF TypeOK
      <3>3. builds # <<>> => builds[Len(builds)].ts \in Nat
        BY <3>2 DEF Builds
      <3> QED
        BY <3>3 DEF NextTimestamps
    <2>5. ASSUME NEW ts \in Nat PROVE NewBuild(n, ts) \in Builds
      <3>1. SpecOf(w.img).env \in Envs /\ w.img.gen \in Nat /\ w.bld.run \in RunImages
        BY <1>1, SpecOfType DEF ImageSpecs, TypeOK, Images, Builders
      <3>2. w.sr.resolved \in Sources /\ w.sr.rev \in Nat /\ rv + 1 \in Nat
        BY DEF TypeOK, Resolvers
      <3>3. (SpecOf(w.img).cache # 0 /\ w.img.status.claim) \in BOOLEAN
        OBVIOUS
      <3>4. LastImage(last, view) \in Nat
        BY <1>1, BuildStepValues
      <3> HIDE DEF n
      <3> QED
        BY <2>1, <3>1, <3>2, <3>3, <3>4 DEF NewBuild, Builds
    <2>6. builds' \in Seq(Builds) /\ Len(builds') = Len(builds) + 1
      <3>1. PICK ts \in NextTimestamps : builds' = Append(builds, NewBuild(n, ts))
        BY <1>3
      <3>2. NewBuild(n, ts) \in Builds
        BY <2>4, <2>5
      <3> HIDE DEF n
      <3> QED
        BY <3>1, <3>2 DEF TypeOK
    <2>7. UNCHANGED <<dirty, view, last, trim>> /\ pc' = "trimFailed" /\ rv' = rv + 1
      BY <1>3
    <2> HIDE DEF created, n
    <2>8. last \in 0..Len(builds')
      BY <2>6 DEF TypeOK
    <2>9. seen \in 0..rv'
      BY <2>7 DEF TypeOK
    <2>10. w.img.gen \in 1..Len(specs)
      BY <1>1 DEF TypeOK
    <2> QED
      BY <1>1, <2>3, <2>6, <2>7, <2>8, <2>9, <2>10
         DEF TypeOK, imageVars, cacheVars, budgetVars
  <1> QED
    BY <1>2, <1>3 DEF CreateBuild

\* Stamping a Build keeps the history well typed.
LEMMA StampType ==
    ASSUME builds \in Seq(Builds), rv \in Nat, NEW i \in DOMAIN builds, NEW ok \in BOOLEAN
    PROVE  /\ [builds EXCEPT ![i].deleted = rv + 1] \in Seq(Builds)
           /\ [builds EXCEPT ![i].triggered = rv + 1] \in Seq(Builds)
           /\ [builds EXCEPT ![i].finished = rv + 1, ![i].ok = ok] \in Seq(Builds)
  <1>1. builds[i] \in Builds /\ rv + 1 \in Nat
    OBVIOUS
  <1>2. /\ [builds[i] EXCEPT !.deleted = rv + 1] \in Builds
        /\ [builds[i] EXCEPT !.triggered = rv + 1] \in Builds
        /\ [builds[i] EXCEPT !.finished = rv + 1] \in Builds
    BY <1>1 DEF Builds
  <1>3. [[builds[i] EXCEPT !.finished = rv + 1] EXCEPT !.ok = ok] \in Builds
    BY <1>2 DEF Builds
  <1> QED
    BY <1>2, <1>3

LEMMA TrimType == TypeOK /\ (TrimFailed \/ TrimSuccess) => TypeOK'
  <1> SUFFICES ASSUME TypeOK, TrimFailed \/ TrimSuccess PROVE TypeOK'
    OBVIOUS
  <1> DEFINE unseen == UNCHANGED <<seen, imageVars, cacheVars, sr, pvc, head, builder, budgetVars>>
             step == /\ pc' \in {"trimSuccess", "status"} /\ trim' \in {trim, seen}
                     /\ UNCHANGED <<dirty, view, last, w>>
             stamped == \E i \in DOMAIN builds :
                            /\ builds' = [builds EXCEPT ![i].deleted = rv + 1]
                            /\ rv' = rv + 1
  <1>1. unseen /\ pc # "idle"
    BY DEF TrimFailed, TrimSuccess
  <1>2. \A v : FailedBuilds(v) \subseteq DOMAIN builds /\ SuccessBuilds(v) \subseteq DOMAIN builds
    BY DEF FailedBuilds, SuccessBuilds, VisibleAt
  <1>3. \/ Failed /\ UNCHANGED buildVars
        \/ step /\ (UNCHANGED buildVars \/ stamped)
    BY <1>2 DEF TrimFailed, TrimSuccess, TrimOne, DeleteBuild, OldestOf
  <1>4. CASE Failed /\ UNCHANGED buildVars
    BY <1>1, <1>4, FailedType
  <1>5. CASE step /\ (UNCHANGED buildVars \/ stamped)
    <2>1. builds' \in Seq(Builds) /\ Len(builds') = Len(builds) /\ rv' \in {rv, rv + 1}
      <3>1. CASE UNCHANGED buildVars
        BY <3>1 DEF buildVars, TypeOK
      <3>2. CASE stamped
        <4>1. PICK i \in DOMAIN builds : builds' = [builds EXCEPT ![i].deleted = rv + 1]
          BY <3>2
        <4>2. builds' \in Seq(Builds)
          BY <4>1, StampType, TRUE \in BOOLEAN DEF TypeOK
        <4>3. Len(builds') = Len(builds)
          BY <4>1, <4>2 DEF TypeOK
        <4> QED
          BY <3>2, <4>2, <4>3
      <3> QED
        BY <1>5, <3>1, <3>2
    <2>2. seen \in 0..rv'
      BY <2>1 DEF TypeOK
    <2>3. trim' \in 0..seen
      BY <1>5 DEF TypeOK
    <2>4. w.img.gen \in 1..Len(specs)
      BY <1>1 DEF TypeOK
    <2>5. step
      BY <1>5
    <2> HIDE DEF stamped
    <2> QED
      BY <1>1, <2>1, <2>2, <2>3, <2>4, <2>5 DEF TypeOK, imageVars, cacheVars, budgetVars
  <1> QED
    BY <1>3, <1>4, <1>5

LEMMA UpdateStatusType == TypeOK /\ UpdateStatus => TypeOK'
  <1> SUFFICES ASSUME TypeOK, UpdateStatus PROVE TypeOK'
    OBVIOUS
  <1> DEFINE desired == [w.status EXCEPT !.obs = w.img.gen]
  <1>1. desired \in Statuses
    BY DEF TypeOK, Images, Statuses
  <1>2. [image EXCEPT !.ver = @ + 1, !.status = desired] \in Images
    <2> HIDE DEF desired
    <2>1. image.ver + 1 \in Nat
      BY DEF TypeOK, Images
    <2> QED
      BY <1>1, <2>1 DEF TypeOK, Images
  <1>3. image' \in Images /\ image'.gen = image.gen
    <2> HIDE DEF desired
    <2>1. image' = image \/ image' = [image EXCEPT !.ver = @ + 1, !.status = desired]
      BY DEF UpdateStatus, desired
    <2> QED
      BY <1>2, <2>1 DEF TypeOK, Images
  <1>4. Idle /\ dirty' \in BOOLEAN
    BY DEF UpdateStatus, Failed, TypeOK
  <1>5. UNCHANGED <<buildVars, seen, specs, cacheVars, sr, pvc, head, builder, budgetVars>>
    BY DEF UpdateStatus
  <1> QED
    BY <1>3, <1>4, <1>5, ConstantValues DEF TypeOK, Idle, buildVars, cacheVars, budgetVars

LEMMA FaultType == TypeOK /\ (CallFails \/ Crash) => TypeOK'
  <1> SUFFICES ASSUME TypeOK, CallFails \/ Crash PROVE TypeOK'
    OBVIOUS
  <1> USE DEF TypeOK, buildVars, imageVars, cacheVars, budgetVars, Failed, Idle
  <1>1. faults' \in 0..MaxFaults
    BY BoundsAssumption DEF CallFails, Crash
  <1>2. CASE CallFails
    BY <1>1, <1>2, ConstantValues DEF CallFails
  <1>3. CASE Crash
    BY <1>1, <1>3, ConstantValues, BoundsAssumption DEF Crash
  <1> QED
    BY <1>2, <1>3

LEMMA FinishBuildType ==
    ASSUME TypeOK, NEW i \in DOMAIN builds, NEW ok \in BOOLEAN, FinishBuild(i, ok)
    PROVE  TypeOK'
  <1>1. builds' \in Seq(Builds)
    BY StampType DEF FinishBuild, TypeOK
  <1>2. Len(builds') = Len(builds) /\ rv' = rv + 1
    BY <1>1 DEF FinishBuild, TypeOK
  <1>3. UNCHANGED <<seen, imageVars, cacheVars, sr, pvc, head, builder, dirty,
                    pc, view, last, trim, w, budgetVars>>
    BY DEF FinishBuild
  <1> QED
    BY <1>1, <1>2, <1>3 DEF TypeOK, imageVars, cacheVars, budgetVars

LEMMA ResolveSourceType == TypeOK /\ ResolveSource => TypeOK'
  <1> SUFFICES ASSUME TypeOK, ResolveSource PROVE TypeOK'
    OBVIOUS
  <1>1. ResolvedRev \in Nat
    BY DEF ResolvedRev, TypeOK
  <1>2. sr' \in Resolvers
    BY <1>1 DEF ResolveSource, TypeOK, Resolvers
  <1> QED
    BY <1>2 DEF ResolveSource, TypeOK, buildVars, imageVars, cacheVars, budgetVars

LEMMA UsersType == TypeOK /\ Users => TypeOK'
  <1> SUFFICES ASSUME TypeOK, Users PROVE TypeOK'
    OBVIOUS
  <1>1. changes' \in 0..MaxChanges /\ faults' = faults
    <2>1. changes < MaxChanges /\ changes' = changes + 1 /\ faults' = faults
      BY Zenon DEF Users, EditSpec, Trigger, NewCommit, ChangeBuilder, Change
    <2>2. changes \in Nat /\ MaxChanges \in Nat
      BY BoundsAssumption DEF TypeOK
    <2> QED
      BY <2>1, <2>2
  <1> USE DEF TypeOK, buildVars, imageVars, cacheVars
  <1>2. ASSUME NEW s \in ImageSpecs, EditSpec(s) PROVE TypeOK'
    <2>1. specs' \in Seq(ImageSpecs) /\ Len(specs') = Len(specs) + 1
      BY <1>2 DEF EditSpec
    <2>2. image' \in Images /\ image'.gen = image.gen + 1
      <3>1. image.ver + 1 \in Nat /\ image.gen + 1 \in Nat
        BY DEF Images
      <3> QED
        BY <1>2, <3>1 DEF EditSpec, Images
    <2> QED
      BY <1>1, <1>2, <2>1, <2>2 DEF EditSpec
  <1>3. CASE Trigger
    <2>1. Len(builds) \in DOMAIN builds
      BY <1>3 DEF Trigger
    <2>2. builds' \in Seq(Builds)
      BY <1>3, <2>1, StampType, TRUE \in BOOLEAN DEF Trigger
    <2>3. Len(builds') = Len(builds) /\ rv' = rv + 1
      BY <1>3, <2>2 DEF Trigger
    <2> QED
      BY <1>1, <1>3, <2>2, <2>3 DEF Trigger
  <1>4. CASE NewCommit
    BY <1>1, <1>4 DEF NewCommit
  <1>5. ASSUME NEW b \in Builders, ChangeBuilder(b) PROVE TypeOK'
    BY <1>1, <1>5 DEF ChangeBuilder
  <1> QED
    BY <1>2, <1>3, <1>4, <1>5 DEF Users

\* Every step of the Image controller and its environment preserves the types.
LEMMA NextType == TypeOK /\ [Next]_vars => TypeOK'
  <1> SUFFICES ASSUME TypeOK, [Next]_vars PROVE TypeOK'
    OBVIOUS
  <1>1. CASE UNCHANGED vars
    BY <1>1 DEF TypeOK, vars
  <1>2. CASE Reconcile
    BY <1>2, StartType, BuildCacheType, SourceResolverType, SkipBuildType, CreateBuildType,
       TrimType, UpdateStatusType DEF Reconcile
  <1>3. ASSUME NEW i \in DOMAIN builds, NEW ok \in BOOLEAN, FinishBuild(i, ok) PROVE TypeOK'
    BY <1>3, FinishBuildType
  <1> QED
    BY <1>1, <1>2, <1>3, SyncType, FaultType, ResolveSourceType, UsersType DEF Next

\* In every behaviour of the Image reconciler its objects, caches and local variables
\* are well typed and its indices point into the histories.
THEOREM TypeCorrect == Spec => []TypeOK
  BY InitType, NextType, PTL DEF Spec

-----------------------------------------------------------------------------
(* What a Build is made from. *)

\* A SourceResolver that has been resolved at its generation has resolved its spec.
ResolverInv(r) == r.obs <= r.gen /\ (r.obs = r.gen => r.resolved = r.src)

\* The SourceResolver that a reconcile has in hand when it decides on a Build was
\* written for, or found equal to, the source of the generation it works on.
SourceInv ==
    /\ ResolverInv(sr) /\ ResolverInv(srCache)
    /\ pc = "build" => ResolverInv(w.sr) /\ w.sr.src = SpecOf(w.img).src
    /\ \A i \in DOMAIN builds : builds[i].gen \in 1..Len(specs)

GInv == TypeOK /\ SourceInv /\ SourceOfItsGeneration

\* Builds that keep their generation and source, specs that are only added to.
LEMMA SameSources ==
    ASSUME GInv, DOMAIN builds' = DOMAIN builds,
           \A i \in DOMAIN builds : /\ builds'[i].gen = builds[i].gen
                                    /\ builds'[i].src = builds[i].src,
           Len(specs') \in Nat, Len(specs') >= Len(specs),
           \A g \in 1..Len(specs) : specs'[g] = specs[g]
    PROVE  /\ SourceOfItsGeneration'
           /\ \A i \in DOMAIN builds' : builds'[i].gen \in 1..Len(specs')
  <1>1. Len(specs) \in Nat
    BY DEF GInv, TypeOK
  <1>2. \A i \in DOMAIN builds : builds[i].gen \in 1..Len(specs)
    BY DEF GInv, SourceInv
  <1>3. \A i \in DOMAIN builds : builds[i].gen \in 1..Len(specs')
    BY <1>1, <1>2
  <1>4. \A i \in DOMAIN builds : builds[i].src = specs[builds[i].gen].src
    BY DEF GInv, SourceOfItsGeneration
  <1> QED
    BY <1>2, <1>3, <1>4 DEF SourceOfItsGeneration

\* A step that neither creates a Build nor reads or writes a SourceResolver.
LEMMA QuietSource ==
    ASSUME GInv, UNCHANGED <<builds, specs>>, sr' = sr, srCache' \in {sr, srCache},
           \/ pc' # "build"
           \/ pc = "build" /\ pc' = pc /\ w' = w
    PROVE  SourceInv' /\ SourceOfItsGeneration'
  <1>1. SourceOfItsGeneration' /\ \A i \in DOMAIN builds' : builds'[i].gen \in 1..Len(specs')
    BY DEF GInv, SourceInv, SourceOfItsGeneration
  <1>2. ResolverInv(sr') /\ ResolverInv(srCache')
    BY DEF GInv, SourceInv
  <1> QED
    BY <1>1, <1>2 DEF GInv, SourceInv, SpecOf, ResolverInv

LEMMA SourceStep == GInv /\ ReconcileSourceResolver => SourceInv' /\ SourceOfItsGeneration'
  <1> SUFFICES ASSUME GInv, ReconcileSourceResolver PROVE SourceInv' /\ SourceOfItsGeneration'
    OBVIOUS
  <1> DEFINE desired == SpecOf(w.img).src
  <1>1. UNCHANGED <<builds, specs, srCache>>
    BY DEF ReconcileSourceResolver, buildVars, imageVars, cacheVars
  <1>2. SourceOfItsGeneration' /\ \A i \in DOMAIN builds' : builds'[i].gen \in 1..Len(specs')
    BY <1>1 DEF GInv, SourceInv, SourceOfItsGeneration
  <1>3. sr \in Resolvers /\ srCache \in Resolvers
    BY DEF GInv, TypeOK
  <1>4. \/ pc' = "idle" /\ sr' = sr
        \/ pc' = "build" /\ w' = [w EXCEPT !.sr = srCache] /\ sr' = sr /\ srCache.src = desired
        \/ /\ pc' = "build" /\ w' = [w EXCEPT !.sr = sr']
           /\ sr' = [sr EXCEPT !.gen = 1, !.src = desired] /\ sr.gen = 0
        \/ /\ pc' = "build" /\ w' = [w EXCEPT !.sr = sr']
           /\ sr' = [sr EXCEPT !.gen = sr.gen + 1, !.src = desired]
    BY <1>3 DEF ReconcileSourceResolver, Failed, Idle, Resolvers
  <1>5. \A r : [w EXCEPT !.sr = r].sr = r /\ [w EXCEPT !.sr = r].img = w.img
    BY DEF GInv, TypeOK
  <1>6. ResolverInv(sr) /\ ResolverInv(srCache)
    BY DEF GInv, SourceInv
  <1>7. CASE pc' = "idle" /\ sr' = sr
    BY <1>1, <1>2, <1>6, <1>7 DEF SourceInv
  <1>8. CASE pc' = "build" /\ w' = [w EXCEPT !.sr = srCache] /\ sr' = sr /\ srCache.src = desired
    BY <1>1, <1>2, <1>5, <1>6, <1>8 DEF SourceInv, SpecOf
  <1>9. ASSUME NEW g \in Nat, g > sr.gen, sr' = [sr EXCEPT !.gen = g, !.src = desired]
        PROVE  ResolverInv(sr') /\ sr'.src = desired
    <2>1. sr'.gen = g /\ sr'.src = desired /\ sr'.obs = sr.obs
      BY <1>3, <1>9 DEF Resolvers
    <2>2. sr.obs \in Nat /\ sr.gen \in Nat /\ sr.obs <= sr.gen
      BY <1>3, <1>6 DEF Resolvers, ResolverInv
    <2> QED
      BY <1>9, <2>1, <2>2 DEF ResolverInv
  <1>10. CASE /\ pc' = "build" /\ w' = [w EXCEPT !.sr = sr']
              /\ ResolverInv(sr') /\ sr'.src = desired
    BY <1>1, <1>2, <1>5, <1>6, <1>10 DEF SourceInv, SpecOf
  <1>11. sr.gen \in Nat /\ (sr.gen = 0 => 1 > sr.gen) /\ sr.gen + 1 > sr.gen /\ sr.gen + 1 \in Nat
    BY <1>3 DEF Resolvers
  <1> QED
    BY <1>4, <1>7, <1>8, <1>9, <1>10, <1>11

LEMMA CreateSource == GInv /\ CreateBuild => SourceInv' /\ SourceOfItsGeneration'
  <1> SUFFICES ASSUME GInv, CreateBuild PROVE SourceInv' /\ SourceOfItsGeneration'
    OBVIOUS
  <1>1. UNCHANGED <<specs, sr, srCache>> /\ pc = "build" /\ pc' # "build" /\ Needed = "True"
    BY DEF CreateBuild, imageVars, cacheVars, Failed, Idle
  <1>2. CASE UNCHANGED builds
    BY <1>1, <1>2, QuietSource
  <1>3. ASSUME NEW n, NEW ts, builds' = Append(builds, NewBuild(n, ts))
        PROVE  SourceInv' /\ SourceOfItsGeneration'
    <2> DEFINE b == NewBuild(n, ts)
    <2>1. b.gen = w.img.gen /\ b.src = w.sr.resolved
      BY DEF NewBuild
    <2>2. w.img.gen \in 1..Len(specs)
      BY <1>1 DEF GInv, TypeOK
    <2>3. w.sr.resolved = specs[w.img.gen].src
      <3>1. ResolverReady(w.sr)
        BY <1>1 DEF Needed, IsBuildRequired
      <3>2. ResolverInv(w.sr) /\ w.sr.src = SpecOf(w.img).src
        BY <1>1 DEF GInv, SourceInv
      <3> QED
        BY <3>1, <3>2 DEF ResolverReady, ResolverInv, SpecOf
    <2> HIDE DEF b
    <2>4. /\ DOMAIN builds' = DOMAIN builds \cup {Len(builds) + 1}
          /\ builds'[Len(builds) + 1] = b
          /\ \A i \in DOMAIN builds : builds'[i] = builds[i]
      <3>1. builds \in Seq(Builds)
        BY DEF GInv, TypeOK
      <3>2. builds' = Append(builds, b)
        BY <1>3 DEF b
      <3> QED
        BY <3>1, <3>2
    <2>5. \A i \in DOMAIN builds' : /\ builds'[i].gen \in 1..Len(specs)
                                    /\ builds'[i].src = specs[builds'[i].gen].src
      BY <2>1, <2>2, <2>3, <2>4 DEF GInv, SourceInv, SourceOfItsGeneration
    <2> QED
      BY <1>1, <2>5 DEF GInv, SourceInv, SourceOfItsGeneration
  <1> QED
    BY <1>2, <1>3 DEF CreateBuild, buildVars

\* Stamping a Build with the version of its deletion, annotation or end.
LEMMA StampSource ==
    ASSUME GInv, NEW i \in DOMAIN builds, UNCHANGED <<specs, sr, srCache>>, NEW x, NEW y,
           \/ builds' = [builds EXCEPT ![i].deleted = x]
           \/ builds' = [builds EXCEPT ![i].triggered = x]
           \/ builds' = [builds EXCEPT ![i].finished = x, ![i].ok = y],
           \/ pc' # "build"
           \/ pc' = pc /\ w' = w
    PROVE  SourceInv' /\ SourceOfItsGeneration'
  <1>1. \A j \in DOMAIN builds : builds[j] \in Builds
    BY DEF GInv, TypeOK
  <1>2. /\ DOMAIN builds' = DOMAIN builds
        /\ \A j \in DOMAIN builds : builds'[j].gen = builds[j].gen /\ builds'[j].src = builds[j].src
    <2>1. CASE builds' = [builds EXCEPT ![i].deleted = x]
      BY <1>1, <2>1 DEF Builds
    <2>2. CASE builds' = [builds EXCEPT ![i].triggered = x]
      BY <1>1, <2>2 DEF Builds
    <2>3. CASE builds' = [builds EXCEPT ![i].finished = x, ![i].ok = y]
      BY <1>1, <2>3 DEF Builds
    <2> QED
      BY <2>1, <2>2, <2>3
  <1>3. SourceOfItsGeneration' /\ \A j \in DOMAIN builds' : builds'[j].gen \in 1..Len(specs')
    BY <1>2 DEF GInv, SourceInv, SourceOfItsGeneration
  <1> QED
    BY <1>3 DEF GInv, SourceInv, SpecOf, ResolverInv

LEMMA TrimSource == GInv /\ (TrimFailed \/ TrimSuccess) => SourceInv' /\ SourceOfItsGeneration'
  <1> SUFFICES ASSUME GInv, TrimFailed \/ TrimSuccess PROVE SourceInv' /\ SourceOfItsGeneration'
    OBVIOUS
  <1>1. UNCHANGED <<specs, sr, srCache>> /\ pc' # "build"
    BY DEF TrimFailed, TrimSuccess, TrimOne, DeleteBuild, Failed, Idle, imageVars, cacheVars
  <1>2. \/ UNCHANGED builds
        \/ \E i \in DOMAIN builds : builds' = [builds EXCEPT ![i].deleted = rv + 1]
    BY DEF TrimFailed, TrimSuccess, TrimOne, DeleteBuild, buildVars, OldestOf, FailedBuilds,
           SuccessBuilds, VisibleAt
  <1>3. CASE UNCHANGED builds
    BY <1>1, <1>3, QuietSource
  <1>4. CASE \E i \in DOMAIN builds : builds' = [builds EXCEPT ![i].deleted = rv + 1]
    BY <1>1, <1>4, StampSource
  <1> QED
    BY <1>2, <1>3, <1>4

LEMMA ResolveSourceSource == GInv /\ ResolveSource => SourceInv' /\ SourceOfItsGeneration'
  <1> SUFFICES ASSUME GInv, ResolveSource PROVE SourceInv' /\ SourceOfItsGeneration'
    OBVIOUS
  <1>1. UNCHANGED <<builds, specs, srCache, pc, w>>
    BY DEF ResolveSource, buildVars, imageVars, cacheVars
  <1>2. sr \in Resolvers
    BY DEF GInv, TypeOK
  <1>3. ResolverInv(sr')
    <2>1. sr'.gen = sr.gen /\ sr'.obs = sr.gen /\ sr'.resolved = sr.src /\ sr'.src = sr.src
      BY <1>2 DEF ResolveSource, Resolvers
    <2>2. sr.gen <= sr.gen
      BY <1>2 DEF Resolvers
    <2> QED
      BY <2>1, <2>2 DEF ResolverInv
  <1> QED
    BY <1>1, <1>3 DEF GInv, SourceInv, SourceOfItsGeneration, SpecOf

LEMMA EditSource ==
    ASSUME GInv, NEW s \in ImageSpecs, EditSpec(s)
    PROVE  SourceInv' /\ SourceOfItsGeneration'
  <1>1. UNCHANGED <<builds, sr, srCache, pc, w>>
    BY DEF EditSpec, buildVars, cacheVars
  <1>2. /\ Len(specs') = Len(specs) + 1 /\ Len(specs) \in Nat
        /\ \A g \in 1..Len(specs) : specs'[g] = specs[g]
    BY DEF EditSpec, GInv, TypeOK
  <1>3. SourceOfItsGeneration' /\ \A i \in DOMAIN builds' : builds'[i].gen \in 1..Len(specs')
    BY <1>1, <1>2, SameSources
  <1>4. pc = "build" => w.img.gen \in 1..Len(specs)
    BY DEF GInv, TypeOK
  <1>5. pc = "build" => SpecOf(w.img)' = SpecOf(w.img)
    BY <1>1, <1>2, <1>4 DEF SpecOf
  <1> QED
    BY <1>1, <1>3, <1>5 DEF GInv, SourceInv, ResolverInv

LEMMA InitGInv == Init => GInv
  <1> SUFFICES ASSUME Init PROVE GInv
    OBVIOUS
  <1>1. TypeOK
    BY InitType
  <1>2. DOMAIN builds = {} /\ pc = "idle" /\ sr = NoResolver /\ srCache = NoResolver
    BY DEF Init
  <1>3. ResolverInv(NoResolver)
    BY DEF ResolverInv, NoResolver
  <1> QED
    BY <1>1, <1>2, <1>3 DEF GInv, SourceInv, SourceOfItsGeneration

LEMMA NextGInv == GInv /\ [Next]_vars => GInv'
  <1> SUFFICES ASSUME GInv, [Next]_vars PROVE SourceInv' /\ SourceOfItsGeneration'
    BY NextType DEF GInv
  <1> USE DEF buildVars, imageVars, cacheVars
  <1>1. CASE Sync
    BY <1>1, QuietSource DEF Sync, SyncImage, SyncBuilds, SyncResolver, SyncClaim
  <1>2. CASE StartReconcile
    BY <1>2, QuietSource DEF StartReconcile
  <1>3. CASE ReconcileBuildCache
    BY <1>3, QuietSource DEF ReconcileBuildCache, Failed, Idle
  <1>4. CASE ReconcileSourceResolver
    BY <1>4, SourceStep
  <1>5. CASE SkipBuild
    BY <1>5, QuietSource DEF SkipBuild
  <1>6. CASE CreateBuild
    BY <1>6, CreateSource
  <1>7. CASE TrimFailed \/ TrimSuccess
    BY <1>7, TrimSource
  <1>8. CASE UpdateStatus
    BY <1>8, QuietSource DEF UpdateStatus, Failed, Idle
  <1>9. CASE CallFails \/ Crash
    BY <1>9, QuietSource DEF CallFails, Crash, Failed, Idle
  <1>10. CASE ResolveSource
    BY <1>10, ResolveSourceSource
  <1>11. ASSUME NEW s \in ImageSpecs, EditSpec(s) PROVE SourceInv' /\ SourceOfItsGeneration'
    BY <1>11, EditSource
  <1>12. CASE Trigger
    <2>1. Len(builds) \in DOMAIN builds
      BY <1>12 DEF Trigger, GInv, TypeOK
    <2> QED
      BY <1>12, <2>1, StampSource DEF Trigger
  <1>13. CASE NewCommit \/ \E b \in Builders : ChangeBuilder(b)
    BY <1>13, QuietSource DEF NewCommit, ChangeBuilder
  <1>14. ASSUME NEW i \in DOMAIN builds, NEW ok \in BOOLEAN, FinishBuild(i, ok)
         PROVE  SourceInv' /\ SourceOfItsGeneration'
    BY <1>14, StampSource DEF FinishBuild
  <1>15. CASE UNCHANGED vars
    BY <1>15, QuietSource DEF vars
  <1> QED
    BY <1>1, <1>2, <1>3, <1>4, <1>5, <1>6, <1>7, <1>8, <1>9, <1>10, <1>11, <1>12, <1>13,
       <1>14, <1>15 DEF Next, Reconcile, Users

\* The SourceResolver is written, resolved and cached behind the reconcile's back, and
\* still a Build labelled with a generation has that generation's source.
THEOREM SourceCorrect == Spec => []SourceOfItsGeneration
  <1>1. GInv => SourceOfItsGeneration
    BY DEF GInv
  <1> QED
    BY <1>1, InitGInv, NextGInv, PTL DEF Spec

-----------------------------------------------------------------------------
(* The history of Builds. *)

\* Builds are numbered, and carry timestamps, in the order they were created.
Numbered == \A i \in DOMAIN builds : builds[i].num = i /\ builds[i].ts = i

\* The resource versions of one Build.
Stamped == \A i \in DOMAIN builds :
    /\ builds[i].created \in 1..rv
    /\ builds[i].finished <= rv /\ builds[i].deleted <= rv
    /\ builds[i].ok => builds[i].finished # 0
    /\ builds[i].deleted # 0 => builds[i].finished # 0

\* A Build is created after every earlier one has finished.
Sequential == \A i, j \in DOMAIN builds :
    i < j => builds[i].finished # 0 /\ builds[i].finished < builds[j].created

\* A Build is deleted by a reconcile that has seen it, and seen a newer one with
\* the same outcome.
DeletionsJustified == \A i \in DOMAIN builds : builds[i].deleted # 0 =>
    /\ builds[i].created <= seen
    /\ \E k \in DOMAIN builds : /\ k > i
                                /\ builds[k].created < builds[i].deleted
                                /\ builds[k].finished # 0
                                /\ builds[k].ok = builds[i].ok

HistoryInv == /\ Numbered /\ Stamped /\ Sequential /\ DeletionsJustified
              /\ StartsFromNewestSuccess /\ EveryBuildHasACause

\* Until it creates a Build, a reconcile has in hand the newest Build created up to
\* the version it listed; that Build is finished, and whatever has been deleted was
\* already in that list.
LastIsNewest == pc \in {"cache", "source", "build"} =>
    /\ last # 0 => builds[last].created <= view
    /\ ~RunningAt(last, view)
    /\ \A i \in DOMAIN builds : builds[i].created <= view => i <= last
    /\ \A i \in DOMAIN builds : builds[i].deleted # 0 => builds[i].created <= view

IInv == TypeOK /\ HistoryInv /\ LastIsNewest

-----------------------------------------------------------------------------
(* Facts about finite sets. *)

LEMMA MaxExists ==
    ASSUME NEW n \in Nat, NEW T, T \subseteq 1..n, T # {}
    PROVE  \E m \in T : \A i \in T : i <= m
  <1> DEFINE up(m) == {i \in T : i >= m}
             ups == {up(m) : m \in T}
  <1>1. IsFiniteSet(T)
    BY FS_Interval, FS_Subset, 1 \in Int, n \in Int
  <1>2. ups \subseteq FiniteSubsetsOf(T) /\ ups # {}
    <2>1. \A m \in T : up(m) \subseteq T /\ IsFiniteSet(up(m))
      BY <1>1, FS_Subset
    <2> QED
      BY <2>1 DEF FiniteSubsetsOf
  <1>3. PICK x \in ups : \A y \in ups : ~(<<y, x>> \in StrictSubsetOrdering(T))
    BY <1>2, WFMin, FS_StrictSubsetOrderingWellFounded
  <1>4. PICK m \in T : x = up(m)
    BY <1>3
  <1>5. ASSUME NEW i \in T, i > m PROVE FALSE
    <2>1. m >= m /\ ~(m >= i) /\ \A j \in T : j >= i => j >= m
      <3>1. T \subseteq Nat
        OBVIOUS
      <3> QED
        BY <1>5, <3>1
    <2>2. up(i) \subseteq up(m)
      BY <2>1
    <2>3. up(i) # up(m)
      BY <2>1
    <2>4. <<up(i), up(m)>> \in StrictSubsetOrdering(T)
      BY <2>2, <2>3 DEF StrictSubsetOrdering
    <2>5. up(i) \in ups
      OBVIOUS
    <2> QED
      BY <1>3, <1>4, <2>4, <2>5
  <1>6. T \subseteq Nat
    OBVIOUS
  <1> QED
    BY <1>5, <1>6

LEMMA AnotherElement ==
    ASSUME NEW S, IsFiniteSet(S), NEW limit \in Nat \ {0}, Cardinality(S) > limit, NEW i \in S
    PROVE  \E k \in S : k # i
  <1> SUFFICES ASSUME S \subseteq {i} PROVE FALSE
    OBVIOUS
  <1>1. Cardinality({i}) = 1 /\ IsFiniteSet({i})
    BY FS_Singleton
  <1>2. Cardinality(S) <= 1
    BY <1>1, FS_Subset
  <1>3. Cardinality(S) \in Nat
    BY FS_CardinalityType
  <1> QED
    BY <1>2, <1>3

LEMMA AtTheTop == ASSUME NEW a \in Nat, NEW b \in 0..a, ~(b < a) PROVE b = a
  OBVIOUS

-----------------------------------------------------------------------------
(* Steps that leave the Builds alone. *)

LEMMA BuildsTyped ==
    ASSUME TypeOK
    PROVE  /\ DOMAIN builds = 1..Len(builds) /\ Len(builds) \in Nat /\ rv \in Nat
           /\ seen \in Nat /\ seen <= rv
           /\ \A i \in DOMAIN builds :
                /\ builds[i].created \in Nat /\ builds[i].finished \in Nat
                /\ builds[i].deleted \in Nat /\ builds[i].triggered \in Nat
                /\ builds[i].ts \in Nat /\ builds[i].num \in Nat
                /\ builds[i].lastImage \in Nat /\ builds[i].ok \in BOOLEAN
  <1>1. \A i \in DOMAIN builds : builds[i] \in Builds
    BY DEF TypeOK
  <1>2. DOMAIN builds = 1..Len(builds) /\ Len(builds) \in Nat
    BY DEF TypeOK
  <1>3. rv \in Nat /\ seen \in Nat /\ seen <= rv
    BY DEF TypeOK
  <1> QED
    BY <1>1, <1>2, <1>3 DEF Builds

LEMMA QuietHistory ==
    ASSUME TypeOK, HistoryInv, UNCHANGED <<builds, rv>>, seen' \in Nat, seen' >= seen
    PROVE  HistoryInv'
  <1>1. \A i \in DOMAIN builds : builds[i].created <= seen => builds[i].created <= seen'
    BY BuildsTyped
  <1>2. DeletionsJustified'
    BY <1>1 DEF HistoryInv, DeletionsJustified
  <1> QED
    BY <1>2 DEF HistoryInv, Numbered, Stamped, Sequential, StartsFromNewestSuccess,
                EveryBuildHasACause

LEMMA QuietLast ==
    ASSUME LastIsNewest, UNCHANGED builds,
           \/ pc' \notin {"cache", "source", "build"}
           \/ pc \in {"cache", "source", "build"} /\ UNCHANGED <<view, last>>
    PROVE  LastIsNewest'
  BY DEF LastIsNewest, RunningAt, FinishedAt

\* The newest Build created up to the version that the informer has reached is in
\* its list, so that fetchLastBuild finds it.
LEMMA FetchLastBuild ==
    ASSUME TypeOK, HistoryInv, NEW l \in LastBuilds(seen)
    PROVE  /\ l # 0 => l \in DOMAIN builds /\ builds[l].created <= seen
           /\ \A i \in DOMAIN builds : builds[i].created <= seen => i <= l
  <1> DEFINE T == {i \in DOMAIN builds : builds[i].created <= seen}
  <1> USE BuildsTyped
  <1>1. CASE T = {}
    <2>1. VisibleAt(seen) = {}
      BY <1>1 DEF VisibleAt
    <2> QED
      BY <1>1, <2>1 DEF LastBuilds
  <1>2. CASE T # {}
    <2>1. PICK m \in T : \A i \in T : i <= m
      BY <1>2, MaxExists
    <2>2. m \in VisibleAt(seen)
      <3> SUFFICES ASSUME builds[m].deleted # 0, builds[m].deleted <= seen PROVE FALSE
        BY <2>1 DEF VisibleAt
      <3>1. PICK k \in DOMAIN builds : k > m /\ builds[k].created < builds[m].deleted
        BY <2>1 DEF HistoryInv, DeletionsJustified
      <3>2. k \in T
        BY <3>1
      <3> QED
        BY <2>1, <3>1, <3>2
    <2>3. l \in VisibleAt(seen) /\ builds[m].ts <= builds[l].ts
      BY <2>2 DEF LastBuilds, NewestOf
    <2>4. l \in T /\ m <= l
      BY <2>1, <2>3 DEF VisibleAt, HistoryInv, Numbered
    <2> QED
      BY <2>1, <2>4
  <1> QED
    BY <1>1, <1>2

LEMMA StartLast == IInv /\ StartReconcile => HistoryInv' /\ LastIsNewest'
  <1> SUFFICES ASSUME IInv, StartReconcile PROVE HistoryInv' /\ LastIsNewest'
    OBVIOUS
  <1>1. UNCHANGED <<builds, rv, seen>> /\ view' = seen
    BY DEF StartReconcile, buildVars
  <1>2. HistoryInv'
    BY <1>1, QuietHistory, BuildsTyped DEF IInv
  <1>3. ASSUME pc' = "cache" PROVE LastIsNewest'
    <2>1. last' \in LastBuilds(seen) /\ ~RunningAt(last', seen)
      BY <1>3 DEF StartReconcile
    <2>2. ~RunningAt(last, view)'
      BY <1>1, <2>1 DEF RunningAt, FinishedAt
    <2>3. \A i \in DOMAIN builds : builds[i].deleted # 0 => builds[i].created <= seen
      BY DEF IInv, HistoryInv, DeletionsJustified
    <2>4. /\ last' # 0 => builds[last'].created <= seen
          /\ \A i \in DOMAIN builds : builds[i].created <= seen => i <= last'
      BY <2>1, FetchLastBuild DEF IInv
    <2> QED
      BY <1>1, <2>2, <2>3, <2>4 DEF LastIsNewest
  <1>4. pc' \in {"status", "cache"}
    BY DEF StartReconcile
  <1> QED
    BY <1>2, <1>3, <1>4 DEF LastIsNewest

-----------------------------------------------------------------------------
(* Steps that create, delete, finish or annotate a Build. *)

LEMMA CreateHistory == IInv /\ CreateBuild /\ ~SameSecond => HistoryInv' /\ LastIsNewest'
  <1> SUFFICES ASSUME IInv, CreateBuild, ~SameSecond PROVE HistoryInv' /\ LastIsNewest'
    OBVIOUS
  <1> USE BuildsTyped DEF IInv
  <1>1. pc = "build" /\ Needed = "True" /\ UNCHANGED seen
    BY DEF CreateBuild
  <1>2. CASE Failed /\ UNCHANGED buildVars
    <2>1. UNCHANGED <<builds, rv>> /\ pc' = "idle"
      BY <1>2 DEF Failed, Idle, buildVars
    <2> QED
      BY <1>1, <2>1, QuietHistory, QuietLast
  <1>3. CASE ~(Failed /\ UNCHANGED buildVars)
    <2> DEFINE n == BuildCounter(last) + 1
               N == Len(builds) + 1
    <2>1. /\ ~NameTaken(n) /\ rv' = rv + 1 /\ pc' = "trimFailed"
          /\ \E ts \in NextTimestamps : builds' = Append(builds, NewBuild(n, ts))
      BY <1>3 DEF CreateBuild
    <2>2. last = Len(builds) /\ n = N
      <3>1. last \in 0..Len(builds) /\ n = last + 1
        <4>1. last \in 0..Len(builds)
          BY DEF TypeOK
        <4>2. last # 0 => last \in DOMAIN builds /\ builds[last].num = last
          BY <4>1 DEF HistoryInv, Numbered
        <4> QED
          BY <4>1, <4>2 DEF BuildCounter
      <3>2. ~(last < Len(builds))
        <4> SUFFICES ASSUME last < Len(builds) PROVE FALSE
          OBVIOUS
        <4>1. last + 1 \in DOMAIN builds /\ builds[last + 1].num = last + 1
          BY <3>1 DEF HistoryInv, Numbered
        <4>2. builds[last + 1].deleted = 0
          BY <1>1, <3>1, <4>1 DEF LastIsNewest, TypeOK
        <4> QED
          BY <2>1, <3>1, <4>1, <4>2 DEF NameTaken
      <3>3. last = Len(builds)
        BY <3>1, <3>2, AtTheTop
      <3> HIDE DEF n
      <3> QED
        BY <3>1, <3>3
    <2>3. NextTimestamps = {N}
      <3>1. builds # <<>> => Len(builds) \in DOMAIN builds
        BY DEF TypeOK
      <3>2. builds = <<>> => Len(builds) = 0
        OBVIOUS
      <3> QED
        BY <3>1, <3>2 DEF NextTimestamps, HistoryInv, Numbered
    <2>4. builds' = Append(builds, NewBuild(N, N))
      BY <2>1, <2>2, <2>3
    <2>5. /\ DOMAIN builds' = 1..N /\ builds'[N] = NewBuild(N, N)
          /\ \A i \in DOMAIN builds : builds'[i] = builds[i]
      BY <2>4 DEF TypeOK
    <2>6. \A i \in DOMAIN builds : builds[i].finished # 0 /\ builds[i].finished < rv + 1
      <3>1. last # 0 => builds[last].finished # 0
        BY <1>1 DEF LastIsNewest, RunningAt, FinishedAt
      <3>2. \A i \in DOMAIN builds : i < last => builds[i].finished # 0
        BY <2>2 DEF HistoryInv, Sequential
      <3> QED
        BY <2>2, <3>1, <3>2 DEF HistoryInv, Stamped
    <2>7. /\ NewBuild(N, N).num = N /\ NewBuild(N, N).ts = N
          /\ NewBuild(N, N).created = rv + 1 /\ NewBuild(N, N).finished = 0
          /\ NewBuild(N, N).deleted = 0 /\ NewBuild(N, N).ok = FALSE
          /\ NewBuild(N, N).lastImage = LastImage(last, view)
          /\ NewBuild(N, N).env = SpecOf(w.img).env /\ NewBuild(N, N).src = w.sr.resolved
          /\ NewBuild(N, N).rev = w.sr.rev /\ NewBuild(N, N).run = w.bld.run
      BY DEF NewBuild
    <2> HIDE DEF n
    <2>8. Numbered' /\ Stamped' /\ Sequential'
      <3>1. Numbered'
        BY <2>5, <2>7 DEF HistoryInv, Numbered
      <3>2. Stamped'
        BY <2>1, <2>5, <2>7 DEF HistoryInv, Stamped
      <3>3. Sequential'
        BY <2>5, <2>6, <2>7 DEF HistoryInv, Sequential
      <3> QED
        BY <3>1, <3>2, <3>3
    <2>9. DeletionsJustified'
      <3> SUFFICES ASSUME NEW i \in 1..N, builds'[i].deleted # 0
                   PROVE  /\ builds'[i].created <= seen
                          /\ \E k \in 1..N : /\ k > i /\ builds'[k].created < builds'[i].deleted
                                             /\ builds'[k].finished # 0
                                             /\ builds'[k].ok = builds'[i].ok
        BY <1>1, <2>5 DEF DeletionsJustified
      <3>1. i \in DOMAIN builds /\ builds[i].deleted # 0 /\ builds'[i] = builds[i]
        BY <2>5, <2>7
      <3>2. PICK k \in DOMAIN builds : /\ k > i /\ builds[k].created < builds[i].deleted
                                       /\ builds[k].finished # 0
                                       /\ builds[k].ok = builds[i].ok
        BY <3>1 DEF HistoryInv, DeletionsJustified
      <3>3. builds[i].created <= seen
        BY <3>1 DEF HistoryInv, DeletionsJustified
      <3>4. k \in 1..N /\ builds'[k] = builds[k]
        BY <2>5
      <3> QED
        BY <3>1, <3>2, <3>3, <3>4
    <2>10. StartsFromNewestSuccess'
      <3>1. ASSUME NEW j \in DOMAIN builds
            PROVE  LET i == builds'[j].lastImage
                   IN  /\ i < j
                       /\ i # 0 => builds'[i].ok
                       /\ \A k \in (i + 1)..(j - 1) : ~builds'[k].ok
        <4>1. /\ builds[j].lastImage < j
              /\ builds[j].lastImage # 0 => builds[builds[j].lastImage].ok
              /\ \A k \in (builds[j].lastImage + 1)..(j - 1) : ~builds[k].ok
          BY DEF HistoryInv, StartsFromNewestSuccess
        <4>2. builds[j].lastImage # 0 => builds[j].lastImage \in DOMAIN builds
          BY <4>1
        <4>3. \A k \in (builds[j].lastImage + 1)..(j - 1) : k \in DOMAIN builds
          OBVIOUS
        <4> QED
          BY <2>5, <4>1, <4>2, <4>3
      <3>2. LET i == LastImage(last, view)
            IN  /\ i \in Nat /\ i < N
                /\ i # 0 => i \in DOMAIN builds /\ builds[i].ok
                /\ \A k \in (i + 1)..(N - 1) : k \in DOMAIN builds /\ ~builds[k].ok
        <4>1. CASE last = 0
          <5>0. LastImage(last, view) = 0
            BY <4>1 DEF LastImage, FailureAt, FinishedAt
          <5>1. N = 1
            BY <2>2, <4>1
          <5>2. \A k \in 1..0 : FALSE
            OBVIOUS
          <5>3. 0 + 1 = 1 /\ 1 - 1 = 0 /\ 0 < 1 /\ 0 \in Nat
            OBVIOUS
          <5> HIDE DEF N
          <5> QED
            BY <5>0, <5>1, <5>2, <5>3, Zenon
        <4>2. CASE last # 0 /\ builds[last].ok
          BY <2>2, <4>2 DEF LastImage, FailureAt
        <4>3. CASE last # 0 /\ ~builds[last].ok
          <5>1. LastImage(last, view) = builds[last].lastImage
            BY <1>1, <4>3 DEF LastImage, FailureAt, LastIsNewest, RunningAt
          <5>2. last \in DOMAIN builds
            BY <2>2, <4>3
          <5>3. /\ builds[last].lastImage < last
                /\ builds[last].lastImage # 0 => builds[builds[last].lastImage].ok
                /\ \A k \in (builds[last].lastImage + 1)..(last - 1) : ~builds[k].ok
            BY <5>2 DEF HistoryInv, StartsFromNewestSuccess
          <5> QED
            BY <2>2, <4>3, <5>1, <5>2, <5>3
        <4> QED
          BY <4>1, <4>2, <4>3
      <3>3. LET i == builds'[N].lastImage
            IN  /\ i < N
                /\ i # 0 => builds'[i].ok
                /\ \A k \in (i + 1)..(N - 1) : ~builds'[k].ok
        BY <2>5, <2>7, <3>2
      <3>4. \A j \in 1..N : j \in DOMAIN builds \/ j = N
        OBVIOUS
      <3> QED
        BY <2>5, <3>1, <3>3, <3>4 DEF StartsFromNewestSuccess
    <2>11. EveryBuildHasACause'
      <3>1. last # 0 =>
              \/ builds[last].triggered # 0 /\ builds[last].triggered < rv + 1
              \/ builds[last].env # SpecOf(w.img).env \/ builds[last].src # w.sr.resolved
              \/ builds[last].rev # w.sr.rev
              \/ builds[last].ok /\ w.bld.run # builds[last].run
        <4>1. view <= rv /\ view \in Nat
          BY DEF TypeOK
        <4> QED
          BY <1>1, <2>2, <4>1 DEF Needed, IsBuildRequired, TriggeredAt, CommitChange, ConfigChange,
                           BuilderChange, SuccessAt
      <3>2. ASSUME NEW i \in 1..N, i > 1
            PROVE  \/ builds'[i-1].triggered # 0 /\ builds'[i-1].triggered < builds'[i].created
                   \/ builds'[i].env # builds'[i-1].env \/ builds'[i].src # builds'[i-1].src
                   \/ builds'[i].rev # builds'[i-1].rev
                   \/ builds'[i-1].ok /\ builds'[i].run # builds'[i-1].run
        <4>1. i - 1 \in DOMAIN builds /\ builds'[i-1] = builds[i-1]
          BY <2>5, <3>2
        <4>2. CASE i = N
          BY <2>2, <2>5, <2>7, <3>1, <3>2, <4>1, <4>2
        <4>3. CASE i # N
          <5>1. i \in DOMAIN builds /\ builds'[i] = builds[i]
            BY <2>5, <4>3
          <5> QED
            BY <3>2, <4>1, <5>1 DEF HistoryInv, EveryBuildHasACause
        <4> QED
          BY <4>2, <4>3
      <3> QED
        BY <2>5, <3>2 DEF EveryBuildHasACause
    <2> QED
      BY <2>1, <2>8, <2>9, <2>10, <2>11 DEF HistoryInv, LastIsNewest
  <1> QED
    BY <1>2, <1>3

\* Deleting a finished Build that a newer one with the same outcome outlives.
LEMMA DeleteHistory ==
    ASSUME IInv, seen' = seen, rv' = rv + 1,
           NEW i \in DOMAIN builds, builds[i].created <= seen, builds[i].finished # 0,
           NEW k \in DOMAIN builds, k > i, builds[k].finished # 0, builds[k].ok = builds[i].ok,
           builds' = [builds EXCEPT ![i].deleted = rv + 1]
    PROVE  HistoryInv'
  <1> USE BuildsTyped DEF IInv
  <1>1. /\ DOMAIN builds' = DOMAIN builds
        /\ \A j \in DOMAIN builds :
             /\ builds'[j].num = builds[j].num /\ builds'[j].ts = builds[j].ts
             /\ builds'[j].env = builds[j].env /\ builds'[j].src = builds[j].src
             /\ builds'[j].rev = builds[j].rev /\ builds'[j].run = builds[j].run
             /\ builds'[j].lastImage = builds[j].lastImage
             /\ builds'[j].created = builds[j].created
             /\ j # i => builds'[j] = builds[j]
    <2>1. \A j \in DOMAIN builds : builds[j] \in Builds
      BY DEF TypeOK
    <2> QED
      BY <2>1 DEF Builds
  <1>2. \A j \in DOMAIN builds : /\ builds'[j].finished = builds[j].finished
                                 /\ builds'[j].ok = builds[j].ok
                                 /\ builds'[j].triggered = builds[j].triggered
    <2>1. builds[i] \in Builds
      BY DEF TypeOK
    <2>2. /\ builds'[i].finished = builds[i].finished /\ builds'[i].ok = builds[i].ok
          /\ builds'[i].triggered = builds[i].triggered
      BY <2>1 DEF Builds
    <2> QED
      BY <1>1, <2>2
  <1>3. builds'[i].deleted = rv + 1
    <2>1. builds[i] \in Builds
      BY DEF TypeOK
    <2> QED
      BY <2>1 DEF Builds
  <1>4. Numbered'
    BY <1>1 DEF HistoryInv, Numbered
  <1>5. Stamped'
    <2> SUFFICES ASSUME NEW j \in DOMAIN builds
                 PROVE  /\ builds'[j].created \in 1..rv'
                        /\ builds'[j].finished <= rv' /\ builds'[j].deleted <= rv'
                        /\ builds'[j].ok => builds'[j].finished # 0
                        /\ builds'[j].deleted # 0 => builds'[j].finished # 0
      BY <1>1 DEF Stamped
    <2>1. /\ builds[j].created \in 1..rv
          /\ builds[j].finished <= rv /\ builds[j].deleted <= rv
          /\ builds[j].ok => builds[j].finished # 0
          /\ builds[j].deleted # 0 => builds[j].finished # 0
      BY DEF HistoryInv, Stamped
    <2> QED
      BY <1>1, <1>2, <1>3, <2>1
  <1>6. Sequential'
    BY <1>1, <1>2 DEF HistoryInv, Sequential
  <1>7. DeletionsJustified'
    <2> SUFFICES ASSUME NEW j \in DOMAIN builds, builds'[j].deleted # 0
                 PROVE  /\ builds[j].created <= seen
                        /\ \E m \in DOMAIN builds : /\ m > j
                                                    /\ builds[m].created < builds'[j].deleted
                                                    /\ builds[m].finished # 0
                                                    /\ builds[m].ok = builds[j].ok
      BY <1>1, <1>2 DEF DeletionsJustified
    <2>1. CASE j = i
      BY <1>3, <2>1 DEF HistoryInv, Stamped
    <2>2. CASE j # i
      BY <1>1, <2>2 DEF HistoryInv, DeletionsJustified
    <2> QED
      BY <2>1, <2>2
  <1>8. StartsFromNewestSuccess'
    <2> SUFFICES ASSUME NEW j \in DOMAIN builds
                 PROVE  /\ builds'[j].lastImage < j
                        /\ builds'[j].lastImage # 0 => builds'[builds'[j].lastImage].ok
                        /\ \A n \in (builds'[j].lastImage + 1)..(j - 1) : ~builds'[n].ok
      BY <1>1 DEF StartsFromNewestSuccess
    <2>1. /\ builds[j].lastImage < j
          /\ builds[j].lastImage # 0 => builds[builds[j].lastImage].ok
          /\ \A n \in (builds[j].lastImage + 1)..(j - 1) : ~builds[n].ok
      BY DEF HistoryInv, StartsFromNewestSuccess
    <2>2. builds[j].lastImage # 0 => builds[j].lastImage \in DOMAIN builds
      BY <2>1
    <2>3. \A n \in (builds[j].lastImage + 1)..(j - 1) : n \in DOMAIN builds
      OBVIOUS
    <2>4. builds'[j].lastImage = builds[j].lastImage
      BY <1>1
    <2> QED
      BY <1>2, <2>1, <2>2, <2>3, <2>4
  <1>9. EveryBuildHasACause'
    <2> SUFFICES ASSUME NEW j \in DOMAIN builds, j > 1
                 PROVE  \/ builds'[j-1].triggered # 0 /\ builds'[j-1].triggered < builds'[j].created
                        \/ builds'[j].env # builds'[j-1].env \/ builds'[j].src # builds'[j-1].src
                        \/ builds'[j].rev # builds'[j-1].rev
                        \/ builds'[j-1].ok /\ builds'[j].run # builds'[j-1].run
      BY <1>1 DEF EveryBuildHasACause
    <2>1. j - 1 \in DOMAIN builds
      OBVIOUS
    <2>2. \/ builds[j-1].triggered # 0 /\ builds[j-1].triggered < builds[j].created
          \/ builds[j].env # builds[j-1].env \/ builds[j].src # builds[j-1].src
          \/ builds[j].rev # builds[j-1].rev
          \/ builds[j-1].ok /\ builds[j].run # builds[j-1].run
      BY DEF HistoryInv, EveryBuildHasACause
    <2> QED
      BY <1>1, <1>2, <2>1, <2>2
  <1> QED
    BY <1>4, <1>5, <1>6, <1>7, <1>8, <1>9 DEF HistoryInv

LEMMA TrimHistory ==
    ASSUME IInv, seen' = seen, NEW v \in Nat, v <= seen, NEW o \in BOOLEAN,
           NEW limit \in Nat \ {0}, NEW S,
           S = {i \in VisibleAt(v) : FinishedAt(i, v) /\ builds[i].ok = o},
           NEW i \in OldestOf(S), Cardinality(S) > limit,
           builds' = [builds EXCEPT ![i].deleted = rv + 1], rv' = rv + 1
    PROVE  HistoryInv'
  <1> USE BuildsTyped DEF IInv
  <1>1. S \subseteq DOMAIN builds /\ IsFiniteSet(S)
    <2>1. S \subseteq 1..Len(builds)
      BY DEF VisibleAt
    <2>2. IsFiniteSet(1..Len(builds))
      BY FS_Interval, 1 \in Int, Len(builds) \in Int
    <2> QED
      BY <2>1, <2>2, FS_Subset
  <1>2. i \in S /\ \A j \in S : builds[i].ts <= builds[j].ts
    BY DEF OldestOf
  <1>3. PICK k \in S : k # i
    BY <1>1, <1>2, AnotherElement
  <1>4. k > i
    BY <1>1, <1>2, <1>3 DEF HistoryInv, Numbered
  <1>5. \A j \in S : /\ builds[j].created <= seen /\ builds[j].finished # 0
                     /\ builds[j].ok = o
    BY <1>1 DEF VisibleAt, FinishedAt
  <1> QED
    BY <1>1, <1>2, <1>3, <1>4, <1>5, DeleteHistory

LEMMA TrimFailedHistory == IInv /\ TrimFailed => HistoryInv' /\ LastIsNewest'
  <1> SUFFICES ASSUME IInv, TrimFailed PROVE HistoryInv' /\ LastIsNewest'
    OBVIOUS
  <1> DEFINE S == FailedBuilds(seen)
  <1>1. seen' = seen /\ pc' \in {"trimSuccess", "idle"}
    BY DEF TrimFailed, TrimOne, DeleteBuild, Failed, Idle
  <1>2. \/ UNCHANGED buildVars
        \/ /\ Cardinality(S) > FailedLimit
           /\ \E i \in OldestOf(S) : builds' = [builds EXCEPT ![i].deleted = rv + 1]
           /\ rv' = rv + 1
    BY DEF TrimFailed, TrimOne, DeleteBuild
  <1>3. CASE UNCHANGED buildVars
    BY <1>1, <1>3, QuietHistory, BuildsTyped DEF IInv, buildVars, LastIsNewest
  <1>4. CASE ~UNCHANGED buildVars
    <2>1. PICK i \in OldestOf(S) : builds' = [builds EXCEPT ![i].deleted = rv + 1]
      BY <1>2, <1>4
    <2>2. S = {j \in VisibleAt(seen) : FinishedAt(j, seen) /\ builds[j].ok = FALSE}
      <3>1. \A j \in VisibleAt(seen) : builds[j].ok \in BOOLEAN
        BY BuildsTyped DEF IInv, VisibleAt
      <3> QED
        BY <3>1, Zenon DEF FailedBuilds, FailureAt
    <2> HIDE DEF S
    <2>3. seen \in Nat /\ seen <= seen
      BY BuildsTyped DEF IInv
    <2>4. /\ Cardinality(S) > FailedLimit /\ FailedLimit \in Nat \ {0} /\ rv' = rv + 1
      BY <1>2, <1>4, LimitsAssumption
    <2>5. HistoryInv'
      BY <1>1, <2>1, <2>2, <2>3, <2>4, TrimHistory
    <2> QED
      BY <1>1, <2>5 DEF LastIsNewest
  <1> QED
    BY <1>3, <1>4

LEMMA TrimSuccessHistory == IInv /\ TrimSuccess => HistoryInv' /\ LastIsNewest'
  <1> SUFFICES ASSUME IInv, TrimSuccess PROVE HistoryInv' /\ LastIsNewest'
    OBVIOUS
  <1> DEFINE S == SuccessBuilds(trim)
  <1>1. seen' = seen /\ pc' \in {"status", "idle"}
    BY DEF TrimSuccess, TrimOne, DeleteBuild, Failed, Idle
  <1>2. \/ UNCHANGED buildVars
        \/ /\ Cardinality(S) > SuccessLimit
           /\ \E i \in OldestOf(S) : builds' = [builds EXCEPT ![i].deleted = rv + 1]
           /\ rv' = rv + 1
    BY DEF TrimSuccess, TrimOne, DeleteBuild
  <1>3. CASE UNCHANGED buildVars
    BY <1>1, <1>3, QuietHistory, BuildsTyped DEF IInv, buildVars, LastIsNewest
  <1>4. CASE ~UNCHANGED buildVars
    <2>1. PICK i \in OldestOf(S) : builds' = [builds EXCEPT ![i].deleted = rv + 1]
      BY <1>2, <1>4
    <2>2. S = {j \in VisibleAt(trim) : FinishedAt(j, trim) /\ builds[j].ok = TRUE}
      <3>1. \A j \in VisibleAt(trim) : builds[j].ok \in BOOLEAN
        BY BuildsTyped DEF IInv, VisibleAt
      <3> QED
        BY <3>1, Zenon DEF SuccessBuilds, SuccessAt
    <2> HIDE DEF S
    <2>3. trim \in Nat /\ trim <= seen
      BY DEF IInv, TypeOK
    <2>4. /\ Cardinality(S) > SuccessLimit /\ SuccessLimit \in Nat \ {0} /\ rv' = rv + 1
      BY <1>2, <1>4, LimitsAssumption
    <2>5. HistoryInv'
      BY <1>1, <2>1, <2>2, <2>3, <2>4, TrimHistory
    <2> QED
      BY <1>1, <2>5 DEF LastIsNewest
  <1> QED
    BY <1>3, <1>4

\* Only the newest Build can be unfinished, so that finishing one changes no
\* comparison between earlier Builds.
LEMMA FinishHistory ==
    ASSUME IInv, NEW i \in DOMAIN builds, NEW ok \in BOOLEAN, FinishBuild(i, ok)
    PROVE  HistoryInv' /\ LastIsNewest'
  <1> USE BuildsTyped DEF IInv
  <1>1. /\ builds[i].finished = 0 /\ rv' = rv + 1 /\ UNCHANGED <<seen, pc, view, last>>
        /\ builds' = [builds EXCEPT ![i].finished = rv + 1, ![i].ok = ok]
    BY DEF FinishBuild
  <1>2. i = Len(builds)
    <2>1. \A j \in DOMAIN builds : j <= i
      BY <1>1 DEF HistoryInv, Sequential
    <2> QED
      BY <2>1
  <1>3. /\ DOMAIN builds' = DOMAIN builds
        /\ \A j \in DOMAIN builds :
             /\ builds'[j].num = builds[j].num /\ builds'[j].ts = builds[j].ts
             /\ builds'[j].env = builds[j].env /\ builds'[j].src = builds[j].src
             /\ builds'[j].rev = builds[j].rev /\ builds'[j].run = builds[j].run
             /\ builds'[j].lastImage = builds[j].lastImage
             /\ builds'[j].created = builds[j].created
             /\ builds'[j].deleted = builds[j].deleted
             /\ j # i => builds'[j] = builds[j]
             /\ builds'[i].finished = rv + 1 /\ builds'[i].ok = ok
    <2>1. \A j \in DOMAIN builds : builds[j] \in Builds
      BY DEF TypeOK
    <2> QED
      BY <1>1, <2>1 DEF Builds
  <1>4. Numbered'
    BY <1>3 DEF HistoryInv, Numbered
  <1>5. Stamped'
    <2> SUFFICES ASSUME NEW j \in DOMAIN builds
                 PROVE  /\ builds'[j].created \in 1..rv'
                        /\ builds'[j].finished <= rv' /\ builds'[j].deleted <= rv'
                        /\ builds'[j].ok => builds'[j].finished # 0
                        /\ builds'[j].deleted # 0 => builds'[j].finished # 0
      BY <1>3 DEF Stamped
    <2>1. /\ builds[j].created \in 1..rv
          /\ builds[j].finished <= rv /\ builds[j].deleted <= rv
          /\ builds[j].ok => builds[j].finished # 0
          /\ builds[j].deleted # 0 => builds[j].finished # 0
      BY DEF HistoryInv, Stamped
    <2> QED
      BY <1>1, <1>3, <2>1
  <1>6. Sequential'
    <2> SUFFICES ASSUME NEW j \in DOMAIN builds, NEW k \in DOMAIN builds, j < k
                 PROVE  builds'[j].finished # 0 /\ builds'[j].finished < builds'[k].created
      BY <1>3 DEF Sequential
    <2>1. j # i
      BY <1>2
    <2> QED
      BY <1>3, <2>1 DEF HistoryInv, Sequential
  <1>7. DeletionsJustified'
    <2> SUFFICES ASSUME NEW j \in DOMAIN builds, builds'[j].deleted # 0
                 PROVE  /\ builds'[j].created <= seen'
                        /\ \E k \in DOMAIN builds : /\ k > j
                                                    /\ builds'[k].created < builds'[j].deleted
                                                    /\ builds'[k].finished # 0
                                                    /\ builds'[k].ok = builds'[j].ok
      BY <1>3 DEF DeletionsJustified
    <2>1. j # i /\ builds[j].deleted # 0
      BY <1>1, <1>3 DEF HistoryInv, Stamped
    <2>2. PICK k \in DOMAIN builds : /\ k > j /\ builds[k].created < builds[j].deleted
                                     /\ builds[k].finished # 0 /\ builds[k].ok = builds[j].ok
      BY <2>1 DEF HistoryInv, DeletionsJustified
    <2>3. k # i
      BY <1>1, <2>2
    <2>4. builds[j].created <= seen
      BY <2>1 DEF HistoryInv, DeletionsJustified
    <2> QED
      BY <1>1, <1>3, <2>1, <2>2, <2>3, <2>4
  <1>8. StartsFromNewestSuccess'
    <2> SUFFICES ASSUME NEW j \in DOMAIN builds
                 PROVE  /\ builds'[j].lastImage < j
                        /\ builds'[j].lastImage # 0 => builds'[builds'[j].lastImage].ok
                        /\ \A n \in (builds'[j].lastImage + 1)..(j - 1) : ~builds'[n].ok
      BY <1>3 DEF StartsFromNewestSuccess
    <2>1. /\ builds[j].lastImage < j
          /\ builds[j].lastImage # 0 => builds[builds[j].lastImage].ok
          /\ \A n \in (builds[j].lastImage + 1)..(j - 1) : ~builds[n].ok
      BY DEF HistoryInv, StartsFromNewestSuccess
    <2>2. builds[j].lastImage # 0 =>
            builds[j].lastImage \in DOMAIN builds /\ builds[j].lastImage # i
      BY <1>2, <2>1
    <2>3. \A n \in (builds[j].lastImage + 1)..(j - 1) : n \in DOMAIN builds /\ n # i
      <3>1. j <= i /\ i \in Nat
        BY <1>2
      <3>2. \A n \in (builds[j].lastImage + 1)..(j - 1) : n \in DOMAIN builds /\ n < j
        OBVIOUS
      <3> QED
        BY <3>1, <3>2
    <2>4. builds'[j].lastImage = builds[j].lastImage
      BY <1>3
    <2>5. \A n \in DOMAIN builds : n # i => builds'[n].ok = builds[n].ok
      BY <1>3
    <2> QED
      BY <2>1, <2>2, <2>3, <2>4, <2>5
  <1>9. EveryBuildHasACause'
    <2> SUFFICES ASSUME NEW j \in DOMAIN builds, j > 1
                 PROVE  \/ builds'[j-1].triggered # 0 /\ builds'[j-1].triggered < builds'[j].created
                        \/ builds'[j].env # builds'[j-1].env \/ builds'[j].src # builds'[j-1].src
                        \/ builds'[j].rev # builds'[j-1].rev
                        \/ builds'[j-1].ok /\ builds'[j].run # builds'[j-1].run
      BY <1>3 DEF EveryBuildHasACause
    <2>1. j - 1 \in DOMAIN builds /\ j - 1 # i
      BY <1>2
    <2>2. \/ builds[j-1].triggered # 0 /\ builds[j-1].triggered < builds[j].created
          \/ builds[j].env # builds[j-1].env \/ builds[j].src # builds[j-1].src
          \/ builds[j].rev # builds[j-1].rev
          \/ builds[j-1].ok /\ builds[j].run # builds[j-1].run
      BY DEF HistoryInv, EveryBuildHasACause
    <2> QED
      BY <1>3, <2>1, <2>2
  <1>10. LastIsNewest'
    <2> SUFFICES ASSUME pc \in {"cache", "source", "build"}
                 PROVE  /\ last # 0 => builds'[last].created <= view
                        /\ ~RunningAt(last, view)'
                        /\ \A j \in DOMAIN builds : builds'[j].created <= view => j <= last
                        /\ \A j \in DOMAIN builds : builds'[j].deleted # 0
                                                      => builds'[j].created <= view
      BY <1>1, <1>3 DEF LastIsNewest
    <2>1. last # 0 => last \in DOMAIN builds /\ last # i
      BY <1>1 DEF LastIsNewest, RunningAt, FinishedAt, TypeOK
    <2>2. ~RunningAt(last, view)'
      BY <1>1, <1>3, <2>1 DEF LastIsNewest, RunningAt, FinishedAt
    <2> QED
      BY <1>3, <2>1, <2>2 DEF LastIsNewest
  <1> QED
    BY <1>4, <1>5, <1>6, <1>7, <1>8, <1>9, <1>10 DEF HistoryInv

LEMMA TriggerHistory == IInv /\ Trigger => HistoryInv' /\ LastIsNewest'
  <1> SUFFICES ASSUME IInv, Trigger PROVE HistoryInv' /\ LastIsNewest'
    OBVIOUS
  <1> USE BuildsTyped DEF IInv
  <1> DEFINE i == Len(builds)
  <1>1. /\ rv' = rv + 1 /\ UNCHANGED <<seen, pc, view, last>>
        /\ builds' = [builds EXCEPT ![i].triggered = rv + 1]
        /\ builds # <<>>
    BY DEF Trigger
  <1>2. i \in DOMAIN builds
    BY <1>1 DEF TypeOK
  <1>3. /\ DOMAIN builds' = DOMAIN builds
        /\ \A j \in DOMAIN builds :
             /\ builds'[j].num = builds[j].num /\ builds'[j].ts = builds[j].ts
             /\ builds'[j].env = builds[j].env /\ builds'[j].src = builds[j].src
             /\ builds'[j].rev = builds[j].rev /\ builds'[j].run = builds[j].run
             /\ builds'[j].lastImage = builds[j].lastImage
             /\ builds'[j].created = builds[j].created
             /\ builds'[j].finished = builds[j].finished
             /\ builds'[j].ok = builds[j].ok
             /\ builds'[j].deleted = builds[j].deleted
             /\ j # i => builds'[j].triggered = builds[j].triggered
    <2>1. \A j \in DOMAIN builds : builds[j] \in Builds
      BY DEF TypeOK
    <2> QED
      BY <1>1, <2>1 DEF Builds
  <1>4. Numbered' /\ Sequential'
    BY <1>3 DEF HistoryInv, Numbered, Sequential
  <1>5. Stamped'
    <2> SUFFICES ASSUME NEW j \in DOMAIN builds
                 PROVE  /\ builds'[j].created \in 1..rv'
                        /\ builds'[j].finished <= rv' /\ builds'[j].deleted <= rv'
                        /\ builds'[j].ok => builds'[j].finished # 0
                        /\ builds'[j].deleted # 0 => builds'[j].finished # 0
      BY <1>3 DEF Stamped
    <2>1. /\ builds[j].created \in 1..rv
          /\ builds[j].finished <= rv /\ builds[j].deleted <= rv
          /\ builds[j].ok => builds[j].finished # 0
          /\ builds[j].deleted # 0 => builds[j].finished # 0
      BY DEF HistoryInv, Stamped
    <2> QED
      BY <1>1, <1>3, <2>1
  <1>6. DeletionsJustified'
    <2> SUFFICES ASSUME NEW j \in DOMAIN builds, builds'[j].deleted # 0
                 PROVE  /\ builds'[j].created <= seen'
                        /\ \E k \in DOMAIN builds : /\ k > j
                                                    /\ builds'[k].created < builds'[j].deleted
                                                    /\ builds'[k].finished # 0
                                                    /\ builds'[k].ok = builds'[j].ok
      BY <1>3 DEF DeletionsJustified
    <2>1. builds[j].deleted # 0
      BY <1>3
    <2>2. PICK k \in DOMAIN builds : /\ k > j /\ builds[k].created < builds[j].deleted
                                     /\ builds[k].finished # 0 /\ builds[k].ok = builds[j].ok
      BY <2>1 DEF HistoryInv, DeletionsJustified
    <2>3. builds[j].created <= seen
      BY <2>1 DEF HistoryInv, DeletionsJustified
    <2> QED
      BY <1>1, <1>3, <2>2, <2>3
  <1>7. StartsFromNewestSuccess'
    <2> SUFFICES ASSUME NEW j \in DOMAIN builds
                 PROVE  /\ builds'[j].lastImage < j
                        /\ builds'[j].lastImage # 0 => builds'[builds'[j].lastImage].ok
                        /\ \A n \in (builds'[j].lastImage + 1)..(j - 1) : ~builds'[n].ok
      BY <1>3 DEF StartsFromNewestSuccess
    <2>1. /\ builds[j].lastImage < j
          /\ builds[j].lastImage # 0 => builds[builds[j].lastImage].ok
          /\ \A n \in (builds[j].lastImage + 1)..(j - 1) : ~builds[n].ok
      BY DEF HistoryInv, StartsFromNewestSuccess
    <2>2. builds[j].lastImage # 0 => builds[j].lastImage \in DOMAIN builds
      BY <2>1
    <2>3. \A n \in (builds[j].lastImage + 1)..(j - 1) : n \in DOMAIN builds
      OBVIOUS
    <2>4. builds'[j].lastImage = builds[j].lastImage
      BY <1>3
    <2> QED
      BY <1>3, <2>1, <2>2, <2>3, <2>4
  <1>8. EveryBuildHasACause'
    <2> SUFFICES ASSUME NEW j \in DOMAIN builds, j > 1
                 PROVE  \/ builds'[j-1].triggered # 0 /\ builds'[j-1].triggered < builds'[j].created
                        \/ builds'[j].env # builds'[j-1].env \/ builds'[j].src # builds'[j-1].src
                        \/ builds'[j].rev # builds'[j-1].rev
                        \/ builds'[j-1].ok /\ builds'[j].run # builds'[j-1].run
      BY <1>3 DEF EveryBuildHasACause
    <2>1. j - 1 \in DOMAIN builds /\ j - 1 # i
      OBVIOUS
    <2>2. \/ builds[j-1].triggered # 0 /\ builds[j-1].triggered < builds[j].created
          \/ builds[j].env # builds[j-1].env \/ builds[j].src # builds[j-1].src
          \/ builds[j].rev # builds[j-1].rev
          \/ builds[j-1].ok /\ builds[j].run # builds[j-1].run
      BY DEF HistoryInv, EveryBuildHasACause
    <2> QED
      BY <1>3, <2>1, <2>2
  <1>9. LastIsNewest'
    <2>1. last \in 0..Len(builds)
      BY DEF TypeOK
    <2> QED
      BY <1>1, <1>3, <2>1 DEF LastIsNewest, RunningAt, FinishedAt
  <1> QED
    BY <1>4, <1>5, <1>6, <1>7, <1>8, <1>9 DEF HistoryInv

-----------------------------------------------------------------------------
(* The theorems about the history. *)

LEMMA InitIInv == Init => IInv
  <1> SUFFICES ASSUME Init PROVE IInv
    OBVIOUS
  <1>1. TypeOK
    BY InitType
  <1>2. DOMAIN builds = {}
    BY DEF Init
  <1>3. HistoryInv
    BY <1>2 DEF HistoryInv, Numbered, Stamped, Sequential, DeletionsJustified,
                StartsFromNewestSuccess, EveryBuildHasACause
  <1>4. LastIsNewest
    BY DEF Init, LastIsNewest
  <1> QED
    BY <1>1, <1>3, <1>4 DEF IInv

\* A step that leaves the Builds alone and lets the informer at most advance.
LEMMA QuietStep ==
    ASSUME IInv, UNCHANGED <<builds, rv>>, seen' \in {seen, seen + 1, rv},
           \/ pc' \notin {"cache", "source", "build"}
           \/ pc \in {"cache", "source", "build"} /\ UNCHANGED <<view, last>>
           \/ UNCHANGED <<pc, view, last>>
    PROVE  HistoryInv' /\ LastIsNewest'
  <1>1. seen' \in Nat /\ seen' >= seen
    BY BuildsTyped DEF IInv
  <1>2. HistoryInv'
    BY <1>1, QuietHistory DEF IInv
  <1>3. LastIsNewest'
    BY QuietLast DEF IInv
  <1> QED
    BY <1>2, <1>3

LEMMA NextIInv == IInv /\ [Next]_vars /\ ~SameSecond => IInv'
  <1> SUFFICES ASSUME IInv, [Next]_vars, ~SameSecond PROVE HistoryInv' /\ LastIsNewest'
    BY NextType DEF IInv
  <1> USE DEF buildVars
  <1>1. CASE Sync
    BY <1>1, QuietStep DEF Sync, SyncImage, SyncBuilds, SyncResolver, SyncClaim
  <1>2. CASE StartReconcile
    BY <1>2, StartLast
  <1>3. CASE ReconcileBuildCache
    BY <1>3, QuietStep DEF ReconcileBuildCache, Failed, Idle
  <1>4. CASE ReconcileSourceResolver
    BY <1>4, QuietStep DEF ReconcileSourceResolver, Failed, Idle
  <1>5. CASE SkipBuild
    BY <1>5, QuietStep DEF SkipBuild
  <1>6. CASE CreateBuild
    BY <1>6, CreateHistory
  <1>7. CASE TrimFailed
    BY <1>7, TrimFailedHistory
  <1>8. CASE TrimSuccess
    BY <1>8, TrimSuccessHistory
  <1>9. CASE UpdateStatus
    BY <1>9, QuietStep DEF UpdateStatus, Failed, Idle
  <1>10. CASE CallFails \/ Crash
    BY <1>10, QuietStep DEF CallFails, Crash, Failed, Idle
  <1>11. CASE ResolveSource
    BY <1>11, QuietStep DEF ResolveSource
  <1>12. CASE Trigger
    BY <1>12, TriggerHistory
  <1>13. CASE \/ \E s \in ImageSpecs : EditSpec(s)
              \/ NewCommit
              \/ \E b \in Builders : ChangeBuilder(b)
    BY <1>13, QuietStep DEF EditSpec, NewCommit, ChangeBuilder
  <1>14. CASE \E i \in DOMAIN builds, ok \in BOOLEAN : FinishBuild(i, ok)
    BY <1>14, FinishHistory
  <1>15. CASE UNCHANGED vars
    BY <1>15, QuietStep DEF vars
  <1> QED
    BY <1>1, <1>2, <1>3, <1>4, <1>5, <1>6, <1>7, <1>8, <1>9, <1>10, <1>11, <1>12, <1>13,
       <1>14, <1>15 DEF Next, Reconcile, Users

\* When no two Builds of the Image carry one creationTimestamp, the Builds satisfy
\* the inductive invariant in every behaviour.
THEOREM HistoryCorrect == ~SameSecond => (Spec => []IInv)
  <1> SUFFICES ASSUME ~SameSecond PROVE Spec => []IInv
    OBVIOUS
  <1>1. IInv /\ [Next]_vars => IInv'
    BY NextIInv
  <1> QED
    BY <1>1, InitIInv, PTL DEF Spec

\* lastBuild.IsRunning() on a list that may be stale, and Build names that depend on
\* the number alone, keep an Image from having two unfinished builds.
THEOREM OneBuild == ~SameSecond => (Spec => []OneBuildAtATime)
  <1> SUFFICES ASSUME ~SameSecond PROVE Spec => []OneBuildAtATime
    OBVIOUS
  <1>1. IInv => OneBuildAtATime
    <2> SUFFICES ASSUME IInv, NEW i \in DOMAIN builds, NEW j \in DOMAIN builds,
                        builds[i].finished = 0, builds[j].finished = 0
                 PROVE  i = j
      BY DEF OneBuildAtATime
    <2>1. ~(i < j) /\ ~(j < i)
      BY DEF IInv, HistoryInv, Sequential
    <2> QED
      BY <2>1, BuildsTyped DEF IInv
  <1> QED
    BY <1>1, HistoryCorrect, PTL

\* The numbers that reconcileBuild gives to Builds count them, deleted ones included.
THEOREM NumbersNeverReused == ~SameSecond => (Spec => []BuildNumbersNeverReused)
  <1> SUFFICES ASSUME ~SameSecond PROVE Spec => []BuildNumbersNeverReused
    OBVIOUS
  <1>1. IInv => BuildNumbersNeverReused
    BY DEF IInv, HistoryInv, Numbered, BuildNumbersNeverReused
  <1> QED
    BY <1>1, HistoryCorrect, PTL

\* deleteOldBuilds, whatever list it works on, keeps the newest Build and the newest
\* successful one.
THEOREM NewestKept == ~SameSecond => (Spec => []NewestBuildsKept)
  <1> SUFFICES ASSUME ~SameSecond PROVE Spec => []NewestBuildsKept
    OBVIOUS
  <1>1. IInv => NewestBuildsKept
    <2> SUFFICES ASSUME IInv, NEW i \in DOMAIN builds, builds[i].deleted # 0
                 PROVE  /\ \E k \in DOMAIN builds : k > i
                        /\ builds[i].ok => \E k \in DOMAIN builds : k > i /\ builds[k].ok
      BY DEF NewestBuildsKept
    <2>1. PICK k \in DOMAIN builds : k > i /\ builds[k].ok = builds[i].ok
      BY DEF IInv, HistoryInv, DeletionsJustified
    <2> QED
      BY <2>1
  <1> QED
    BY <1>1, HistoryCorrect, PTL

\* Through failures and deletions, a Build's lastBuild is the newest success before it.
THEOREM NewestSuccessReused == ~SameSecond => (Spec => []StartsFromNewestSuccess)
  <1> SUFFICES ASSUME ~SameSecond PROVE Spec => []StartsFromNewestSuccess
    OBVIOUS
  <1>1. IInv => StartsFromNewestSuccess
    BY DEF IInv, HistoryInv
  <1> QED
    BY <1>1, HistoryCorrect, PTL

\* isBuildRequired compares with a last build that may be out of date, and still no
\* Build repeats the one before it without having been asked for.
THEOREM BuildsHaveCauses == ~SameSecond => (Spec => []EveryBuildHasACause)
  <1> SUFFICES ASSUME ~SameSecond PROVE Spec => []EveryBuildHasACause
    OBVIOUS
  <1>1. IInv => EveryBuildHasACause
    BY DEF IInv, HistoryInv
  <1> QED
    BY <1>1, HistoryCorrect, PTL

-----------------------------------------------------------------------------
(* The refinement: ImageController implements BuildHistory. *)

\* How a Build stands, and the two variables of BuildHistory.
StateOf(b) == IF b.finished = 0 THEN "running" ELSE IF b.ok THEN "succeeded" ELSE "failed"
Hist == [i \in DOMAIN builds |-> StateOf(builds[i])]
Kept == {i \in DOMAIN builds : builds[i].deleted = 0}

HistoryStep == History!Next \/ (Hist' = Hist /\ Kept' = Kept)

\* Builds that all stand as they did.
LEMMA SameHistory ==
    ASSUME DOMAIN builds' = DOMAIN builds,
           \A i \in DOMAIN builds : /\ builds'[i].finished = builds[i].finished
                                    /\ builds'[i].ok = builds[i].ok
    PROVE  Hist' = Hist
  BY DEF Hist, StateOf

LEMMA SequenceIsFunction ==
    ASSUME NEW S, NEW s \in Seq(S)
    PROVE  s = [i \in DOMAIN s |-> s[i]]
  <1>1. s \in [1..Len(s) -> S]
    OBVIOUS
  <1> QED
    BY <1>1

LEMMA BuildRecords ==
    ASSUME TypeOK
    PROVE  builds \in Seq(Builds) /\ \A i \in DOMAIN builds : builds[i] \in Builds
  BY DEF TypeOK

LEMMA StateValues ==
    ASSUME TypeOK, NEW i \in DOMAIN builds
    PROVE  /\ StateOf(builds[i]) = "running" <=> builds[i].finished = 0
           /\ StateOf(builds[i]) \in History!Outcomes <=> builds[i].finished # 0
  BY DEF StateOf, History!Outcomes

\* Creating a Build starts a build: no other is running.
LEMMA StartsBuild ==
    ASSUME IInv, IInv', CreateBuild, ~UNCHANGED builds
    PROVE  History!Start
  <1>1. PICK b : builds' = Append(builds, b) /\ b.finished = 0 /\ b.deleted = 0
    <2>1. PICK n, ts : builds' = Append(builds, NewBuild(n, ts))
      BY DEF CreateBuild, buildVars
    <2>2. NewBuild(n, ts).finished = 0 /\ NewBuild(n, ts).deleted = 0
      BY DEF NewBuild
    <2> QED
      BY <2>1, <2>2
  <1> DEFINE N == Len(builds) + 1
  <1>2. /\ DOMAIN builds' = 1..N /\ builds'[N] = b /\ DOMAIN builds = 1..Len(builds)
        /\ Len(builds) \in Nat
        /\ \A i \in DOMAIN builds : builds'[i] = builds[i]
    <2>1. builds \in Seq(Builds)
      BY BuildRecords DEF IInv
    <2> QED
      BY <1>1, <2>1
  <1>3. \A i \in DOMAIN builds : builds[i].finished # 0
    BY <1>2 DEF IInv, HistoryInv, Sequential
  <1>4. \A i \in DOMAIN Hist : Hist[i] \in History!Outcomes
    BY <1>3, StateValues DEF IInv, Hist
  <1>5. Hist' = Append(Hist, "running")
    <2>1. /\ Hist \in Seq({"running", "succeeded", "failed"}) /\ Len(Hist) = Len(builds)
          /\ DOMAIN Hist = 1..Len(builds)
      <3>1. \A i \in 1..Len(builds) : Hist[i] \in {"running", "succeeded", "failed"}
        BY <1>2 DEF Hist, StateOf
      <3>2. Hist = [i \in 1..Len(builds) |-> Hist[i]]
        BY <1>2 DEF Hist
      <3> HIDE DEF Hist
      <3> QED
        BY <1>2, <3>1, <3>2
    <2>2. /\ DOMAIN Append(Hist, "running") = 1..N /\ Append(Hist, "running")[N] = "running"
          /\ \A i \in 1..Len(builds) : Append(Hist, "running")[i] = Hist[i]
      BY <1>2, <2>1
    <2>3. /\ DOMAIN Hist' = 1..N /\ Hist'[N] = "running"
          /\ \A i \in 1..Len(builds) : Hist'[i] = Hist[i]
      <3>1. Hist' = [i \in DOMAIN builds' |-> StateOf(builds'[i])]
        BY DEF Hist, StateOf
      <3>2. \A i \in 1..Len(builds) : i \in 1..N
        BY <1>2
      <3>3. N \in 1..N
        BY <1>2
      <3>4. StateOf(builds'[N]) = "running"
        BY <1>1, <1>2 DEF StateOf
      <3> HIDE DEF N
      <3> QED
        BY <1>2, <3>1, <3>2, <3>3, <3>4 DEF Hist
    <2>4. \A i \in 1..N : i \in 1..Len(builds) \/ i = N
      BY <1>2
    <2>5. \A i \in 1..N : Hist'[i] = Append(Hist, "running")[i]
      BY <2>2, <2>3, <2>4
    <2>6. Hist' = [i \in 1..N |-> Hist'[i]]
      BY <1>2 DEF Hist
    <2>7. Append(Hist, "running") = [i \in 1..N |-> Append(Hist, "running")[i]]
      <3>1. Append(Hist, "running") \in Seq({"running", "succeeded", "failed"})
        BY <2>1
      <3>2. DOMAIN Append(Hist, "running") = 1..N
        BY <2>2
      <3>3. Append(Hist, "running")
              = [i \in DOMAIN Append(Hist, "running") |-> Append(Hist, "running")[i]]
        BY <3>1, SequenceIsFunction
      <3> HIDE DEF Hist, N
      <3> QED
        BY <3>2, <3>3
    <2> HIDE DEF Hist, N
    <2> QED
      BY <2>5, <2>6, <2>7
  <1>6. Kept' = Kept \cup {Len(Hist) + 1}
    <2>1. Len(Hist) = Len(builds)
      BY <1>2 DEF Hist
    <2>2. \A i \in 1..N : i \in DOMAIN builds \/ i = N
      BY <1>2
    <2>3. DOMAIN builds \subseteq 1..N /\ N \in 1..N
      BY <1>2
    <2> QED
      BY <1>1, <1>2, <2>1, <2>2, <2>3 DEF Kept
  <1> QED
    BY <1>4, <1>5, <1>6 DEF History!Start, Hist, Kept, StateOf

\* Reporting the end of a Build's pod finishes a build.
LEMMA FinishesBuild ==
    ASSUME IInv, NEW i \in DOMAIN builds, NEW ok \in BOOLEAN, FinishBuild(i, ok)
    PROVE  \E outcome \in History!Outcomes : History!Finish(i, outcome)
  <1> DEFINE outcome == IF ok THEN "succeeded" ELSE "failed"
  <1>1. /\ builds[i].finished = 0 /\ rv + 1 # 0
        /\ builds' = [builds EXCEPT ![i].finished = rv + 1, ![i].ok = ok]
    BY BuildsTyped DEF FinishBuild, IInv
  <1>2. \A j \in DOMAIN builds : builds[j] \in Builds
    BY BuildRecords DEF IInv
  <1>3. /\ DOMAIN builds' = DOMAIN builds
        /\ \A j \in DOMAIN builds : /\ builds'[j].deleted = builds[j].deleted
                                    /\ j # i => builds'[j] = builds[j]
        /\ builds'[i].finished = rv + 1 /\ builds'[i].ok = ok
    BY <1>1, <1>2 DEF Builds
  <1>4. outcome \in History!Outcomes /\ Hist[i] = "running"
    BY <1>1 DEF History!Outcomes, Hist, StateOf
  <1>5. Hist' = [Hist EXCEPT ![i] = outcome]
    BY <1>1, <1>3 DEF Hist, StateOf
  <1>6. Kept' = Kept
    BY <1>3 DEF Kept
  <1> QED
    BY <1>4, <1>5, <1>6 DEF History!Finish, Hist, Kept, StateOf

\* Deleting a Build forgets a build that a newer one with its outcome outlives.
LEMMA ForgetsBuild ==
    ASSUME IInv, IInv', NEW i \in DOMAIN builds, builds[i].deleted = 0, rv' = rv + 1,
           builds' = [builds EXCEPT ![i].deleted = rv + 1]
    PROVE  i \in Kept /\ History!Forget(i)
  <1>1. \A j \in DOMAIN builds : builds[j] \in Builds
    BY BuildRecords DEF IInv
  <1>2. /\ DOMAIN builds' = DOMAIN builds
        /\ \A j \in DOMAIN builds : /\ builds'[j].finished = builds[j].finished
                                    /\ builds'[j].ok = builds[j].ok
                                    /\ j # i => builds'[j].deleted = builds[j].deleted
        /\ builds'[i].deleted = rv + 1
    BY <1>1 DEF Builds
  <1>3. rv + 1 # 0
    BY BuildsTyped DEF IInv
  <1>4. builds[i].finished # 0
    BY <1>2, <1>3 DEF IInv, HistoryInv, Stamped
  <1>5. PICK k \in DOMAIN builds : k > i /\ builds[k].finished # 0 /\ builds[k].ok = builds[i].ok
    BY <1>2, <1>3 DEF IInv, HistoryInv, DeletionsJustified
  <1>6. Hist[i] \in History!Outcomes /\ Hist[k] = Hist[i] /\ k \in DOMAIN Hist
    BY <1>4, <1>5 DEF Hist, StateOf, History!Outcomes
  <1>7. Hist' = Hist
    BY <1>2, SameHistory
  <1>8. i \in Kept /\ Kept' = Kept \ {i}
    BY <1>2, <1>3 DEF Kept
  <1> QED
    BY <1>5, <1>6, <1>7, <1>8 DEF History!Forget, Hist, Kept, StateOf

LEMMA InitHistory == Init => History!Init
  <1> SUFFICES ASSUME Init PROVE History!Init
    OBVIOUS
  <1>1. builds = <<>> /\ DOMAIN builds = {}
    BY DEF Init
  <1>2. Hist = <<>> /\ Kept = {}
    BY <1>1 DEF Hist, Kept
  <1> QED
    BY <1>2 DEF History!Init, Hist, Kept, StateOf

\* Every step of the reconciler and its environment is a step of BuildHistory, or
\* leaves the history of Builds as it is.
LEMMA NextHistory ==
    ASSUME IInv, IInv', [Next]_vars
    PROVE  HistoryStep
  <1>1. CASE UNCHANGED builds
    BY <1>1 DEF HistoryStep, Hist, Kept
  <1>2. CASE CreateBuild /\ ~UNCHANGED builds
    BY <1>2, StartsBuild DEF HistoryStep, History!Next
  <1>3. ASSUME NEW i \in DOMAIN builds, NEW ok \in BOOLEAN, FinishBuild(i, ok)
        PROVE  HistoryStep
    <2>1. \E outcome \in History!Outcomes : History!Finish(i, outcome)
      BY <1>3, FinishesBuild
    <2>2. i \in DOMAIN Hist
      BY DEF Hist
    <2> QED
      BY <2>1, <2>2 DEF HistoryStep, History!Next, Hist, StateOf
  <1>4. CASE (TrimFailed \/ TrimSuccess) /\ ~UNCHANGED builds
    <2>1. PICK i \in DOMAIN builds : /\ builds[i].deleted = 0 /\ rv' = rv + 1
                                     /\ builds' = [builds EXCEPT ![i].deleted = rv + 1]
      BY <1>4 DEF TrimFailed, TrimSuccess, TrimOne, DeleteBuild, buildVars, OldestOf,
                  FailedBuilds, SuccessBuilds, VisibleAt
    <2>2. i \in Kept /\ History!Forget(i)
      BY <2>1, ForgetsBuild
    <2> QED
      BY <2>2 DEF HistoryStep, History!Next, Kept
  <1>5. CASE Trigger
    <2>1. \A j \in DOMAIN builds : builds[j] \in Builds
      BY BuildRecords DEF IInv
    <2>2. /\ Len(builds) \in DOMAIN builds
          /\ builds' = [builds EXCEPT ![Len(builds)].triggered = rv + 1]
      <3>1. builds \in Seq(Builds)
        BY BuildRecords DEF IInv
      <3> QED
        BY <1>5, <3>1 DEF Trigger
    <2>3. /\ DOMAIN builds' = DOMAIN builds
          /\ \A j \in DOMAIN builds : /\ builds'[j].finished = builds[j].finished
                                      /\ builds'[j].ok = builds[j].ok
                                      /\ builds'[j].deleted = builds[j].deleted
      BY <2>1, <2>2 DEF Builds
    <2> QED
      BY <2>3, SameHistory DEF HistoryStep, Kept
  <1> USE DEF buildVars
  <1>6. CASE Sync
    BY <1>1, <1>6 DEF Sync, SyncImage, SyncBuilds, SyncResolver, SyncClaim
  <1>7. CASE \/ StartReconcile \/ ReconcileBuildCache \/ ReconcileSourceResolver
             \/ SkipBuild \/ UpdateStatus
    BY <1>1, <1>7 DEF StartReconcile, ReconcileBuildCache, ReconcileSourceResolver, SkipBuild,
                      UpdateStatus
  <1>8. CASE CallFails \/ Crash \/ ResolveSource
    BY <1>1, <1>8 DEF CallFails, Crash, ResolveSource
  <1>9. CASE \/ \E s \in ImageSpecs : EditSpec(s)
             \/ NewCommit
             \/ \E b \in Builders : ChangeBuilder(b)
    BY <1>1, <1>9 DEF EditSpec, NewCommit, ChangeBuilder
  <1>10. CASE UNCHANGED vars
    BY <1>1, <1>10 DEF vars
  <1> QED
    BY <1>1, <1>2, <1>3, <1>4, <1>5, <1>6, <1>7, <1>8, <1>9, <1>10 DEF Next, Reconcile, Users

\* The reconciler, with its stale lists, retries, refused calls and crashes, implements
\* the build history of BuildHistory.
THEOREM Refinement == ~SameSecond => (Spec => ImplementsBuildHistory)
  <1> SUFFICES ASSUME ~SameSecond PROVE Spec => ImplementsBuildHistory
    OBVIOUS
  <1>1. IInv /\ IInv' /\ [Next]_vars => HistoryStep
    BY NextHistory
  <1>2. HistoryStep => [History!Next]_<<Hist, Kept>>
    BY DEF HistoryStep
  <1>3. IInv /\ IInv' /\ [Next]_vars => [History!Next]_<<Hist, Kept>>
    BY <1>1, <1>2
  <1> QED
    BY <1>3, InitHistory, HistoryCorrect, PTL
       DEF Spec, ImplementsBuildHistory, History!Spec, Hist, Kept, StateOf

-----------------------------------------------------------------------------
(* What the controller has reached when nothing is queued. *)

\* A SourceResolver as it was read is not ahead of the one in the API server, and of
\* one generation it has the source and, resolved, no newer commit.
NotAhead(r, s) ==
    /\ r.gen <= s.gen
    /\ r.gen = s.gen => /\ r.src = s.src
                        /\ r.obs = r.gen => s.obs = s.gen /\ r.rev <= s.rev

\* A resolved revision is one the Git source has had; other sources have none.
Revision(r) == r.obs = r.gen => IF r.src \in GitSources THEN r.rev <= head ELSE r.rev = 0

OrderInv ==
    /\ imageCache.ver <= image.ver
    /\ NotAhead(srCache, sr) /\ Revision(sr) /\ Revision(srCache)
    /\ pc = "build" => Revision(w.sr)
    /\ \A i \in DOMAIN builds : builds[i].src \notin GitSources => builds[i].rev = 0

\* Unless its key is queued again, a reconcile in progress works on what the
\* informers still show.
FreshInv == pc # "idle" /\ ~dirty => /\ view = seen /\ w.img = imageCache /\ w.bld = builder
                                     /\ pc \in {"cache", "source", "build"} => builder.found

\* The status st describes the newest build, and is only UpToDate when that build is
\* of the spec s.
NewestIn(st) == NewestFinished => /\ st.ref = Len(builds)
                                  /\ st.counter = builds[Len(builds)].num
                                  /\ builds[Len(builds)].ok => st.latestImage = Len(builds)
UpToDateFor(st, s) == st.cond = "UpToDate" =>
    LET b == builds[Len(builds)]
    IN  /\ b.ok /\ st.latestImage = Len(builds)
        /\ b.env = s.env /\ b.src = s.src
        /\ b.rev = sr.rev /\ b.run = builder.run

\* What the steps done so far have achieved, provided that nothing was written: what
\* was written the informers will report, and the Image be queued again.
ClaimInv == ~dirty /\ pc \in {"source", "build", "trimFailed", "trimSuccess"} /\ pvc = pvcCache
              => pvc.size = SpecOf(w.img).cache
ResolverInHand == ~dirty /\ pc = "build" /\ sr = srCache => w.sr = sr
StatusInv == ~dirty /\ pc \in {"trimFailed", "trimSuccess"} /\ seen = rv =>
    /\ NewestIn(w.status)
    /\ sr = srCache => UpToDateFor(w.status, SpecOf(w.img))
TrimInv == ~dirty /\ pc = "trimSuccess" /\ seen = rv =>
    /\ trim = seen
    /\ Cardinality(FailedBuilds(rv)) <= FailedLimit

\* At the end of the reconcile, and when it is over.
Reached(st, s) ==
    /\ builder.found /\ NewestFinished =>
         /\ Cardinality(FailedBuilds(rv)) <= FailedLimit
         /\ Cardinality(SuccessBuilds(rv)) <= SuccessLimit
         /\ pvc.size = s.cache
         /\ NewestIn(st)
    /\ UpToDateFor(st, s)
EndInv == ~dirty /\ pc = "status" /\ seen = rv /\ sr = srCache /\ pvc = pvcCache
            => Reached(w.status, SpecOf(w.img))
RestInv == Settled => Reached(image.status, SpecOf(image)) /\ image.status.obs = image.gen

SettleInv == /\ FreshInv /\ ClaimInv /\ ResolverInHand /\ StatusInv /\ TrimInv
             /\ EndInv /\ RestInv

RInv == IInv /\ GInv /\ OrderInv /\ SettleInv

-----------------------------------------------------------------------------
(* Copies are not ahead of what they were read from. *)

LEMMA ResolverTyped ==
    ASSUME NEW r \in Resolvers
    PROVE  /\ r.gen \in Nat /\ r.obs \in Nat /\ r.rev \in Nat
           /\ r.src \in Sources /\ r.resolved \in Sources
  BY DEF Resolvers

LEMMA ReadType ==
    ASSUME TypeOK
    PROVE  /\ sr \in Resolvers /\ srCache \in Resolvers /\ w.sr \in Resolvers /\ head \in Nat
           /\ image.ver \in Nat /\ imageCache.ver \in Nat /\ w.img.ver \in Nat
           /\ image.gen = Len(specs) /\ Len(specs) \in Nat
           /\ pc # "idle" => w.img.gen \in 1..Len(specs)
  BY DEF TypeOK, Images

\* A step that writes no Image, SourceResolver or Build, and whose reconcile does not
\* read the SourceResolver.
LEMMA QuietOrder ==
    ASSUME RInv, UNCHANGED <<builds, sr>>, head' \in {head, head + 1},
           \/ UNCHANGED <<image, imageCache>>
           \/ image' = image /\ imageCache' = image,
           srCache' \in {srCache, sr},
           \/ pc' # "build"
           \/ pc = "build" /\ pc' = pc /\ w' = w
    PROVE  OrderInv'
  <1> USE DEF RInv, GInv, OrderInv
  <1>1. imageCache'.ver <= image'.ver
    BY ReadType
  <1>2. NotAhead(sr, sr)
    BY ReadType, ResolverTyped DEF NotAhead
  <1>3. NotAhead(srCache', sr')
    BY <1>2
  <1>4. ASSUME NEW r \in Resolvers, Revision(r)
        PROVE  r.obs = r.gen => IF r.src \in GitSources THEN r.rev <= head' ELSE r.rev = 0
    BY <1>4, ReadType, ResolverTyped DEF Revision
  <1>5. Revision(sr)' /\ Revision(srCache)' /\ (pc' = "build" => Revision(w.sr)')
    BY <1>4, ReadType DEF Revision
  <1>6. NotAhead(srCache, sr)'
    BY <1>3 DEF NotAhead
  <1> QED
    BY <1>1, <1>5, <1>6

LEMMA SourceOrder == RInv /\ ReconcileSourceResolver => OrderInv'
  <1> SUFFICES ASSUME RInv, ReconcileSourceResolver PROVE OrderInv'
    OBVIOUS
  <1> USE DEF RInv, GInv, OrderInv
  <1> DEFINE desired == SpecOf(w.img).src
  <1>1. UNCHANGED <<builds, image, imageCache, srCache, head>>
    BY DEF ReconcileSourceResolver, buildVars, imageVars, cacheVars
  <1>2. \/ pc' = "idle" /\ sr' = sr
        \/ pc' = "build" /\ w' = [w EXCEPT !.sr = srCache] /\ sr' = sr
        \/ /\ w' = [w EXCEPT !.sr = sr']
           /\ sr' = [sr EXCEPT !.gen = 1, !.src = desired] /\ sr.gen = 0
        \/ /\ w' = [w EXCEPT !.sr = sr']
           /\ sr' = [sr EXCEPT !.gen = sr.gen + 1, !.src = desired]
    BY ReadType DEF ReconcileSourceResolver, Failed, Idle, Resolvers
  <1>3. \A r : [w EXCEPT !.sr = r].sr = r
    BY DEF TypeOK
  <1>4. CASE pc' = "idle" /\ sr' = sr
    BY <1>1, <1>4, QuietOrder
  <1>5. CASE pc' = "build" /\ w' = [w EXCEPT !.sr = srCache] /\ sr' = sr
    <2>1. Revision(w.sr)'
      BY <1>1, <1>3, <1>5 DEF Revision
    <2> QED
      BY <1>1, <1>5, <2>1 DEF NotAhead, Revision
  <1>6. ASSUME NEW g \in Nat, g > sr.gen, sr' = [sr EXCEPT !.gen = g, !.src = desired],
               w' = [w EXCEPT !.sr = sr']
        PROVE  OrderInv'
    <2>1. sr'.gen = g /\ sr'.obs = sr.obs /\ w'.sr = sr'
      BY <1>3, <1>6, ReadType DEF Resolvers
    <2>2. sr.obs <= sr.gen /\ sr.obs \in Nat /\ sr.gen \in Nat /\ srCache.gen \in Nat
      BY ReadType, ResolverTyped DEF SourceInv, ResolverInv
    <2>3. sr'.obs # sr'.gen /\ srCache.gen <= sr'.gen /\ srCache.gen # sr'.gen
      BY <1>6, <2>1, <2>2 DEF NotAhead
    <2>4. Revision(sr)' /\ Revision(w.sr)' /\ NotAhead(srCache, sr)'
      BY <1>1, <2>1, <2>3 DEF Revision, NotAhead
    <2> QED
      BY <1>1, <2>4 DEF Revision
  <1>7. (sr.gen = 0 => 1 > sr.gen) /\ sr.gen + 1 > sr.gen /\ sr.gen + 1 \in Nat /\ 1 \in Nat
    BY ReadType, ResolverTyped
  <1> HIDE DEF RInv, GInv, OrderInv, desired
  <1> QED
    BY <1>2, <1>4, <1>5, <1>6, <1>7

LEMMA CreateOrder == RInv /\ CreateBuild => OrderInv'
  <1> SUFFICES ASSUME RInv, CreateBuild PROVE OrderInv'
    OBVIOUS
  <1> USE DEF RInv, GInv, OrderInv
  <1>1. /\ UNCHANGED <<image, imageCache, sr, srCache, head>>
        /\ pc = "build" /\ pc' # "build" /\ Needed = "True"
    BY DEF CreateBuild, imageVars, cacheVars, Failed, Idle
  <1>2. CASE UNCHANGED builds
    BY <1>1, <1>2, QuietOrder
  <1>3. ASSUME NEW n, NEW ts, builds' = Append(builds, NewBuild(n, ts)) PROVE OrderInv'
    <2> DEFINE b == NewBuild(n, ts)
    <2>1. b.src = w.sr.resolved /\ b.rev = w.sr.rev
      BY DEF NewBuild
    <2>2. w.sr.resolved = w.sr.src /\ w.sr.obs = w.sr.gen
      BY <1>1 DEF SourceInv, ResolverInv, Needed, IsBuildRequired, ResolverReady
    <2>3. b.src \notin GitSources => b.rev = 0
      BY <1>1, <2>1, <2>2 DEF Revision
    <2> HIDE DEF b
    <2>4. /\ DOMAIN builds' = DOMAIN builds \cup {Len(builds) + 1}
          /\ builds'[Len(builds) + 1] = b
          /\ \A i \in DOMAIN builds : builds'[i] = builds[i]
      <3>1. builds \in Seq(Builds)
        BY BuildRecords
      <3>2. builds' = Append(builds, b)
        BY <1>3 DEF b
      <3> QED
        BY <3>1, <3>2
    <2> QED
      BY <1>1, <2>3, <2>4 DEF NotAhead, Revision
  <1> QED
    BY <1>2, <1>3 DEF CreateBuild, buildVars

LEMMA StampOrder ==
    ASSUME RInv, NEW i \in DOMAIN builds, UNCHANGED <<image, imageCache, sr, srCache, head>>,
           NEW x, NEW y,
           \/ builds' = [builds EXCEPT ![i].deleted = x]
           \/ builds' = [builds EXCEPT ![i].triggered = x]
           \/ builds' = [builds EXCEPT ![i].finished = x, ![i].ok = y],
           \/ pc' # "build"
           \/ pc' = pc /\ w' = w
    PROVE  OrderInv'
  <1> USE DEF RInv, GInv, OrderInv
  <1>1. \A j \in DOMAIN builds : builds[j] \in Builds
    BY BuildRecords
  <1>2. /\ DOMAIN builds' = DOMAIN builds
        /\ \A j \in DOMAIN builds : builds'[j].src = builds[j].src /\ builds'[j].rev = builds[j].rev
    <2>1. CASE builds' = [builds EXCEPT ![i].deleted = x]
      BY <1>1, <2>1 DEF Builds
    <2>2. CASE builds' = [builds EXCEPT ![i].triggered = x]
      BY <1>1, <2>2 DEF Builds
    <2>3. CASE builds' = [builds EXCEPT ![i].finished = x, ![i].ok = y]
      BY <1>1, <2>3 DEF Builds
    <2> QED
      BY <2>1, <2>2, <2>3
  <1>3. \A j \in DOMAIN builds' : builds'[j].src \notin GitSources => builds'[j].rev = 0
    BY <1>2
  <1> QED
    BY <1>3 DEF NotAhead, Revision

LEMMA TrimOrder == RInv /\ (TrimFailed \/ TrimSuccess) => OrderInv'
  <1> SUFFICES ASSUME RInv, TrimFailed \/ TrimSuccess PROVE OrderInv'
    OBVIOUS
  <1>1. UNCHANGED <<image, imageCache, sr, srCache, head>> /\ pc' # "build"
    BY DEF TrimFailed, TrimSuccess, TrimOne, DeleteBuild, Failed, Idle, imageVars, cacheVars
  <1>2. \/ UNCHANGED builds
        \/ \E i \in DOMAIN builds : builds' = [builds EXCEPT ![i].deleted = rv + 1]
    BY DEF TrimFailed, TrimSuccess, TrimOne, DeleteBuild, buildVars, OldestOf, FailedBuilds,
           SuccessBuilds, VisibleAt
  <1>3. CASE UNCHANGED builds
    BY <1>1, <1>3, QuietOrder
  <1>4. CASE \E i \in DOMAIN builds : builds' = [builds EXCEPT ![i].deleted = rv + 1]
    BY <1>1, <1>4, StampOrder
  <1> QED
    BY <1>2, <1>3, <1>4

\* The SourceResolver controller moves the SourceResolver ahead of the cache.
LEMMA ResolveOrder == RInv /\ ResolveSource => OrderInv' /\ sr' # srCache'
  <1> SUFFICES ASSUME RInv, ResolveSource PROVE OrderInv' /\ sr' # srCache'
    OBVIOUS
  <1> USE DEF RInv, GInv, OrderInv
  <1>1. UNCHANGED <<builds, image, imageCache, srCache, head, pc, w>>
    BY DEF ResolveSource, buildVars, imageVars, cacheVars
  <1>2. /\ sr'.gen = sr.gen /\ sr'.obs = sr.gen /\ sr'.src = sr.src /\ sr'.rev = ResolvedRev
        /\ sr.obs # sr.gen \/ sr.rev # ResolvedRev
    BY ReadType DEF ResolveSource, Resolvers
  <1>3. /\ sr.gen \in Nat /\ sr.rev \in Nat /\ srCache.gen \in Nat /\ srCache.rev \in Nat
        /\ head \in Nat
    BY ReadType, ResolverTyped
  <1>4. Revision(sr)'
    BY <1>1, <1>2, <1>3 DEF Revision, ResolvedRev
  <1>5. NotAhead(srCache, sr)'
    BY <1>1, <1>2, <1>3 DEF NotAhead, Revision, ResolvedRev
  <1>6. sr' # srCache'
    BY <1>1, <1>2, <1>3 DEF NotAhead, Revision, ResolvedRev
  <1> QED
    BY <1>1, <1>4, <1>5, <1>6 DEF Revision

LEMMA ImageOrder ==
    ASSUME RInv, UNCHANGED <<builds, sr, srCache, imageCache, head>>, image'.ver = image.ver + 1,
           \/ pc' # "build"
           \/ pc' = pc /\ w' = w
    PROVE  OrderInv'
  <1> USE DEF RInv, GInv, OrderInv
  <1>1. imageCache'.ver <= image'.ver
    BY ReadType
  <1> QED
    BY <1>1 DEF NotAhead, Revision

LEMMA NextOrder == RInv /\ [Next]_vars => OrderInv'
  <1> SUFFICES ASSUME RInv, [Next]_vars PROVE OrderInv'
    OBVIOUS
  <1> USE DEF buildVars, imageVars, cacheVars
  <1>1. CASE Sync
    BY <1>1, QuietOrder DEF Sync, SyncImage, SyncBuilds, SyncResolver, SyncClaim
  <1>2. CASE StartReconcile
    BY <1>2, QuietOrder DEF StartReconcile
  <1>3. CASE ReconcileBuildCache
    BY <1>3, QuietOrder DEF ReconcileBuildCache, Failed, Idle
  <1>4. CASE ReconcileSourceResolver
    BY <1>4, SourceOrder
  <1>5. CASE SkipBuild
    BY <1>5, QuietOrder DEF SkipBuild
  <1>6. CASE CreateBuild
    BY <1>6, CreateOrder
  <1>7. CASE TrimFailed \/ TrimSuccess
    BY <1>7, TrimOrder
  <1>8. CASE UpdateStatus
    <2>1. pc' # "build" /\ UNCHANGED <<builds, sr, srCache, imageCache, head>>
      BY <1>8 DEF UpdateStatus, Failed, Idle
    <2>2. UNCHANGED image \/ image'.ver = image.ver + 1
      BY <1>8 DEF UpdateStatus, RInv, IInv, TypeOK, Images
    <2> QED
      BY <2>1, <2>2, QuietOrder, ImageOrder
  <1>9. CASE CallFails \/ Crash
    BY <1>9, QuietOrder DEF CallFails, Crash, Failed, Idle
  <1>10. CASE ResolveSource
    BY <1>10, ResolveOrder
  <1>11. ASSUME NEW s \in ImageSpecs, EditSpec(s) PROVE OrderInv'
    <2>1. UNCHANGED <<builds, sr, srCache, imageCache, head, pc, w>>
      BY <1>11 DEF EditSpec
    <2>2. image'.ver = image.ver + 1
      BY <1>11 DEF EditSpec, RInv, IInv, TypeOK, Images
    <2> QED
      BY <2>1, <2>2, ImageOrder
  <1>12. CASE Trigger
    <2>1. Len(builds) \in DOMAIN builds
      BY <1>12 DEF Trigger, RInv, IInv, TypeOK
    <2> QED
      BY <1>12, <2>1, StampOrder DEF Trigger
  <1>13. CASE NewCommit \/ \E b \in Builders : ChangeBuilder(b)
    BY <1>13, QuietOrder DEF NewCommit, ChangeBuilder
  <1>14. ASSUME NEW i \in DOMAIN builds, NEW ok \in BOOLEAN, FinishBuild(i, ok) PROVE OrderInv'
    BY <1>14, StampOrder DEF FinishBuild
  <1>15. CASE UNCHANGED vars
    BY <1>15, QuietOrder DEF vars
  <1> QED
    BY <1>1, <1>2, <1>3, <1>4, <1>5, <1>6, <1>7, <1>8, <1>9, <1>10, <1>11, <1>12, <1>13,
       <1>14, <1>15 DEF Next, Reconcile, Users

-----------------------------------------------------------------------------
(* What a reconcile reaches, step by step. *)

LEMMA QueuedSettle == dirty' => SettleInv'
  BY DEF SettleInv, FreshInv, ClaimInv, ResolverInHand, StatusInv, TrimInv, EndInv, RestInv,
         Settled

\* A Build changed behind the reconcile's back: the Build informer will report it.
LEMMA BuildSettle ==
    ASSUME RInv, rv' = rv + 1,
           UNCHANGED <<seen, specs, image, imageCache, sr, srCache, pvc, pvcCache,
                       builder, dirty, pc, view, w>>
    PROVE  SettleInv'
  <1>1. seen' # rv'
    BY BuildsTyped DEF RInv, IInv
  <1>2. FreshInv' /\ ClaimInv' /\ ResolverInHand'
    BY DEF RInv, SettleInv, FreshInv, ClaimInv, ResolverInHand, SpecOf
  <1> QED
    BY <1>1, <1>2 DEF SettleInv, StatusInv, TrimInv, EndInv, RestInv, Settled

\* The SourceResolver moved: its informer will report it.
LEMMA ResolveSettle == RInv /\ ResolveSource => SettleInv'
  <1> SUFFICES ASSUME RInv, ResolveSource PROVE SettleInv'
    OBVIOUS
  <1>1. sr' # srCache'
    BY ResolveOrder
  <1>2. UNCHANGED <<builds, rv, seen, specs, image, imageCache, srCache, pvc, pvcCache,
                    builder, dirty, pc, view, trim, w>>
    BY DEF ResolveSource, buildVars, imageVars, cacheVars
  <1>3. FreshInv' /\ ClaimInv'
    BY <1>2 DEF RInv, SettleInv, FreshInv, ClaimInv, SpecOf
  <1>4. StatusInv'
    BY <1>1, <1>2 DEF RInv, SettleInv, StatusInv, NewestIn, NewestFinished
  <1>5. TrimInv'
    BY <1>2 DEF RInv, SettleInv, TrimInv, FailedBuilds, VisibleAt, FailureAt, FinishedAt
  <1> QED
    BY <1>1, <1>3, <1>4, <1>5 DEF SettleInv, ResolverInHand, EndInv, RestInv, Settled

\* The Image was edited: its informer will report it.
LEMMA EditSettle ==
    ASSUME RInv, NEW s \in ImageSpecs, EditSpec(s)
    PROVE  SettleInv'
  <1>1. UNCHANGED <<builds, rv, seen, imageCache, sr, srCache, pvc, pvcCache,
                    builder, dirty, pc, view, trim, w>>
    BY DEF EditSpec, buildVars, cacheVars
  <1>2. image'.ver = image.ver + 1
    BY DEF EditSpec, RInv, IInv, TypeOK, Images
  <1>3. imageCache' # image'
    BY <1>1, <1>2, ReadType DEF RInv, IInv, OrderInv
  <1>4. pc # "idle" => SpecOf(w.img)' = SpecOf(w.img)
    <2>1. \A g \in 1..Len(specs) : specs'[g] = specs[g]
      BY DEF EditSpec, RInv, IInv, TypeOK
    <2> QED
      BY <1>1, <2>1, ReadType DEF SpecOf, RInv, IInv
  <1>5. FreshInv' /\ ResolverInHand'
    BY <1>1 DEF RInv, SettleInv, FreshInv, ResolverInHand
  <1>6. ClaimInv'
    BY <1>1, <1>4 DEF RInv, SettleInv, ClaimInv
  <1>7. StatusInv'
    BY <1>1, <1>4 DEF RInv, SettleInv, StatusInv, NewestIn, NewestFinished, UpToDateFor
  <1>8. TrimInv'
    BY <1>1 DEF RInv, SettleInv, TrimInv, FailedBuilds, VisibleAt, FailureAt, FinishedAt
  <1>9. EndInv'
    BY <1>1, <1>4 DEF RInv, SettleInv, EndInv, Reached, NewestIn, NewestFinished, UpToDateFor,
                      FailedBuilds, SuccessBuilds, VisibleAt, FailureAt, SuccessAt, FinishedAt
  <1> QED
    BY <1>3, <1>5, <1>6, <1>7, <1>8, <1>9 DEF SettleInv, RestInv, Settled

LEMMA SameSettle ==
    ASSUME RInv, UNCHANGED <<builds, rv, seen, specs, image, imageCache, sr, srCache, pvc,
                             pvcCache, builder, dirty, pc, view, trim, w>>
    PROVE  SettleInv'
  BY DEF RInv, SettleInv, FreshInv, ClaimInv, ResolverInHand, StatusInv, TrimInv, EndInv,
         RestInv, Settled, Reached, NewestIn, NewestFinished, UpToDateFor, SpecOf,
         FailedBuilds, SuccessBuilds, VisibleAt, FailureAt, SuccessAt, FinishedAt

-----------------------------------------------------------------------------

\* The last build that a list shows which is not out of date is the newest.
LEMMA LastOfAll ==
    ASSUME TypeOK, HistoryInv, NEW l \in 0..Len(builds),
           \A i \in DOMAIN builds : builds[i].created <= rv => i <= l
    PROVE  l = Len(builds)
  <1>1. \A i \in DOMAIN builds : i <= l
    BY BuildsTyped DEF HistoryInv, Stamped
  <1>2. Len(builds) # 0 => Len(builds) \in DOMAIN builds
    BY BuildsTyped
  <1> QED
    BY <1>1, <1>2, BuildsTyped

LEMMA StartSettle == RInv /\ StartReconcile => SettleInv'
  <1> SUFFICES ASSUME RInv, StartReconcile PROVE SettleInv'
    OBVIOUS
  <1> USE DEF RInv, IInv
  <1>1. /\ UNCHANGED <<builds, rv, seen, specs, image, imageCache, sr, srCache, pvc, pvcCache,
                       builder>>
        /\ view' = seen
    BY DEF StartReconcile, buildVars, imageVars, cacheVars
  <1>2. PICK l \in LastBuilds(seen),
             cond \in {"BuilderNotFound", "BuildRunning", imageCache.status.cond} :
          /\ w' = [NoWork EXCEPT !.img = imageCache, !.bld = builder,
                                 !.status = [imageCache.status EXCEPT !.cond = cond]]
          /\ \/ ~builder.found /\ pc' = "status" /\ cond = "BuilderNotFound"
             \/ builder.found /\ RunningAt(l, seen) /\ pc' = "status" /\ cond = "BuildRunning"
             \/ builder.found /\ pc' = "cache"
    BY DEF StartReconcile
  <1>3. w'.img = imageCache /\ w'.bld = builder /\ w'.status.cond = cond
    <2>1. imageCache.status \in Statuses
      BY DEF TypeOK, Images
    <2>2. [imageCache.status EXCEPT !.cond = cond].cond = cond
      BY <2>1 DEF Statuses
    <2> DEFINE st == [imageCache.status EXCEPT !.cond = cond]
    <2> HIDE DEF st
    <2>3. \A x : /\ [NoWork EXCEPT !.img = imageCache, !.bld = builder, !.status = x].img = imageCache
                 /\ [NoWork EXCEPT !.img = imageCache, !.bld = builder, !.status = x].bld = builder
                 /\ [NoWork EXCEPT !.img = imageCache, !.bld = builder, !.status = x].status = x
      BY DEF NoWork
    <2> QED
      BY <1>2, <2>2, <2>3
  <1>4. FreshInv'
    BY <1>1, <1>2, <1>3 DEF FreshInv
  <1>5. ASSUME pc' = "status", seen = rv, builder.found PROVE ~NewestFinished
    <2>1. RunningAt(l, seen)
      BY <1>2, <1>5
    <2>2. /\ l # 0 => l \in DOMAIN builds
          /\ \A i \in DOMAIN builds : builds[i].created <= seen => i <= l
      BY FetchLastBuild
    <2>3. l # 0
      BY <2>1 DEF RunningAt
    <2>4. l = Len(builds)
      <3>1. l \in 0..Len(builds)
        BY <2>2, <2>3, BuildsTyped
      <3>2. \A i \in DOMAIN builds : builds[i].created <= rv => i <= l
        BY <1>5, <2>2
      <3> QED
        BY <3>1, <3>2, LastOfAll
    <2>5. builds[l].finished = 0
      BY <1>5, <2>1, <2>2, <2>3 DEF RunningAt, FinishedAt, HistoryInv, Stamped
    <2> QED
      BY <2>4, <2>5 DEF NewestFinished
  <1>6. EndInv'
    <2> SUFFICES ASSUME pc' = "status", seen = rv PROVE Reached(w.status, SpecOf(w.img))'
      BY <1>1 DEF EndInv
    <2>1. w'.status.cond # "UpToDate"
      BY <1>2, <1>3
    <2>2. ~(builder.found /\ NewestFinished)'
      BY <1>1, <1>5 DEF NewestFinished
    <2> QED
      BY <2>1, <2>2 DEF Reached, UpToDateFor
  <1>7. pc' \in {"status", "cache"}
    BY <1>2
  <1> QED
    BY <1>4, <1>6, <1>7 DEF SettleInv, ClaimInv, ResolverInHand, StatusInv, TrimInv, RestInv,
                            Settled

LEMMA CacheSettle == RInv /\ ReconcileBuildCache => SettleInv'
  <1> SUFFICES ASSUME RInv, ReconcileBuildCache PROVE SettleInv'
    OBVIOUS
  <1> USE DEF RInv, IInv
  <1> DEFINE size == SpecOf(w.img).cache
  <1>1. CASE dirty'
    BY <1>1, QueuedSettle
  <1>2. CASE ~dirty'
    <2>1. /\ UNCHANGED <<specs, seen, imageCache, pvcCache, builder, dirty, view>>
          /\ w' = [w EXCEPT !.claim = (size # 0)] /\ pc = "cache" /\ pc' = "source"
      BY <1>2 DEF ReconcileBuildCache, Failed, imageVars, cacheVars
    <2>2. w'.img = w.img /\ w'.bld = w.bld
      BY <2>1 DEF TypeOK
    <2>3. FreshInv'
      BY <2>1, <2>2 DEF SettleInv, FreshInv
    <2>4. pvc' = pvcCache => pvc'.size = size
      <3>1. /\ pvc \in Claims /\ pvcCache \in Claims /\ size \in Nat
        BY <2>1, SpecOfType DEF TypeOK
      <3>2. /\ pvc.size \in Nat /\ pvc.uid \in Nat /\ pvcCache.size \in Nat
            /\ [pvc EXCEPT !.size = 0].size = 0 /\ [pvc EXCEPT !.size = size].size = size
        BY <3>1 DEF Claims
      <3>3. \/ ~ClaimDelete(size) /\ ~ClaimCreate(size) /\ ~ClaimUpdate(size) /\ pvc' = pvc
            \/ ClaimDelete(size) /\ pvc' = [pvc EXCEPT !.size = 0]
            \/ ClaimCreate(size) /\ pvc' = [uid |-> pvc.uid + 1, size |-> size]
            \/ ClaimUpdate(size) /\ pvc' = [pvc EXCEPT !.size = size]
        BY <1>2 DEF ReconcileBuildCache, Failed
      <3> HIDE DEF size
      <3>4. \/ pvc' = pvc /\ (pvcCache.size = size)
            \/ pvc'.size = size
        <4>1. CASE ~ClaimDelete(size) /\ ~ClaimCreate(size) /\ ~ClaimUpdate(size) /\ pvc' = pvc
          BY <4>1 DEF ClaimDelete, ClaimCreate, ClaimUpdate
        <4>2. CASE ClaimDelete(size) /\ pvc' = [pvc EXCEPT !.size = 0]
          BY <3>2, <4>2 DEF ClaimDelete
        <4>3. CASE pvc' = [uid |-> pvc.uid + 1, size |-> size]
          BY <4>3
        <4>4. CASE pvc' = [pvc EXCEPT !.size = size]
          BY <3>2, <4>4
        <4> QED
          BY <3>3, <4>1, <4>2, <4>3, <4>4
      <3> QED
        BY <3>4
    <2>5. ClaimInv'
      BY <2>1, <2>2, <2>4 DEF ClaimInv, SpecOf
    <2> QED
      BY <2>1, <2>3, <2>5 DEF SettleInv, ResolverInHand, StatusInv, TrimInv, EndInv, RestInv,
                              Settled
  <1> QED
    BY <1>1, <1>2 DEF TypeOK

LEMMA SourceSettle == RInv /\ ReconcileSourceResolver => SettleInv'
  <1> SUFFICES ASSUME RInv, ReconcileSourceResolver PROVE SettleInv'
    OBVIOUS
  <1> USE DEF RInv, IInv
  <1> DEFINE desired == SpecOf(w.img).src
  <1>1. CASE dirty'
    BY <1>1, QueuedSettle
  <1>2. CASE ~dirty'
    <2>1. /\ UNCHANGED <<specs, seen, imageCache, pvc, pvcCache, builder, dirty, view, srCache>>
          /\ pc = "source" /\ pc' = "build"
      BY <1>2 DEF ReconcileSourceResolver, Failed, imageVars, cacheVars
    <2>2. w' = [w EXCEPT !.sr = srCache] \/ w' = [w EXCEPT !.sr = sr']
      BY <1>2 DEF ReconcileSourceResolver, Failed
    <2>3. \A r : [w EXCEPT !.sr = r].sr = r /\ [w EXCEPT !.sr = r].img = w.img
                 /\ [w EXCEPT !.sr = r].bld = w.bld
      BY DEF TypeOK
    <2>4. w'.img = w.img /\ w'.bld = w.bld /\ (sr' = srCache' => w'.sr = sr')
      BY <2>1, <2>2, <2>3
    <2>5. FreshInv'
      BY <2>1, <2>4 DEF SettleInv, FreshInv
    <2>6. ClaimInv'
      BY <2>1, <2>4 DEF SettleInv, ClaimInv, SpecOf
    <2>7. ResolverInHand'
      BY <2>4 DEF ResolverInHand
    <2> QED
      BY <2>1, <2>5, <2>6, <2>7 DEF SettleInv, StatusInv, TrimInv, EndInv, RestInv, Settled
  <1> QED
    BY <1>1, <1>2 DEF TypeOK

LEMMA SkipSettle == RInv /\ SkipBuild => SettleInv'
  <1> SUFFICES ASSUME RInv, SkipBuild PROVE SettleInv'
    OBVIOUS
  <1> USE DEF RInv, IInv, GInv
  <1> DEFINE n == Len(builds)
             s == SpecOf(w.img)
             st == [cond        |-> NoScheduledBuild(Needed, last, view, w.bld),
                    counter     |-> BuildCounter(last),
                    ref         |-> last,
                    latestImage |-> LatestForImage(last, view, w.img),
                    claim       |-> w.claim,
                    obs         |-> w.img.status.obs]
  <1>1. /\ UNCHANGED <<builds, rv, seen, specs, image, imageCache, sr, srCache, pvc, pvcCache,
                       builder, dirty, view, last>>
        /\ pc = "build" /\ pc' = "trimFailed" /\ Needed # "True"
        /\ w' = [w EXCEPT !.status = st]
    BY DEF SkipBuild, buildVars, imageVars, cacheVars
  <1>2. w'.img = w.img /\ w'.bld = w.bld /\ w'.status = st
    <2> HIDE DEF st
    <2> QED
      BY <1>1 DEF TypeOK
  <1>3. FreshInv' /\ ClaimInv'
    <2>1. FreshInv'
      BY <1>1, <1>2 DEF SettleInv, FreshInv
    <2>2. ClaimInv'
      BY <1>1, <1>2 DEF SettleInv, ClaimInv, SpecOf
    <2> QED
      BY <2>1, <2>2
  <1>4. StatusInv'
    <2> SUFFICES ASSUME ~dirty, seen = rv
                 PROVE  /\ NewestIn(st) /\ (sr = srCache => UpToDateFor(st, s))
      BY <1>1, <1>2 DEF StatusInv, NewestIn, NewestFinished, UpToDateFor, SpecOf
    <2>1. view = rv /\ w.bld = builder
      BY <1>1 DEF SettleInv, FreshInv
    <2>2. last = n
      BY <1>1, <2>1, LastOfAll DEF LastIsNewest, TypeOK
    <2>3. /\ st.ref = n /\ st.counter = BuildCounter(last)
          /\ st.latestImage = LatestForImage(last, view, w.img)
          /\ st.cond = NoScheduledBuild(Needed, last, view, w.bld)
      BY <2>2
    <2>4. NewestFinished => n \in DOMAIN builds /\ n # 0
      BY BuildRecords DEF NewestFinished
    <2>5. NewestFinished /\ builds[n].ok => st.latestImage = n
      BY <2>1, <2>2, <2>3, <2>4 DEF NewestFinished, LatestForImage, SuccessAt, FinishedAt,
                                    HistoryInv, Stamped
    <2>6. NewestIn(st)
      BY <2>2, <2>3, <2>4, <2>5 DEF NewestIn, BuildCounter
    <2>7. ASSUME sr = srCache, st.cond = "UpToDate" PROVE UpToDateFor(st, s)
      <3> DEFINE b == builds[n]
      <3>1. w.bld.ready /\ Needed # "Unknown" /\ SuccessAt(last, view)
        BY <2>3, <2>7 DEF NoScheduledBuild
      <3>2. /\ ResolverReady(w.sr) /\ ~CommitChange(last, w.sr) /\ ~ConfigChange(last, s.env, w.sr)
            /\ ~BuilderChange(last, view, w.bld)
        BY <1>1, <3>1 DEF Needed, IsBuildRequired
      <3>3. last # 0 /\ last \in DOMAIN builds /\ b.ok
        BY <2>2, <3>1, BuildsTyped DEF SuccessAt, FinishedAt
      <3>4. b.env = s.env /\ b.src = w.sr.resolved /\ b.run = builder.run
        BY <2>1, <2>2, <3>1, <3>2 DEF ConfigChange, BuilderChange
      <3>5. w.sr = sr /\ w.sr.resolved = w.sr.src /\ w.sr.src = s.src
        BY <1>1, <2>7, <3>2 DEF SettleInv, ResolverInHand, SourceInv, ResolverInv, ResolverReady
      <3>6. b.rev = w.sr.rev
        <4>1. CASE b.src \in GitSources
          BY <2>2, <3>2, <3>4, <4>1 DEF CommitChange
        <4>2. CASE b.src \notin GitSources
          <5>1. b.rev = 0
            BY <2>2, <3>3, <4>2 DEF OrderInv
          <5>2. w.sr.rev = 0
            BY <1>1, <3>2, <3>4, <3>5, <4>2 DEF OrderInv, Revision, ResolverReady
          <5> QED
            BY <5>1, <5>2
        <4> QED
          BY <4>1, <4>2
      <3>7. st.latestImage = n
        BY <2>2, <2>3, <3>1 DEF LatestForImage
      <3> HIDE DEF st, s
      <3> QED
        BY <3>3, <3>4, <3>5, <3>6, <3>7 DEF UpToDateFor
    <2> QED
      BY <2>6, <2>7 DEF UpToDateFor
  <1> QED
    BY <1>1, <1>3, <1>4 DEF SettleInv, ResolverInHand, TrimInv, EndInv, RestInv, Settled

LEMMA CreateSettle == RInv /\ CreateBuild => SettleInv'
  <1> SUFFICES ASSUME RInv, CreateBuild PROVE SettleInv'
    OBVIOUS
  <1> USE DEF RInv, IInv
  <1>1. CASE dirty'
    BY <1>1, QueuedSettle
  <1>2. CASE ~dirty'
    <2>1. /\ UNCHANGED <<specs, seen, imageCache, pvc, pvcCache, builder, dirty, view>>
          /\ pc = "build" /\ pc' = "trimFailed" /\ rv' = rv + 1
          /\ \E st : w' = [w EXCEPT !.status = st]
      BY <1>2 DEF CreateBuild, Failed, imageVars, cacheVars
    <2>2. w'.img = w.img /\ w'.bld = w.bld
      BY <2>1 DEF TypeOK
    <2>3. seen' # rv'
      BY <2>1, BuildsTyped
    <2>4. FreshInv'
      BY <2>1, <2>2 DEF SettleInv, FreshInv
    <2>5. ClaimInv'
      BY <2>1, <2>2 DEF SettleInv, ClaimInv, SpecOf
    <2> QED
      BY <2>1, <2>3, <2>4, <2>5 DEF SettleInv, ResolverInHand, StatusInv, TrimInv, EndInv,
                                    RestInv, Settled
  <1> QED
    BY <1>1, <1>2 DEF TypeOK

LEMMA TrimFailedSettle == RInv /\ TrimFailed => SettleInv'
  <1> SUFFICES ASSUME RInv, TrimFailed PROVE SettleInv'
    OBVIOUS
  <1> USE DEF RInv, IInv
  <1>1. CASE dirty'
    BY <1>1, QueuedSettle
  <1>2. CASE ~dirty'
    <2>1. /\ UNCHANGED <<specs, seen, imageCache, sr, srCache, pvc, pvcCache, builder, dirty,
                         view, w>>
          /\ pc = "trimFailed" /\ pc' = "trimSuccess" /\ trim' = seen
          /\ \/ UNCHANGED <<builds, rv>> /\ Cardinality(FailedBuilds(seen)) <= FailedLimit
             \/ rv' = rv + 1
      BY <1>2 DEF TrimFailed, TrimOne, DeleteBuild, Failed, buildVars, imageVars, cacheVars
    <2>2. FreshInv'
      BY <2>1 DEF SettleInv, FreshInv
    <2>3. ClaimInv'
      BY <2>1 DEF SettleInv, ClaimInv, SpecOf
    <2>4. rv' = rv + 1 => seen' # rv'
      BY <2>1, BuildsTyped
    <2>5. StatusInv'
      BY <2>1, <2>4 DEF SettleInv, StatusInv, NewestIn, NewestFinished, UpToDateFor, SpecOf
    <2>6. TrimInv'
      BY <2>1, <2>4 DEF TrimInv, FailedBuilds, VisibleAt, FailureAt, FinishedAt
    <2> QED
      BY <2>1, <2>2, <2>3, <2>5, <2>6 DEF SettleInv, ResolverInHand, EndInv, RestInv, Settled
  <1> QED
    BY <1>1, <1>2 DEF TypeOK

LEMMA TrimSuccessSettle == RInv /\ TrimSuccess => SettleInv'
  <1> SUFFICES ASSUME RInv, TrimSuccess PROVE SettleInv'
    OBVIOUS
  <1> USE DEF RInv, IInv
  <1>1. CASE dirty'
    BY <1>1, QueuedSettle
  <1>2. CASE ~dirty'
    <2>1. /\ UNCHANGED <<specs, seen, imageCache, sr, srCache, pvc, pvcCache, builder, dirty,
                         view, w>>
          /\ pc = "trimSuccess" /\ pc' = "status"
          /\ \/ UNCHANGED <<builds, rv>> /\ Cardinality(SuccessBuilds(trim)) <= SuccessLimit
             \/ rv' = rv + 1
      BY <1>2 DEF TrimSuccess, TrimOne, DeleteBuild, Failed, buildVars, imageVars, cacheVars
    <2>2. FreshInv'
      BY <2>1 DEF SettleInv, FreshInv
    <2>3. rv' = rv + 1 => seen' # rv'
      BY <2>1, BuildsTyped
    <2>4. EndInv'
      <3> SUFFICES ASSUME seen = rv, UNCHANGED <<builds, rv>>, sr = srCache, pvc = pvcCache
                   PROVE  Reached(w.status, SpecOf(w.img))
        BY <2>1, <2>3 DEF EndInv, Reached, NewestIn, NewestFinished, UpToDateFor, SpecOf,
                          FailedBuilds, SuccessBuilds, VisibleAt, FailureAt, SuccessAt, FinishedAt
      <3>1. ~dirty
        BY <1>2, <2>1
      <3>2. trim = rv /\ Cardinality(FailedBuilds(rv)) <= FailedLimit
        BY <2>1, <3>1 DEF SettleInv, TrimInv
      <3>3. Cardinality(SuccessBuilds(rv)) <= SuccessLimit
        BY <2>1, <3>2, BuildsTyped
      <3>4. pvc.size = SpecOf(w.img).cache
        BY <2>1, <3>1 DEF SettleInv, ClaimInv
      <3>5. NewestIn(w.status) /\ UpToDateFor(w.status, SpecOf(w.img))
        BY <2>1, <3>1 DEF SettleInv, StatusInv
      <3> QED
        BY <3>2, <3>3, <3>4, <3>5 DEF Reached
    <2> QED
      BY <2>1, <2>2, <2>4 DEF SettleInv, ClaimInv, ResolverInHand, StatusInv, TrimInv, RestInv,
                              Settled
  <1> QED
    BY <1>1, <1>2 DEF TypeOK

LEMMA StatusSettle == RInv /\ UpdateStatus => SettleInv'
  <1> SUFFICES ASSUME RInv, UpdateStatus PROVE SettleInv'
    OBVIOUS
  <1> USE DEF RInv, IInv
  <1> DEFINE desired == [w.status EXCEPT !.obs = w.img.gen]
  <1>1. CASE dirty'
    BY <1>1, QueuedSettle
  <1>2. CASE ~dirty'
    <2>1. /\ UNCHANGED <<builds, rv, seen, specs, imageCache, sr, srCache, pvc, pvcCache, builder,
                         dirty>>
          /\ pc = "status" /\ pc' = "idle"
          /\ \/ UNCHANGED image /\ imageCache.status = desired
             \/ image' = [image EXCEPT !.ver = image.ver + 1, !.status = desired]
      <3>1. image' = [image EXCEPT !.ver = @ + 1, !.status = desired]
              => image' = [image EXCEPT !.ver = image.ver + 1, !.status = desired]
        OBVIOUS
      <3> HIDE DEF desired
      <3> QED
        BY <1>2, <3>1 DEF UpdateStatus, Failed, Idle, buildVars, cacheVars, desired
    <2>2. RestInv'
      <3> SUFFICES ASSUME Settled'
                   PROVE  Reached(image.status, SpecOf(image))' /\ image'.status.obs = image'.gen
        BY DEF RestInv
      <3>1. seen = rv /\ imageCache = image' /\ sr = srCache /\ pvc = pvcCache
        BY <2>1 DEF Settled
      <3>2. image' = image /\ image.status = desired
        <4>1. image' = [image EXCEPT !.ver = image.ver + 1, !.status = desired]
                => image'.ver = image.ver + 1
          <5> HIDE DEF desired
          <5> QED
            BY DEF TypeOK, Images
        <4>2. imageCache.ver <= image.ver /\ imageCache.ver \in Nat /\ image.ver \in Nat
          BY ReadType DEF OrderInv
        <4> HIDE DEF desired
        <4> QED
          BY <2>1, <3>1, <4>1, <4>2
      <3>3. w.img = image
        BY <1>2, <2>1, <3>1, <3>2 DEF SettleInv, FreshInv
      <3>4. Reached(w.status, SpecOf(w.img))
        BY <1>2, <2>1, <3>1 DEF SettleInv, EndInv
      <3>5. /\ desired.obs = w.img.gen /\ desired.cond = w.status.cond
            /\ desired.ref = w.status.ref /\ desired.counter = w.status.counter
            /\ desired.latestImage = w.status.latestImage
        <4>1. w.status \in Statuses
          BY DEF TypeOK
        <4> QED
          BY <4>1 DEF Statuses
      <3> HIDE DEF desired
      <3>6. Reached(image.status, SpecOf(image))
        BY <3>2, <3>3, <3>4, <3>5 DEF Reached, NewestIn, UpToDateFor
      <3>7. Reached(image.status, SpecOf(image))'
        BY <2>1, <3>2, <3>6 DEF Reached, NewestIn, NewestFinished, UpToDateFor, SpecOf,
                          FailedBuilds, SuccessBuilds, VisibleAt, FailureAt, SuccessAt, FinishedAt
      <3> QED
        BY <3>2, <3>3, <3>5, <3>7
    <2> QED
      BY <2>1, <2>2 DEF SettleInv, FreshInv, ClaimInv, ResolverInHand, StatusInv, TrimInv, EndInv
  <1> QED
    BY <1>1, <1>2 DEF TypeOK

LEMMA InitRInv == Init => RInv
  <1> SUFFICES ASSUME Init PROVE RInv
    OBVIOUS
  <1>1. IInv /\ GInv
    BY InitIInv, InitGInv
  <1>2. /\ DOMAIN builds = {} /\ pc = "idle" /\ dirty = TRUE /\ imageCache = image
        /\ sr = NoResolver /\ srCache = NoResolver /\ head = 1
    BY DEF Init
  <1>3. image.ver <= image.ver
    BY <1>1, ReadType DEF IInv
  <1>4. Revision(NoResolver) /\ NotAhead(NoResolver, NoResolver)
    BY <1>2 DEF Revision, NotAhead, NoResolver
  <1>5. OrderInv
    BY <1>2, <1>3, <1>4 DEF OrderInv
  <1>6. SettleInv
    BY <1>2 DEF SettleInv, FreshInv, ClaimInv, ResolverInHand, StatusInv, TrimInv, EndInv,
                RestInv, Settled
  <1> QED
    BY <1>1, <1>5, <1>6 DEF RInv

LEMMA NextRInv == RInv /\ [Next]_vars /\ ~SameSecond => RInv'
  <1> SUFFICES ASSUME RInv, [Next]_vars, ~SameSecond PROVE SettleInv'
    BY NextIInv, NextGInv, NextOrder DEF RInv
  <1> USE DEF buildVars, imageVars, cacheVars
  <1>1. CASE Sync \/ CallFails \/ Crash \/ \E b \in Builders : ChangeBuilder(b)
    <2>1. dirty'
      BY <1>1 DEF Sync, SyncImage, SyncBuilds, SyncResolver, SyncClaim, CallFails, Crash,
                  Failed, ChangeBuilder
    <2> QED
      BY <2>1, QueuedSettle
  <1>2. CASE StartReconcile
    BY <1>2, StartSettle
  <1>3. CASE ReconcileBuildCache
    BY <1>3, CacheSettle
  <1>4. CASE ReconcileSourceResolver
    BY <1>4, SourceSettle
  <1>5. CASE SkipBuild
    BY <1>5, SkipSettle
  <1>6. CASE CreateBuild
    BY <1>6, CreateSettle
  <1>7. CASE TrimFailed
    BY <1>7, TrimFailedSettle
  <1>8. CASE TrimSuccess
    BY <1>8, TrimSuccessSettle
  <1>9. CASE UpdateStatus
    BY <1>9, StatusSettle
  <1>10. CASE ResolveSource
    BY <1>10, ResolveSettle
  <1>11. ASSUME NEW s \in ImageSpecs, EditSpec(s) PROVE SettleInv'
    BY <1>11, EditSettle
  <1>12. CASE Trigger
    BY <1>12, BuildSettle DEF Trigger
  <1>13. CASE NewCommit
    BY <1>13, SameSettle DEF NewCommit
  <1>14. ASSUME NEW i \in DOMAIN builds, NEW ok \in BOOLEAN, FinishBuild(i, ok) PROVE SettleInv'
    BY <1>14, BuildSettle DEF FinishBuild
  <1>15. CASE UNCHANGED vars
    BY <1>15, SameSettle DEF vars
  <1> QED
    BY <1>1, <1>2, <1>3, <1>4, <1>5, <1>6, <1>7, <1>8, <1>9, <1>10, <1>11, <1>12, <1>13,
       <1>14, <1>15 DEF Next, Reconcile, Users

\* No event is lost, for any number of edits, builds and faults: once nothing is queued
\* the history is within its limits, the claim is the one the spec asks for and the
\* status describes the newest build and generation.
THEOREM SettledCorrect == ~SameSecond => (Spec => []SettledAsSpecified)
  <1> SUFFICES ASSUME ~SameSecond PROVE Spec => []SettledAsSpecified
    OBVIOUS
  <1>1. RInv /\ [Next]_vars => RInv'
    BY NextRInv
  <1>2. RInv => SettledAsSpecified
    <2> SUFFICES ASSUME RInv, Settled
                 PROVE  SettledHistoryWithinLimits /\ SettledClaimMatchesSpec /\ SettledStatusIsCurrent
      BY DEF SettledAsSpecified, SettledHistoryWithinLimits, SettledClaimMatchesSpec,
             SettledStatusIsCurrent
    <2>1. Reached(image.status, SpecOf(image)) /\ image.status.obs = image.gen
      BY DEF RInv, SettleInv, RestInv
    <2> QED
      BY <2>1 DEF Reached, NewestIn, SettledHistoryWithinLimits, SettledClaimMatchesSpec,
                  SettledStatusIsCurrent
  <1> QED
    BY <1>1, <1>2, InitRInv, PTL DEF Spec

\* Once nothing is queued, an Image that is UpToDate has as its newest build a success
\* of its current spec, resolved revision and builder.
THEOREM UpToDateCorrect == ~SameSecond => (Spec => []SettledReadyIsUpToDate)
  <1> SUFFICES ASSUME ~SameSecond PROVE Spec => []SettledReadyIsUpToDate
    OBVIOUS
  <1>1. RInv /\ [Next]_vars => RInv'
    BY NextRInv
  <1>2. RInv => SettledReadyIsUpToDate
    BY DEF RInv, SettleInv, RestInv, Reached, UpToDateFor, SettledReadyIsUpToDate
  <1> QED
    BY <1>1, <1>2, InitRInv, PTL DEF Spec

=============================================================================
