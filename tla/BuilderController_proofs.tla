------------------------ MODULE BuilderController_proofs ------------------------
(***************************************************************************)
(* The builder reconciler, for any number of user changes and faults, both *)
(* kinds of builder, with and without cosign secrets: type correctness,    *)
(* that the image a status reports is complete in the registry, that a     *)
(* builder that has offered an image never stops offering one nor goes     *)
(* back to an older one, and that no change of an input is lost on it.     *)
(***************************************************************************)
EXTENDS BuilderController, TLAPS

-----------------------------------------------------------------------------
(* Type correctness. *)

LEMMA InitialObjects ==
    /\ Nothing \in [Inputs -> Nat] /\ NoImage \in Images
    /\ InitInput \in InputObjects /\ InitBuilder \in BuilderObjects
  BY DEF Nothing, NoImage, Images, InitInput, InitBuilder, InputObjects,
         BuilderObjects, Unwritten, Errors

LEMMA InitTypeOK == Init => TypeOK
  <1> SUFFICES ASSUME Init PROVE TypeOK
    OBVIOUS
  <1>1. obj \in [Inputs -> InputObjects]
    <2>1. [InitInput EXCEPT !.exists = FALSE] \in InputObjects
      BY InitialObjects DEF InputObjects
    <2> QED BY <2>1, InitialObjects DEF Init
  <1>2. lease \in [Inputs -> 0..TrackerResyncPeriod]
    <2>1. lease = [i \in Inputs |-> 0]
      BY DEF Init
    <2> QED BY <2>1 DEF TrackerResyncPeriod
  <1>3. changes \in 0..MaxChanges /\ faults \in 0..MaxFaults
    <2>1. changes = 0 /\ faults = 0
      BY DEF Init
    <2> QED BY <2>1, BuilderAssumption
  <1> QED BY <1>1, <1>2, <1>3, InitialObjects DEF Init, Errors, TypeOK

\* What Touch and the field updates of a user or a status write do to an object.
LEMMA TouchType ==
    /\ \A o \in InputObjects : Touch(o) \in InputObjects
    /\ \A b \in BuilderObjects : Touch(b) \in BuilderObjects
  BY DEF Touch, InputObjects, BuilderObjects

LEMMA TouchedInput ==
    ASSUME NEW o \in InputObjects
    PROVE  /\ Edited(o) \in InputObjects /\ Deleted(o) \in InputObjects
           /\ Recreated(o) \in InputObjects
           /\ \A s \in [of : Nat, error : Errors] : Touch([o EXCEPT !.status = s]) \in InputObjects
  <1>1. [o EXCEPT !.spec = @ + 1] \in InputObjects
    BY DEF InputObjects
  <1>2. [o EXCEPT !.exists = FALSE] \in InputObjects
    BY DEF InputObjects
  <1>3. ASSUME NEW s \in [of : Nat, error : Errors]
        PROVE  /\ [o EXCEPT !.exists = TRUE, !.spec = @ + 1, !.status = s] \in InputObjects
               /\ [o EXCEPT !.status = s] \in InputObjects
    <2>1. [o EXCEPT !.exists = TRUE, !.spec = @ + 1, !.status = s]
            = [[o EXCEPT !.spec = @ + 1] EXCEPT !.exists = TRUE, !.status = s]
      BY <1>1 DEF InputObjects
    <2>2. [o EXCEPT !.status = s] \in InputObjects
      BY DEF InputObjects
    <2> QED BY <1>1, <2>1, <2>2 DEF InputObjects
  <1>4. [of |-> 0, error |-> Unwritten] \in [of : Nat, error : Errors]
    BY DEF Unwritten, Errors
  <1> QED BY <1>1, <1>2, <1>3, <1>4, TouchType DEF Edited, Deleted, Recreated

LEMMA TouchedBuilder ==
    ASSUME NEW b \in BuilderObjects
    PROVE  /\ Edited(b) \in BuilderObjects /\ Deleted(b) \in BuilderObjects
           /\ \A s \in [observed : Nat, image : Images, ready : BOOLEAN,
                        upToDate : BOOLEAN, error : Errors] :
                Touch([b EXCEPT !.status = s]) \in BuilderObjects
  <1>1. [b EXCEPT !.spec = @ + 1] \in BuilderObjects
    BY DEF BuilderObjects
  <1>2. [b EXCEPT !.exists = FALSE] \in BuilderObjects
    BY DEF BuilderObjects
  <1>3. \A s \in [observed : Nat, image : Images, ready : BOOLEAN,
                  upToDate : BOOLEAN, error : Errors] :
          [b EXCEPT !.status = s] \in BuilderObjects
    BY DEF BuilderObjects
  <1> QED BY <1>1, <1>2, <1>3, TouchType DEF Edited, Deleted

\* What a change by a user does to the objects.
LEMMA UserChangeEffect ==
    ASSUME TypeOK, UserChange
    PROVE  /\ changes' \in 0..MaxChanges
           /\ \/ /\ UNCHANGED builder
                 /\ \E i \in Inputs : \/ obj' = [obj EXCEPT ![i] = Edited(obj[i])]
                                     \/ obj' = [obj EXCEPT ![i] = Deleted(obj[i])]
                                     \/ obj' = [obj EXCEPT ![i] = Recreated(obj[i])]
              \/ UNCHANGED obj /\ (builder' = Edited(builder) \/ builder' = Deleted(builder))
           /\ UNCHANGED <<kind, cache, queue, builderCache, lease, pc, copy, got, err,
                          dropped, registry, faults>>
  <1>1. changes \in 0..MaxChanges /\ changes < MaxChanges /\ changes' = changes + 1
    BY DEF TypeOK, UserChange
  <1>2. changes' \in 0..MaxChanges
    BY <1>1, BuilderAssumption
  <1> QED BY <1>2 DEF UserChange, workVars

LEMMA UserChangeTypeOK == TypeOK /\ UserChange => TypeOK'
  <1> SUFFICES ASSUME TypeOK, UserChange PROVE TypeOK'
    OBVIOUS
  <1>1. obj \in [Inputs -> InputObjects] /\ builder \in BuilderObjects
    BY DEF TypeOK
  <1>2. obj' \in [Inputs -> InputObjects]
    BY <1>1, UserChangeEffect, TouchedInput
  <1>3. builder' \in BuilderObjects
    BY <1>1, UserChangeEffect, TouchedBuilder
  <1> QED BY <1>2, <1>3, UserChangeEffect DEF TypeOK

LEMMA InformTypeOK == TypeOK /\ Inform => TypeOK'
  BY DEF TypeOK, Inform, InformBuilder, InformInput, Notified, workVars, inputVars

LEMMA LeasesTypeOK ==
    ASSUME NEW S, lease \in [Inputs -> 0..TrackerResyncPeriod], Track(S)
    PROVE  lease' \in [Inputs -> 0..TrackerResyncPeriod]
  BY DEF Track, TrackerResyncPeriod

LEMMA ResyncTypeOK == TypeOK /\ Resync => TypeOK'
  <1> SUFFICES ASSUME TypeOK, Resync PROVE TypeOK'
    OBVIOUS
  <1>1. lease' \in [Inputs -> 0..TrackerResyncPeriod]
    BY DEF TypeOK, Resync, TrackerResyncPeriod
  <1>2. queue' \subseteq Inputs \cup {"builder"}
    BY DEF Resync, OneOf, Stale, Notified
  <1> QED BY <1>1, <1>2 DEF TypeOK, Resync, workVars, inputVars

LEMMA CrashTypeOK == TypeOK /\ Crash => TypeOK'
  <1> SUFFICES ASSUME TypeOK, Crash PROVE TypeOK'
    OBVIOUS
  <1>1. lease' \in [Inputs -> 0..TrackerResyncPeriod]
    <2>1. lease' = [i \in Inputs |-> 0]
      BY DEF Crash
    <2> QED BY <2>1 DEF TrackerResyncPeriod
  <1>2. queue' \subseteq Inputs \cup {"builder"}
    BY DEF Crash, OneOf, Stale
  <1>3. cache' \in [Inputs -> InputObjects]
    <2>1. obj \in [Inputs -> InputObjects]
      BY DEF TypeOK
    <2>2. [obj EXCEPT !["ClusterLifecycle"].exists = FALSE] \in [Inputs -> InputObjects]
      BY <2>1 DEF InputObjects
    <2> QED BY <2>1, <2>2 DEF Crash
  <1>4. faults' \in 0..MaxFaults
    <2>1. faults \in 0..MaxFaults /\ faults < MaxFaults /\ faults' = faults + 1
      BY DEF TypeOK, Crash
    <2> QED BY <2>1, BuilderAssumption
  <1>5. copy' \in BuilderObjects /\ got' \in [Inputs -> Nat] /\ err' \in Errors /\ pc' = "idle"
    BY InitialObjects DEF Crash, Errors
  <1>6. builderCache' \in BuilderObjects
    BY DEF Crash, TypeOK
  <1> QED BY <1>1, <1>2, <1>3, <1>4, <1>5, <1>6 DEF TypeOK, Crash

LEMMA FaultTypes ==
    ASSUME NEW K, K \subseteq {"http", "dial", "call"}, NEW e \in Fault(K)
    PROVE  /\ e \in Errors /\ Cost(e) \in {0, 1}
           /\ e # "" => e \in {"http", "dial", "call"}
  <1>1. e = "" \/ e \in {"http", "dial", "call"}
    BY DEF Fault
  <1>2. Cost(e) \in {0, 1}
    BY DEF Cost
  <1> QED BY <1>1, <1>2 DEF Errors

\* A counter of faults that a step raises within its bound.
LEMMA FaultsBounded ==
    ASSUME NEW n \in 0..MaxFaults, NEW c \in {0, 1}, NEW d \in {0, 1}, n + c + d <= MaxFaults
    PROVE  n + c + d \in 0..MaxFaults
  BY BuilderAssumption

LEMMA StatusTypes ==
    ASSUME NEW o \in InputObjects, NEW e \in Errors
    PROVE  StatusAfterRead(o, e) \in [of : Nat, error : Errors]
  BY DEF InputObjects, StatusAfterRead

LEMMA ReconcileInputTypeOK ==
    ASSUME NEW i \in Inputs, TypeOK, ReconcileInput(i)
    PROVE  TypeOK'
  <1>1. PICK e \in Fault({"http", "dial", "call"}), lost \in Fault({"call"}) :
          LET status  == StatusAfterRead(cache[i], e)
              needed  == cache[i].exists /\ status # cache[i].status
              written == needed /\ obj[i] = cache[i] /\ lost = ""
          IN  /\ faults' = faults + Cost(e) + Cost(lost)
              /\ faults' <= MaxFaults
              /\ obj' = IF written
                        THEN [obj EXCEPT ![i] = Touch([@ EXCEPT !.status = status])]
                        ELSE obj
              /\ LET error == IF needed /\ ~written THEN "update" ELSE e
                 IN  /\ queue' = (queue \ {i}) \cup Requeue(i, error)
                     /\ Remember(i, error)
              /\ UNCHANGED <<kind, cache, builder, builderCache, lease, pc,
                             workVars, registry, changes>>
    BY DEF ReconcileInput
  <1>2. faults' \in 0..MaxFaults
    BY <1>1, FaultTypes, FaultsBounded DEF TypeOK
  <1>3. obj' \in [Inputs -> InputObjects]
    BY <1>1, FaultTypes, StatusTypes, TouchedInput DEF TypeOK
  <1>4. queue' \subseteq Inputs \cup {"builder"} /\ dropped' \subseteq Inputs \cup {"builder"}
    BY <1>1 DEF TypeOK, Requeue, Remember
  <1> QED BY <1>1, <1>2, <1>3, <1>4 DEF TypeOK, workVars

LEMMA ReadsTypeOK ==
    TypeOK /\ (StartReconcile \/ GetStore \/ GetInputs) => TypeOK'
  <1> SUFFICES ASSUME TypeOK PROVE StartReconcile \/ GetStore \/ GetInputs => TypeOK'
    OBVIOUS
  <1>1. ASSUME StartReconcile PROVE TypeOK'
    <2>1. lease' \in [Inputs -> 0..TrackerResyncPeriod]
      BY <1>1, LeasesTypeOK DEF TypeOK, StartReconcile
    <2>2. copy' \in BuilderObjects /\ got' \in [Inputs -> Nat] /\ err' \in Errors
      BY <1>1, InitialObjects DEF TypeOK, StartReconcile, Errors
    <2>3. pc' \in {pc, "store"} /\ queue' \subseteq queue
      BY <1>1 DEF StartReconcile
    <2> QED BY <1>1, <2>1, <2>2, <2>3 DEF TypeOK, StartReconcile, inputVars
  <1>2. ASSUME GetStore PROVE TypeOK'
    <2>1. got' \in [Inputs -> Nat]
      BY <1>2 DEF TypeOK, GetStore, InputObjects, Inputs
    <2>2. err' \in Errors /\ pc' \in {"inputs", "update"}
      BY <1>2 DEF TypeOK, GetStore, Fail, Errors
    <2> QED BY <1>2, <2>1, <2>2, LeasesTypeOK DEF TypeOK, GetStore, inputVars
  <1>3. ASSUME GetInputs PROVE TypeOK'
    <2>1. got' \in [Inputs -> Nat]
      BY <1>3 DEF TypeOK, GetInputs, InputObjects
    <2>2. err' \in Errors /\ pc' \in {"relocate", "update"} /\ faults' \in 0..MaxFaults
      <3>1. PICK e \in Fault({"call"}) :
              /\ faults' = faults + Cost(e) /\ faults' <= MaxFaults
              /\ \/ pc' = "relocate" /\ err' = err
                 \/ pc' = "update" /\ err' = e
                 \/ pc' = "update" /\ err' = "stack not ready"
                 \/ pc' = "update" /\ err' = "lifecycle not ready"
        BY <1>3, Zenon DEF GetInputs, Fail
      <3>2. faults' = faults + Cost(e) /\ faults' <= MaxFaults
        BY <3>1
      <3>3. e \in Errors /\ Cost(e) \in {0, 1}
        BY FaultTypes
      <3>4. faults \in 0..MaxFaults /\ err \in Errors
        BY DEF TypeOK
      <3>5. faults' \in 0..MaxFaults
        BY <3>2, <3>3, <3>4, BuilderAssumption
      <3> QED BY <3>1, <3>3, <3>4, <3>5 DEF Errors
    <2> QED BY <1>3, <2>1, <2>2 DEF TypeOK, GetInputs, inputVars
  <1> QED BY <1>1, <1>2, <1>3

LEMMA NewImageType == TypeOK => NewImage \in Images
  BY DEF TypeOK, NewImage, Images, BuilderObjects

\* What a registry write does before what comes after it.
WriteEffect(entry) ==
    /\ faults' \in 0..MaxFaults
    /\ registry \subseteq registry' /\ registry' \subseteq registry \cup {entry}
    /\ \/ entry \in registry'
       \/ pc' = "update" /\ err' \in {"http", "dial", "unmarked"}
    /\ UNCHANGED <<kind, obj, cache, queue, builder, builderCache, lease,
                   copy, got, dropped, changes>>

LEMMA Wrote ==
    ASSUME TypeOK, NEW entry, NEW handled \in BOOLEAN, NEW ACTION next, Write(entry, handled, next)
    PROVE  /\ faults' \in 0..MaxFaults
           /\ registry \subseteq registry' /\ registry' \subseteq registry \cup {entry}
           /\ \/ pc' = "update" /\ err' \in {"http", "dial", "unmarked"}
              \/ next /\ entry \in registry'
           /\ UNCHANGED <<kind, obj, cache, queue, builder, builderCache, lease,
                          copy, got, dropped, changes>>
  <1>1. PICK e \in Fault({"http", "dial"}), done \in BOOLEAN :
          /\ e = "" => done
          /\ faults' = faults + Cost(e) /\ faults' <= MaxFaults
          /\ registry' = IF done THEN registry \cup {entry} ELSE registry
          /\ IF e = "" THEN next ELSE Fail(IF e = "http" /\ ~handled THEN "unmarked" ELSE e)
    BY DEF Write
  <1>2. faults' \in 0..MaxFaults
    <2>1. faults \in 0..MaxFaults
      BY DEF TypeOK
    <2>2. Cost(e) \in {0, 1}
      BY FaultTypes
    <2>3. faults' = faults + Cost(e) /\ faults' <= MaxFaults
      BY <1>1
    <2> QED BY <2>1, <2>2, <2>3, BuilderAssumption
  <1>3. UNCHANGED <<kind, obj, cache, queue, builder, builderCache, lease,
                    copy, got, dropped, changes>>
    BY DEF Write, inputVars
  <1>4. e = "" \/ e \in {"http", "dial"}
    BY DEF Fault
  <1>5. /\ registry \subseteq registry' /\ registry' \subseteq registry \cup {entry}
        /\ e = "" => entry \in registry'
    BY <1>1
  <1>6. \/ pc' = "update" /\ err' \in {"http", "dial", "unmarked"}
        \/ e = "" /\ next
    BY <1>1, <1>4 DEF Fail
  <1> QED BY <1>2, <1>3, <1>5, <1>6

LEMMA RelocateRunImageEffect ==
    ASSUME TypeOK, RelocateRunImage
    PROVE  /\ pc = "relocate" /\ WriteEffect(<<"run", got["ClusterStack"]>>)
           /\ \/ pc' = "update" /\ err' \in {"http", "dial", "unmarked"}
              \/ pc' = "update" /\ err' = "buildpack not found" /\ \E i \in Used : got[i] = 0
              \/ /\ pc' = "save" /\ err' = err /\ \A i \in Used : got[i] # 0
                 /\ <<"run", got["ClusterStack"]>> \in registry'
  <1> DEFINE entry == <<"run", got["ClusterStack"]>>
             next == IF \E i \in Used : got[i] = 0 THEN Fail("buildpack not found")
                     ELSE pc' = "save" /\ UNCHANGED err
  <1>1. PICK handled \in BOOLEAN : Write(entry, handled, next)
    BY DEF RelocateRunImage, Save
  <1>2. /\ faults' \in 0..MaxFaults
        /\ registry \subseteq registry' /\ registry' \subseteq registry \cup {entry}
        /\ \/ pc' = "update" /\ err' \in {"http", "dial", "unmarked"}
           \/ next /\ entry \in registry'
        /\ UNCHANGED <<kind, obj, cache, queue, builder, builderCache, lease,
                       copy, got, dropped, changes>>
    <2> HIDE DEF entry, next
    <2> QED BY <1>1, Wrote
  <1>3. pc = "relocate"
    BY DEF RelocateRunImage
  <1> QED BY <1>2, <1>3 DEF WriteEffect, Fail

LEMMA SaveBuilderEffect ==
    ASSUME TypeOK, SaveBuilder
    PROVE  /\ pc = "save" /\ WriteEffect(<<"image", NewImage>>)
           /\ \/ pc' = "update" /\ err' \in {"http", "dial", "unmarked"}
              \/ /\ pc' = (IF CosignSecrets THEN "sign" ELSE "update") /\ err' = err
                 /\ <<"image", NewImage>> \in registry'
  <1> DEFINE entry == <<"image", NewImage>>
             next == pc' = (IF CosignSecrets THEN "sign" ELSE "update") /\ UNCHANGED err
  <1>1. PICK handled \in BOOLEAN : Write(entry, handled, next)
    BY DEF SaveBuilder, Save
  <1>2. /\ faults' \in 0..MaxFaults
        /\ registry \subseteq registry' /\ registry' \subseteq registry \cup {entry}
        /\ \/ pc' = "update" /\ err' \in {"http", "dial", "unmarked"}
           \/ next /\ entry \in registry'
        /\ UNCHANGED <<kind, obj, cache, queue, builder, builderCache, lease,
                       copy, got, dropped, changes>>
    <2> HIDE DEF entry, next
    <2> QED BY <1>1, Wrote
  <1>3. pc = "save"
    BY DEF SaveBuilder
  <1> QED BY <1>2, <1>3 DEF WriteEffect

LEMMA SignBuilderEffect ==
    ASSUME TypeOK, SignBuilder
    PROVE  /\ pc = "sign" /\ WriteEffect(<<"signature", NewImage>>)
           /\ pc' = "update"
           /\ \/ err' \in {"http", "dial", "unmarked"}
              \/ err' = err /\ <<"signature", NewImage>> \in registry'
  <1> DEFINE entry == <<"signature", NewImage>>
             next == pc' = "update" /\ UNCHANGED err
  <1>1. Write(entry, FALSE, next)
    BY DEF SignBuilder
  <1>2. /\ faults' \in 0..MaxFaults
        /\ registry \subseteq registry' /\ registry' \subseteq registry \cup {entry}
        /\ \/ pc' = "update" /\ err' \in {"http", "dial", "unmarked"}
           \/ next /\ entry \in registry'
        /\ UNCHANGED <<kind, obj, cache, queue, builder, builderCache, lease,
                       copy, got, dropped, changes>>
    <2> HIDE DEF entry, next
    <2> QED BY <1>1, Wrote
  <1>3. pc = "sign"
    BY DEF SignBuilder
  <1> QED BY <1>2, <1>3 DEF WriteEffect

LEMMA WritesTypeOK ==
    TypeOK /\ (RelocateRunImage \/ SaveBuilder \/ SignBuilder) => TypeOK'
  <1> SUFFICES ASSUME TypeOK PROVE RelocateRunImage \/ SaveBuilder \/ SignBuilder => TypeOK'
    OBVIOUS
  <1>1. ASSUME RelocateRunImage PROVE TypeOK'
    <2>1. <<"run", got["ClusterStack"]>> \in {"run"} \X Nat
      BY DEF TypeOK, Inputs
    <2> QED BY <1>1, <2>1, RelocateRunImageEffect DEF TypeOK, WriteEffect, Errors
  <1>2. ASSUME SaveBuilder PROVE TypeOK'
    <2>1. <<"image", NewImage>> \in {"image", "signature"} \X Images
      BY NewImageType
    <2> QED BY <1>2, <2>1, SaveBuilderEffect DEF TypeOK, WriteEffect, Errors
  <1>3. ASSUME SignBuilder PROVE TypeOK'
    <2>1. <<"signature", NewImage>> \in {"image", "signature"} \X Images
      BY NewImageType
    <2> QED BY <1>3, <2>1, SignBuilderEffect DEF TypeOK, WriteEffect, Errors
  <1> QED BY <1>1, <1>2, <1>3

\* The end of a reconcile: what UpdateStatus may have written.
WrittenStatus == IF err = "" THEN BuilderRecord(NewImage) ELSE ErrorCreate(err)

LEMMA UpdateStatusEffect ==
    ASSUME TypeOK, UpdateStatus
    PROVE  /\ pc = "update" /\ pc' = "idle"
           /\ faults' \in 0..MaxFaults
           /\ \/ builder' = builder
              \/ /\ builder.version = copy.version
                 /\ builder' = Touch([builder EXCEPT !.status = WrittenStatus])
           /\ queue' \subseteq queue \cup {"builder"}
           /\ dropped' \subseteq dropped \cup {"builder"}
           /\ copy' = InitBuilder /\ got' = Nothing /\ err' = ""
           /\ UNCHANGED <<kind, obj, cache, builderCache, lease, registry, changes>>
  <1>1. PICK lost \in Fault({"call"}) :
          /\ faults' = faults + Cost(lost) /\ faults' <= MaxFaults
          /\ \/ builder' = builder
             \/ /\ builder.version = copy.version
                /\ builder' = Touch([builder EXCEPT !.status = WrittenStatus])
    BY Zenon DEF UpdateStatus, WrittenStatus
  <1>2. faults' \in 0..MaxFaults
    <2>1. faults \in 0..MaxFaults
      BY DEF TypeOK
    <2>2. Cost(lost) \in {0, 1}
      BY FaultTypes
    <2> QED BY <1>1, <2>1, <2>2, BuilderAssumption
  <1>3. /\ queue' \subseteq queue \cup {"builder"}
        /\ dropped' \subseteq dropped \cup {"builder"}
    BY DEF UpdateStatus, Requeue, Remember
  <1> QED BY <1>1, <1>2, <1>3 DEF UpdateStatus, inputVars

LEMMA UpdateStatusTypeOK == TypeOK /\ UpdateStatus => TypeOK'
  <1> SUFFICES ASSUME TypeOK, UpdateStatus PROVE TypeOK'
    OBVIOUS
  <1>1. WrittenStatus \in [observed : Nat, image : Images, ready : BOOLEAN,
                           upToDate : BOOLEAN, error : Errors]
    BY NewImageType DEF TypeOK, WrittenStatus, BuilderRecord, ErrorCreate, BuilderObjects
  <1>2. builder' \in BuilderObjects
    <2>1. builder \in BuilderObjects
      BY DEF TypeOK
    <2>2. Touch([builder EXCEPT !.status = WrittenStatus]) \in BuilderObjects
      <3>1. [builder EXCEPT !.status = WrittenStatus] \in BuilderObjects
        BY <1>1, <2>1 DEF BuilderObjects
      <3> QED BY <3>1, TouchType
    <2> QED BY <2>1, <2>2, UpdateStatusEffect
  <1>3. copy' \in BuilderObjects /\ got' \in [Inputs -> Nat] /\ err' \in Errors
    BY UpdateStatusEffect, InitialObjects DEF Errors
  <1> QED BY <1>2, <1>3, UpdateStatusEffect DEF TypeOK

\* The actions of the builder reconciler and of those of its inputs, without the
\* grouping that fairness needs.
LEMMA Steps ==
    Next => \/ UserChange \/ Inform \/ Resync \/ Crash
            \/ \E i \in Inputs : ReconcileInput(i)
            \/ StartReconcile \/ GetStore \/ GetInputs
            \/ RelocateRunImage \/ SaveBuilder \/ SignBuilder
            \/ UpdateStatus
  BY DEF Next, ReconcileInputs, ReconcileClusterStack, ReconcileClusterLifecycle,
         ReconcileClusterStore, ReconcileBuildpack, ReconcileClusterBuildpack, Inputs,
         ReconcileBuilder, BuilderReads, BuilderWrites, ClusterBuilderReads,
         ClusterBuilderWrites

LEMMA NextTypeOK == TypeOK /\ [Next]_vars => TypeOK'
  <1> SUFFICES ASSUME TypeOK, [Next]_vars PROVE TypeOK'
    OBVIOUS
  <1>1. CASE UNCHANGED vars
    BY <1>1 DEF TypeOK, vars
  <1>2. CASE Next
    BY <1>2, Steps, UserChangeTypeOK, InformTypeOK, ResyncTypeOK, CrashTypeOK,
       ReconcileInputTypeOK, ReadsTypeOK, WritesTypeOK, UpdateStatusTypeOK
  <1> QED BY <1>1, <1>2

\* Type correctness of the builder reconciler and its inputs: objects, caches, leases,
\* queues and the registry keep their shape whatever fails.
THEOREM TypeCorrect == Spec => []TypeOK
  BY InitTypeOK, NextTypeOK, PTL DEF Spec

-----------------------------------------------------------------------------
(* The inductive invariant behind the two safety properties. *)

\* Contents n of input i are no newer than what a later read of it can yield.
NoNewer(n, i) ==
    /\ n <= obj[i].spec
    /\ obj[i].status.of = 0 \/ n <= obj[i].status.of
    /\ cache[i].status.of = 0 \/ n <= cache[i].status.of

\* The contents of an input only grow, in the object and in the cache that follows it.
InputsGrow == \A i \in Inputs : NoNewer(cache[i].status.of, i) /\ obj[i].status.of <= obj[i].spec

\* The image of the status and what the reconcile has read are no newer than the inputs,
\* and what it has read is no older than the image of the status.
ReadsGrow ==
    \A i \in Inputs :
        /\ NoNewer(builder.status.image.of[i], i) /\ NoNewer(got[i], i)
        /\ got[i] = 0 \/ builder.status.image.of[i] <= got[i]
        /\ i \notin Used => got[i] = 0 /\ builder.status.image.of[i] = 0

\* A copy of the builder of the current version is the builder.
CopyIsCurrent ==
    /\ builderCache.version <= builder.version
    /\ builderCache.version = builder.version => builderCache = builder
    /\ pc # "idle" =>
        /\ copy.version <= builder.version
        /\ copy.version = builder.version => copy = builder

\* Specs are counted from 1, so that no image made is mistaken for none.
SpecsCount == builder.spec > 0 /\ builderCache.spec > 0 /\ copy.spec > 0

\* What the creation has done when it has come this far without an error.
Created ==
    /\ pc # "update" => err = ""
    /\ pc \in {"save", "sign"} \/ (pc = "update" /\ err = "") =>
        /\ \A i \in Used : got[i] # 0
        /\ <<"run", got["ClusterStack"]>> \in registry
    /\ pc = "sign" \/ (pc = "update" /\ err = "") => <<"image", NewImage>> \in registry
    /\ pc = "update" /\ err = "" /\ CosignSecrets => <<"signature", NewImage>> \in registry

\* A builder with an image is Ready.
ImageIsReady == builder.status.image # NoImage => builder.status.ready

IInv ==
    /\ TypeOK
    /\ InputsGrow /\ ReadsGrow /\ CopyIsCurrent /\ SpecsCount /\ Created
    /\ ImageIsReady /\ ReportedImageIsComplete

-----------------------------------------------------------------------------
(* The inputs grow. *)

\* What a step may do to an input and to its cached copy.
InputGrows(i) ==
    /\ obj'[i].spec >= obj[i].spec
    /\ obj'[i].status.of \in {0, obj[i].status.of, obj[i].spec}
    /\ cache'[i].status.of \in {cache[i].status.of, obj[i].status.of}

\* The numbers of an input.
LEMMA InputNumbers ==
    ASSUME TypeOK, NEW i \in Inputs
    PROVE  /\ obj[i] \in InputObjects /\ cache[i] \in InputObjects
           /\ obj[i].spec \in Nat /\ obj[i].status.of \in Nat
           /\ cache[i].status.of \in Nat /\ cache[i].spec \in Nat
           /\ got[i] \in Nat /\ builder.status.image.of[i] \in Nat
  BY DEF TypeOK, InputObjects, BuilderObjects, Images

LEMMA InputNumbersNext ==
    ASSUME TypeOK', NEW i \in Inputs
    PROVE  /\ obj'[i].spec \in Nat /\ obj'[i].status.of \in Nat
           /\ cache'[i].status.of \in Nat
           /\ got'[i] \in Nat /\ builder'.status.image.of[i] \in Nat
  BY DEF TypeOK, InputObjects, BuilderObjects, Images

LEMMA UserChangeGrows ==
    ASSUME TypeOK, UserChange, NEW i \in Inputs
    PROVE  InputGrows(i)
  <1>1. obj \in [Inputs -> InputObjects] /\ cache' = cache
    BY UserChangeEffect DEF TypeOK
  <1>2. ASSUME NEW o \in InputObjects
        PROVE  /\ Edited(o).spec = o.spec + 1 /\ Edited(o).status = o.status
               /\ Deleted(o).spec = o.spec /\ Deleted(o).status = o.status
               /\ Recreated(o).spec = o.spec + 1 /\ Recreated(o).status.of = 0
    BY DEF Edited, Deleted, Recreated, Touch, InputObjects
  <1>3. \/ obj'[i] \in {obj[i], Edited(obj[i]), Deleted(obj[i]), Recreated(obj[i])}
    BY <1>1, UserChangeEffect
  <1> QED BY <1>1, <1>2, <1>3, InputNumbers DEF InputGrows

LEMMA ReconcileInputGrows ==
    ASSUME TypeOK, NEW j \in Inputs, ReconcileInput(j), NEW i \in Inputs
    PROVE  InputGrows(i)
  <1>1. PICK e \in Fault({"http", "dial", "call"}), lost \in Fault({"call"}) :
          obj' = IF /\ cache[j].exists /\ StatusAfterRead(cache[j], e) # cache[j].status
                    /\ obj[j] = cache[j] /\ lost = ""
                 THEN [obj EXCEPT ![j] = Touch([@ EXCEPT !.status = StatusAfterRead(cache[j], e)])]
                 ELSE obj
    BY DEF ReconcileInput
  <1>2. cache' = cache
    BY DEF ReconcileInput
  <1>3. obj \in [Inputs -> InputObjects]
    BY DEF TypeOK
  <1>4. StatusAfterRead(cache[j], e) \in [of : Nat, error : Errors]
    BY FaultTypes, InputNumbers, StatusTypes
  <1>5. ASSUME NEW o \in InputObjects, NEW s \in [of : Nat, error : Errors]
        PROVE  Touch([o EXCEPT !.status = s]).spec = o.spec /\ Touch([o EXCEPT !.status = s]).status = s
    BY DEF Touch, InputObjects
  <1>6. StatusAfterRead(cache[j], e).of \in {0, cache[j].spec}
    BY DEF StatusAfterRead
  <1>7. \/ obj'[i] = obj[i]
        \/ /\ obj'[i] = Touch([obj[i] EXCEPT !.status = StatusAfterRead(cache[j], e)])
           /\ obj[i] = cache[j]
    BY <1>1, <1>3
  <1> QED BY <1>2, <1>4, <1>5, <1>6, <1>7, InputNumbers DEF InputGrows

LEMMA CrashGrows ==
    ASSUME TypeOK, Crash, NEW i \in Inputs
    PROVE  InputGrows(i)
  <1>1. obj' = obj /\ obj \in [Inputs -> InputObjects]
    BY DEF Crash, TypeOK
  <1>2. cache' = obj \/ cache' = [obj EXCEPT !["ClusterLifecycle"].exists = FALSE]
    BY DEF Crash
  <1>3. cache'[i].status = obj[i].status
    BY <1>1, <1>2 DEF InputObjects
  <1> QED BY <1>1, <1>3, InputNumbers DEF InputGrows

LEMMA OthersGrow ==
    ASSUME TypeOK, NEW i \in Inputs,
           \/ UNCHANGED <<obj, cache>>
           \/ \E j \in Inputs : UNCHANGED obj /\ cache' = [cache EXCEPT ![j] = obj[j]]
    PROVE  InputGrows(i)
  <1>1. obj' = obj /\ cache'[i] \in {cache[i], obj[i]}
    BY DEF TypeOK
  <1> QED BY <1>1, InputNumbers DEF InputGrows

LEMMA NextGrows ==
    ASSUME TypeOK, [Next]_vars, NEW i \in Inputs
    PROVE  InputGrows(i)
  <1>1. CASE UserChange
    BY <1>1, UserChangeGrows
  <1>2. CASE Crash
    BY <1>2, CrashGrows
  <1>3. CASE \E j \in Inputs : ReconcileInput(j)
    BY <1>3, ReconcileInputGrows
  <1>4. CASE UNCHANGED vars
    BY <1>4, OthersGrow DEF vars
  <1>5. CASE Inform
    BY <1>5, OthersGrow DEF Inform, InformBuilder, InformInput, inputVars
  <1>6. CASE Resync \/ StartReconcile \/ GetStore \/ GetInputs
    BY <1>6, OthersGrow DEF Resync, StartReconcile, GetStore, GetInputs, inputVars
  <1>7. CASE RelocateRunImage \/ SaveBuilder \/ SignBuilder
    BY <1>7, OthersGrow, RelocateRunImageEffect, SaveBuilderEffect, SignBuilderEffect DEF WriteEffect
  <1>8. CASE UpdateStatus
    BY <1>8, OthersGrow, UpdateStatusEffect
  <1> QED BY <1>1, <1>2, <1>3, <1>4, <1>5, <1>6, <1>7, <1>8, Steps

LEMMA NoNewerStays ==
    ASSUME TypeOK, TypeOK', InputsGrow, [Next]_vars, NEW i \in Inputs, NEW n \in Nat, NoNewer(n, i)
    PROVE  NoNewer(n, i)'
  <1>1. InputGrows(i)
    BY NextGrows
  <1>2. obj[i].spec \in Nat /\ obj[i].status.of \in Nat /\ cache[i].status.of \in Nat
    BY InputNumbers
  <1>3. obj'[i].spec \in Nat /\ obj'[i].status.of \in Nat /\ cache'[i].status.of \in Nat
    BY InputNumbersNext
  <1> QED BY <1>1, <1>2, <1>3 DEF InputGrows, NoNewer

LEMMA InputsGrowStays ==
    ASSUME TypeOK, TypeOK', InputsGrow, [Next]_vars
    PROVE  InputsGrow'
  <1> SUFFICES ASSUME NEW i \in Inputs
               PROVE  NoNewer(cache[i].status.of, i)' /\ (obj[i].status.of <= obj[i].spec)'
    BY DEF InputsGrow
  <1>1. NoNewer(cache[i].status.of, i) /\ obj[i].status.of <= obj[i].spec
    BY DEF InputsGrow
  <1>2. InputGrows(i)
    BY NextGrows
  <1>3. obj[i].spec \in Nat /\ obj[i].status.of \in Nat /\ cache[i].status.of \in Nat
    BY InputNumbers
  <1>4. obj'[i].spec \in Nat /\ obj'[i].status.of \in Nat /\ cache'[i].status.of \in Nat
    BY InputNumbersNext
  <1> QED BY <1>1, <1>2, <1>3, <1>4 DEF InputGrows, NoNewer

-----------------------------------------------------------------------------
(* What a step does to the builder and to what its reconcile has read. *)

LEMMA KindStays == TypeOK /\ [Next]_vars => kind' = kind /\ Used' = Used
  <1> SUFFICES ASSUME TypeOK, [Next]_vars PROVE kind' = kind
    BY DEF Used
  <1>1. CASE UNCHANGED vars
    BY <1>1 DEF vars
  <1>2. CASE UserChange \/ Inform \/ Resync \/ Crash
    BY <1>2 DEF UserChange, Inform, InformBuilder, InformInput, Resync, Crash
  <1>3. CASE \E i \in Inputs : ReconcileInput(i)
    BY <1>3 DEF ReconcileInput
  <1>4. CASE StartReconcile \/ GetStore \/ GetInputs
    BY <1>4 DEF StartReconcile, GetStore, GetInputs
  <1>5. CASE RelocateRunImage \/ SaveBuilder \/ SignBuilder \/ UpdateStatus
    BY <1>5, RelocateRunImageEffect, SaveBuilderEffect, SignBuilderEffect, UpdateStatusEffect
    DEF WriteEffect
  <1> QED BY <1>1, <1>2, <1>3, <1>4, <1>5, Steps

\* The steps that touch neither the builder nor its reconcile.
Aside == UNCHANGED <<builder, builderCache, pc, copy, got, err, registry>>

LEMMA AsideSteps ==
    ASSUME UNCHANGED vars \/ Resync \/ (\E i \in Inputs : InformInput(i) \/ ReconcileInput(i))
    PROVE  Aside
  <1>1. CASE UNCHANGED vars
    BY <1>1 DEF vars, Aside
  <1>2. CASE Resync
    BY <1>2 DEF Resync, Aside, workVars
  <1>3. ASSUME NEW i \in Inputs, InformInput(i) PROVE Aside
    BY <1>3 DEF InformInput, Aside, workVars
  <1>4. ASSUME NEW i \in Inputs, ReconcileInput(i) PROVE Aside
    BY <1>4 DEF ReconcileInput, Aside, workVars
  <1> QED BY <1>1, <1>2, <1>3, <1>4

\* The same steps by what they do to the builder.
LEMMA StepsOfTheBuilder ==
    [Next]_vars =>
        \/ UNCHANGED vars \/ Resync \/ (\E i \in Inputs : InformInput(i) \/ ReconcileInput(i))
        \/ UserChange \/ InformBuilder \/ Crash
        \/ StartReconcile \/ GetStore \/ GetInputs
        \/ RelocateRunImage \/ SaveBuilder \/ SignBuilder
        \/ UpdateStatus
  BY Steps DEF Inform

\* What a user or a status write leaves of the builder, and the version it raises.
LEMMA BuilderTouched ==
    ASSUME NEW b \in BuilderObjects, NEW s
    PROVE  /\ Edited(b).status = b.status /\ Edited(b).version = b.version + 1
           /\ Edited(b).spec = b.spec + 1
           /\ Deleted(b).status = b.status /\ Deleted(b).version = b.version + 1
           /\ Deleted(b).spec = b.spec
           /\ Touch([b EXCEPT !.status = s]).status = s
           /\ Touch([b EXCEPT !.status = s]).version = b.version + 1
           /\ Touch([b EXCEPT !.status = s]).spec = b.spec
  BY DEF Edited, Deleted, Touch, BuilderObjects

LEMMA BuilderNumbers ==
    ASSUME TypeOK
    PROVE  /\ builder \in BuilderObjects /\ builderCache \in BuilderObjects /\ copy \in BuilderObjects
           /\ builder.version \in Nat /\ builderCache.version \in Nat /\ copy.version \in Nat
           /\ builder.spec \in Nat /\ builderCache.spec \in Nat /\ copy.spec \in Nat
  BY DEF TypeOK, BuilderObjects

\* A status write keeps the image of the builder or, after a creation without an error,
\* reports the one made of what was read; the builder is then Ready.
LEMMA StatusWritten ==
    ASSUME TypeOK, CopyIsCurrent, SpecsCount, UpdateStatus
    PROVE  \/ builder' = builder
           \/ /\ err = "" /\ builder'.status.image = NewImage /\ builder'.status.ready
              /\ NewImage # NoImage
              /\ builder'.version = builder.version + 1 /\ builder'.spec = builder.spec
           \/ /\ builder'.status.image = builder.status.image
              /\ (builder.status.image # NoImage => builder'.status.ready)
              /\ builder'.version = builder.version + 1 /\ builder'.spec = builder.spec
  <1> SUFFICES ASSUME builder' # builder
               PROVE  \/ /\ err = "" /\ builder'.status.image = NewImage /\ builder'.status.ready
                         /\ NewImage # NoImage
                         /\ builder'.version = builder.version + 1 /\ builder'.spec = builder.spec
                      \/ /\ builder'.status.image = builder.status.image
                         /\ (builder.status.image # NoImage => builder'.status.ready)
                         /\ builder'.version = builder.version + 1 /\ builder'.spec = builder.spec
    OBVIOUS
  <1>1. /\ builder.version = copy.version /\ pc = "update"
        /\ builder' = Touch([builder EXCEPT !.status = WrittenStatus])
    BY UpdateStatusEffect
  <1>2. copy = builder
    BY <1>1 DEF CopyIsCurrent
  <1>3. /\ builder'.status = WrittenStatus /\ builder'.version = builder.version + 1
        /\ builder'.spec = builder.spec
    BY <1>1, BuilderTouched, BuilderNumbers
  <1>4. CASE err = ""
    <2>1. WrittenStatus.image = NewImage /\ WrittenStatus.ready
      BY <1>4 DEF WrittenStatus, BuilderRecord
    <2>2. NewImage # NoImage
      BY BuilderNumbers DEF NewImage, NoImage, SpecsCount
    <2> QED BY <1>3, <1>4, <2>1, <2>2
  <1>5. CASE err # ""
    <2>1. /\ WrittenStatus.image = copy.status.image
          /\ (copy.status.image # NoImage => WrittenStatus.ready)
      BY <1>5, BuilderNumbers DEF WrittenStatus, ErrorCreate, BuilderObjects
    <2> QED BY <1>2, <1>3, <2>1
  <1> QED BY <1>4, <1>5

\* Every step but a status write leaves the status of the builder alone.
LEMMA StatusStays ==
    ASSUME TypeOK, [Next]_vars, ~UpdateStatus
    PROVE  builder'.status = builder.status
  <1>1. CASE UserChange
    BY <1>1, UserChangeEffect, BuilderTouched, BuilderNumbers
  <1>2. CASE InformBuilder \/ Crash \/ StartReconcile \/ GetStore \/ GetInputs
    BY <1>2 DEF InformBuilder, Crash, StartReconcile, GetStore, GetInputs
  <1>3. CASE RelocateRunImage \/ SaveBuilder \/ SignBuilder
    BY <1>3, RelocateRunImageEffect, SaveBuilderEffect, SignBuilderEffect DEF WriteEffect
  <1>4. CASE UNCHANGED vars \/ Resync \/ (\E i \in Inputs : InformInput(i) \/ ReconcileInput(i))
    BY <1>4, AsideSteps DEF Aside
  <1> QED BY <1>1, <1>2, <1>3, <1>4, StepsOfTheBuilder

-----------------------------------------------------------------------------
(* The parts of the invariant, one by one. *)

\* What the reconcile has read of an input after a step.
LEMMA ReadsStep ==
    ASSUME TypeOK, [Next]_vars, NEW i \in Inputs
    PROVE  \/ got'[i] = got[i] \/ got'[i] = 0
           \/ /\ got'[i] = cache[i].status.of /\ i \in Used
              /\ UNCHANGED <<obj, cache, builder>>
  <1>1. CASE Aside \/ UserChange \/ InformBuilder
    BY <1>1, UserChangeEffect DEF Aside, InformBuilder, workVars
  <1>2. CASE StartReconcile \/ Crash \/ UpdateStatus
    BY <1>2, UpdateStatusEffect DEF StartReconcile, Crash, Nothing
  <1>3. CASE GetStore
    <2>1. "ClusterStore" \in Used
      BY DEF Used, BuilderInputs, ClusterBuilderInputs, Inputs
    <2>2. /\ got' \in {got, [got EXCEPT !["ClusterStore"] = cache["ClusterStore"].status.of]}
          /\ UNCHANGED <<obj, cache, builder>>
      BY <1>3 DEF GetStore, inputVars
    <2>3. got \in [Inputs -> Nat]
      BY DEF TypeOK
    <2> QED BY <2>1, <2>2, <2>3
  <1>4. CASE GetInputs
    BY <1>4 DEF GetInputs, inputVars
  <1>5. CASE RelocateRunImage \/ SaveBuilder \/ SignBuilder
    BY <1>5, RelocateRunImageEffect, SaveBuilderEffect, SignBuilderEffect DEF WriteEffect
  <1> QED BY <1>1, <1>2, <1>3, <1>4, <1>5, StepsOfTheBuilder, AsideSteps

LEMMA ReadsGrowStays ==
    ASSUME TypeOK, TypeOK', InputsGrow, ReadsGrow, CopyIsCurrent, SpecsCount, [Next]_vars
    PROVE  ReadsGrow'
  <1> SUFFICES ASSUME NEW i \in Inputs
               PROVE  /\ NoNewer(builder.status.image.of[i], i)' /\ NoNewer(got[i], i)'
                      /\ got'[i] = 0 \/ builder'.status.image.of[i] <= got'[i]
                      /\ i \notin Used => got'[i] = 0 /\ builder'.status.image.of[i] = 0
    BY KindStays DEF ReadsGrow
  <1> DEFINE old == builder.status.image.of[i]
             new == builder'.status.image.of[i]
  <1>1. /\ old \in Nat /\ got[i] \in Nat /\ cache[i].status.of \in Nat
        /\ new \in Nat /\ got'[i] \in Nat
    BY InputNumbers, InputNumbersNext
  <1>2. /\ NoNewer(old, i) /\ NoNewer(got[i], i) /\ NoNewer(cache[i].status.of, i)
        /\ got[i] = 0 \/ old <= got[i]
        /\ cache[i].status.of = 0 \/ old <= cache[i].status.of
        /\ i \notin Used => got[i] = 0 /\ old = 0
    BY DEF ReadsGrow, InputsGrow, NoNewer
  <1>3. \A n \in {old, got[i], cache[i].status.of} : NoNewer(n, i)'
    BY <1>1, <1>2, NoNewerStays
  <1>4. NoNewer(0, i)'
    BY InputNumbersNext DEF NoNewer
  <1>5. CASE new = old
    <2>1. got'[i] \in {got[i], 0} \/ (got'[i] = cache[i].status.of /\ i \in Used)
      BY ReadsStep
    <2>3. \A n \in {got[i], 0, cache[i].status.of} : got'[i] = n => NoNewer(got[i], i)'
      BY <1>3, <1>4 DEF NoNewer
    <2>4. NoNewer(builder.status.image.of[i], i)'
      BY <1>3, <1>5 DEF NoNewer
    <2> QED BY <1>1, <1>2, <1>5, <2>1, <2>3, <2>4
  <1>6. CASE new # old
    <2>1. UpdateStatus
      BY <1>6, StatusStays
    <2>2. builder'.status.image = NewImage /\ got'[i] = 0
      BY <1>6, <2>1, StatusWritten, UpdateStatusEffect DEF Nothing
    <2>3. new = got[i]
      BY <2>2 DEF NewImage
    <2>4. NoNewer(builder.status.image.of[i], i)' /\ NoNewer(got[i], i)'
      BY <1>3, <1>4, <2>2, <2>3 DEF NoNewer
    <2> QED BY <1>2, <2>2, <2>3, <2>4
  <1> QED BY <1>5, <1>6

LEMMA CopyIsCurrentStays ==
    ASSUME TypeOK, TypeOK', CopyIsCurrent, SpecsCount, [Next]_vars
    PROVE  CopyIsCurrent' /\ SpecsCount'
  <1>0. InitBuilder.spec = 1
    BY DEF InitBuilder
  <1>1. CASE Aside \/ GetStore \/ GetInputs \/ RelocateRunImage \/ SaveBuilder \/ SignBuilder
    <2>1. UNCHANGED <<builder, builderCache, copy>> /\ (pc = "idle" => pc' = "idle")
      BY <1>1, RelocateRunImageEffect, SaveBuilderEffect, SignBuilderEffect
      DEF Aside, GetStore, GetInputs, WriteEffect
    <2> QED BY <2>1 DEF CopyIsCurrent, SpecsCount
  <1>2. CASE UserChange
    <2>1. UNCHANGED <<builderCache, copy, pc>>
      BY <1>2, UserChangeEffect
    <2>2. \/ builder' = builder
          \/ builder'.version = builder.version + 1 /\ builder'.spec \in {builder.spec, builder.spec + 1}
      BY <1>2, UserChangeEffect, BuilderTouched, BuilderNumbers
    <2> QED BY <2>1, <2>2, BuilderNumbers DEF CopyIsCurrent, SpecsCount
  <1>3. CASE InformBuilder
    BY <1>3, BuilderNumbers DEF InformBuilder, workVars, CopyIsCurrent, SpecsCount
  <1>4. CASE Crash
    <2>1. /\ pc' = "idle" /\ copy' = InitBuilder
          /\ builder' = builder /\ builderCache' = builder
      BY <1>4 DEF Crash
    <2> QED BY <1>0, <2>1, BuilderNumbers DEF CopyIsCurrent, SpecsCount
  <1>5. CASE StartReconcile
    BY <1>5, BuilderNumbers DEF StartReconcile, Idle, CopyIsCurrent, SpecsCount
  <1>6. CASE UpdateStatus
    <2>1. pc' = "idle" /\ copy'.spec = 1 /\ builderCache' = builderCache
      BY <1>0, <1>6, UpdateStatusEffect
    <2>2. \/ builder' = builder
          \/ builder'.version = builder.version + 1 /\ builder'.spec = builder.spec
      BY <1>6, StatusWritten
    <2> QED BY <2>1, <2>2, BuilderNumbers DEF CopyIsCurrent, SpecsCount
  <1> QED BY <1>1, <1>2, <1>3, <1>4, <1>5, <1>6, StepsOfTheBuilder, AsideSteps

LEMMA CreatedStays ==
    ASSUME TypeOK, Created, [Next]_vars
    PROVE  Created'
  <1> USE KindStays
  <1>1. CASE Aside \/ UserChange \/ InformBuilder
    <2>1. UNCHANGED <<pc, copy, got, err, registry>> /\ Used' = Used /\ NewImage' = NewImage
      BY <1>1, UserChangeEffect DEF Aside, InformBuilder, workVars, NewImage
    <2> QED BY <2>1 DEF Created
  <1>2. CASE Crash \/ StartReconcile \/ GetStore \/ UpdateStatus
    <2>1. /\ pc' \notin {"save", "sign"}
          /\ \/ pc' # "update" /\ err' = ""
             \/ pc' = "update" /\ err' # ""
      BY <1>2, UpdateStatusEffect DEF Crash, StartReconcile, GetStore, Fail, Idle, Created
    <2> QED BY <2>1 DEF Created
  <1>3. CASE GetInputs
    <2>1. PICK e \in Fault({"call"}) :
            \/ pc' = "relocate" /\ err' = err
            \/ pc' = "update" /\ e # "" /\ err' = e
            \/ pc' = "update" /\ err' = "stack not ready"
            \/ pc' = "update" /\ err' = "lifecycle not ready"
      BY <1>3, Zenon DEF GetInputs, Fail
    <2>2. pc = "inputs"
      BY <1>3 DEF GetInputs
    <2> QED BY <2>1, <2>2 DEF Created
  <1>4. CASE RelocateRunImage
    <2>1. UNCHANGED <<copy, got>> /\ Used' = Used /\ pc = "relocate"
      BY <1>4, RelocateRunImageEffect DEF WriteEffect
    <2> QED BY <1>4, <2>1, RelocateRunImageEffect DEF Created
  <1>5. CASE SaveBuilder
    <2>1. UNCHANGED <<copy, got>> /\ Used' = Used /\ pc = "save" /\ NewImage' = NewImage
          /\ registry \subseteq registry'
      BY <1>5, SaveBuilderEffect DEF WriteEffect, NewImage
    <2> QED BY <1>5, <2>1, SaveBuilderEffect DEF Created
  <1>6. CASE SignBuilder
    <2>1. UNCHANGED <<copy, got>> /\ Used' = Used /\ pc = "sign" /\ NewImage' = NewImage
          /\ registry \subseteq registry'
      BY <1>6, SignBuilderEffect DEF WriteEffect, NewImage
    <2> QED BY <1>6, <2>1, SignBuilderEffect DEF Created
  <1> QED BY <1>1, <1>2, <1>3, <1>4, <1>5, <1>6, StepsOfTheBuilder, AsideSteps

LEMMA RegistryGrows == TypeOK /\ [Next]_vars => registry \subseteq registry'
  <1> SUFFICES ASSUME TypeOK, [Next]_vars PROVE registry \subseteq registry'
    OBVIOUS
  <1>1. CASE Aside \/ UserChange \/ InformBuilder \/ Crash \/ StartReconcile \/ GetStore
               \/ GetInputs \/ UpdateStatus
    <2>1. UNCHANGED registry
      BY <1>1, UserChangeEffect, UpdateStatusEffect
      DEF Aside, InformBuilder, Crash, StartReconcile, GetStore, GetInputs
    <2> QED BY <2>1
  <1>2. CASE RelocateRunImage \/ SaveBuilder \/ SignBuilder
    BY <1>2, RelocateRunImageEffect, SaveBuilderEffect, SignBuilderEffect DEF WriteEffect
  <1> QED BY <1>1, <1>2, StepsOfTheBuilder, AsideSteps

LEMMA ReportStays ==
    ASSUME TypeOK, CopyIsCurrent, SpecsCount, Created, ImageIsReady,
           ReportedImageIsComplete, [Next]_vars
    PROVE  ImageIsReady' /\ ReportedImageIsComplete'
  <1>1. registry \subseteq registry'
    BY RegistryGrows
  <1>2. CASE builder'.status = builder.status
    BY <1>1, <1>2 DEF ImageIsReady, ReportedImageIsComplete
  <1>3. CASE UpdateStatus /\ builder'.status # builder.status
    <2>1. \/ err = "" /\ builder'.status.image = NewImage /\ builder'.status.ready
          \/ /\ builder'.status.image = builder.status.image
             /\ (builder.status.image # NoImage => builder'.status.ready)
      BY <1>3, StatusWritten
    <2>2. CASE err = "" /\ builder'.status.image = NewImage /\ builder'.status.ready
      <3>1. pc = "update" /\ NewImage.of = got
        BY <1>3, UpdateStatusEffect DEF NewImage
      <3>2. /\ <<"run", NewImage.of["ClusterStack"]>> \in registry
            /\ <<"image", NewImage>> \in registry
            /\ CosignSecrets => <<"signature", NewImage>> \in registry
        BY <2>2, <3>1 DEF Created
      <3> QED BY <1>1, <2>2, <3>2 DEF ImageIsReady, ReportedImageIsComplete
    <2>3. CASE /\ builder'.status.image = builder.status.image
               /\ (builder.status.image # NoImage => builder'.status.ready)
      BY <1>1, <2>3 DEF ImageIsReady, ReportedImageIsComplete
    <2> QED BY <2>1, <2>2, <2>3
  <1> QED BY <1>2, <1>3, StatusStays

LEMMA InitIInv == Init => IInv
  <1> SUFFICES ASSUME Init PROVE IInv
    OBVIOUS
  <1>1. TypeOK
    BY InitTypeOK
  <1>2. \A i \in Inputs : obj[i].spec = 1 /\ obj[i].status.of = 1 /\ cache[i] = obj[i] /\ got[i] = 0
    <2>1. InitInput.spec = 1 /\ InitInput.status.of = 1
          /\ [InitInput EXCEPT !.exists = FALSE].spec = 1
          /\ [InitInput EXCEPT !.exists = FALSE].status.of = 1
      BY DEF InitInput
    <2>2. cache = obj /\ got = Nothing
      BY DEF Init
    <2> HIDE DEF InitInput
    <2> QED BY <2>1, <2>2 DEF Init, Nothing
  <1>3. /\ builder = InitBuilder /\ builderCache = builder /\ copy = builder
        /\ pc = "idle" /\ err = ""
    BY DEF Init
  <1>4. InitBuilder.status.image = NoImage /\ InitBuilder.spec = 1
    BY DEF InitBuilder
  <1>5. \A i \in Inputs : builder.status.image.of[i] = 0
    <2>1. NoImage.of = Nothing
      BY DEF NoImage
    <2> QED BY <1>3, <1>4, <2>1 DEF Nothing
  <1>6. InputsGrow /\ ReadsGrow
    BY <1>2, <1>5 DEF InputsGrow, ReadsGrow, NoNewer
  <1>7. CopyIsCurrent /\ SpecsCount
    <2>1. builder.version \in Nat
      BY <1>1, BuilderNumbers
    <2>2. builder.spec = 1 /\ builderCache.spec = 1 /\ copy.spec = 1
      BY <1>3, <1>4
    <2>3. SpecsCount
      BY <2>2 DEF SpecsCount
    <2>4. builderCache = builder /\ builder.version <= builder.version /\ pc = "idle"
      <3>1. \A n \in Nat : n <= n
        OBVIOUS
      <3> QED BY <1>3, <2>1, <3>1, Zenon
    <2>5. CopyIsCurrent
      BY <2>4 DEF CopyIsCurrent
    <2> QED BY <2>3, <2>5
  <1>8. Created /\ ImageIsReady /\ ReportedImageIsComplete
    BY <1>3, <1>4 DEF Created, ImageIsReady, ReportedImageIsComplete
  <1> QED BY <1>1, <1>6, <1>7, <1>8 DEF IInv

LEMMA NextIInv == IInv /\ [Next]_vars => IInv'
  BY NextTypeOK, InputsGrowStays, ReadsGrowStays, CopyIsCurrentStays, CreatedStays, ReportStays
  DEF IInv

LEMMA Invariance == Spec => []IInv
  BY InitIInv, NextIInv, PTL DEF Spec

\* The image that the status of a builder offers to Images was pushed, its run image
\* relocated and, with cosign secrets, it was signed, whichever registry write, status
\* update or controller failed on the way (CreateBuilder, SignBuilder, updateStatus).
THEOREM ReportedImageCorrect == Spec => []ReportedImageIsComplete
  BY Invariance, PTL DEF IInv

\* A step of [Next]_vars from a state of the invariant keeps serving.
LEMMA KeepsServingStep ==
    ASSUME IInv, [Next]_vars, builder.status.image # NoImage
    PROVE  /\ builder'.status.ready /\ builder'.status.image # NoImage
           /\ \A i \in Inputs : builder'.status.image.of[i] >= builder.status.image.of[i]
  <1>1. /\ TypeOK /\ ReadsGrow /\ CopyIsCurrent /\ SpecsCount /\ Created
        /\ builder.status.ready
    BY DEF IInv, ImageIsReady
  <1>2. \A i \in Inputs : builder.status.image.of[i] \in Nat /\ got[i] \in Nat
    BY <1>1, InputNumbers
  <1>3. CASE builder'.status = builder.status
    BY <1>1, <1>2, <1>3
  <1>4. CASE UpdateStatus /\ builder'.status # builder.status
    <2>1. \/ /\ err = "" /\ builder'.status.image = NewImage /\ builder'.status.ready
             /\ NewImage # NoImage
          \/ /\ builder'.status.image = builder.status.image
             /\ (builder.status.image # NoImage => builder'.status.ready)
      BY <1>1, <1>4, StatusWritten
    <2>2. CASE /\ err = "" /\ builder'.status.image = NewImage /\ builder'.status.ready
               /\ NewImage # NoImage
      <3>1. pc = "update" /\ NewImage.of = got
        BY <1>1, <1>4, UpdateStatusEffect DEF NewImage
      <3>2. ASSUME NEW i \in Inputs PROVE got[i] >= builder.status.image.of[i]
        <4>1. CASE i \in Used
          BY <1>1, <1>2, <2>2, <3>1, <4>1 DEF ReadsGrow, Created
        <4>2. CASE i \notin Used
          BY <1>1, <1>2, <4>2 DEF ReadsGrow
        <4> QED BY <4>1, <4>2
      <3> QED BY <2>2, <3>1, <3>2
    <2>3. CASE /\ builder'.status.image = builder.status.image
               /\ (builder.status.image # NoImage => builder'.status.ready)
      BY <1>2, <2>3
    <2> QED BY <2>1, <2>2, <2>3
  <1> QED BY <1>1, <1>3, <1>4, StatusStays

\* A builder that has offered an image goes on offering one, and never one made from
\* older contents of an input: not when an input fails, is deleted or is created again,
\* not when a reconcile works on stale copies or the controller restarts (ErrorCreate,
\* the version check of a status update, one reconcile of a key at a time).
THEOREM ServingContinues == Spec => KeepsServing
  BY Invariance, KeepsServingStep, PTL DEF Spec, KeepsServing

-----------------------------------------------------------------------------
(* No change is lost: the invariant behind SettledBuilderIsCurrent. *)

Store == "ClusterStore"

\* What a reconcile of the builder reads of input i now.
View(i) == IF cache[i].exists THEN cache[i].status.of ELSE 0

\* The cached copy of an input is no newer than the input.
InputVersions == \A i \in Inputs : cache[i].version <= obj[i].version

\* An input with nothing to be done about it and no fault held against it has the status
\* of its contents.
InputsAreRead ==
    \A i \in Inputs :
        i \notin queue /\ i \notin dropped /\ cache[i] = obj[i] /\ obj[i].exists
            => obj[i].status.of = obj[i].spec

\* The reconcile has got past the read of the store.
PastStore ==
    pc \in {"inputs", "relocate", "save", "sign"} \/ (pc = "update" /\ err # "store not found")

\* The reconcile holds leases on what it has read or is about to read.
Leases ==
    /\ pc # "idle" => \A i \in TrackedObjects : lease[i] > 0
    /\ PastStore => \A i \in Used : lease[i] > 0

\* What the reconcile has read is still what the caches show, and an error that is no
\* fault says that something is missing.
ReadsAreFresh ==
    /\ copy = builderCache
    /\ PastStore => cache[Store].exists /\ got[Store] = View(Store)
    /\ PastStore /\ pc # "inputs" => \A i \in Used : got[i] = View(i)
    /\ pc = "update" =>
        /\ err # Unwritten
        /\ err = "store not found" => ~cache[Store].exists
        /\ err \in {"stack not ready", "lifecycle not ready", "buildpack not found"}
              => \E i \in Used : View(i) = 0

\* ... or the key of the builder is back in the queue.
ReconcileIsFresh == pc # "idle" => "builder" \in queue \/ ReadsAreFresh

\* The builder has nothing to be done about it.
AtRest ==
    /\ pc = "idle" /\ "builder" \notin queue /\ "builder" \notin dropped
    /\ builderCache = builder /\ builder.exists

\* The status of a builder at rest is the outcome of a reconcile that would start now,
\* and the leases that tell it of the next change are held.
RestIsCurrent ==
    AtRest =>
        /\ builder.status.observed = builder.spec
        /\ lease[Store] > 0
        /\ ~cache[Store].exists => ~builder.status.upToDate
        /\ cache[Store].exists =>
            /\ \A i \in Used : lease[i] > 0
            /\ (\E i \in Used : View(i) = 0) => ~builder.status.upToDate
            /\ (\A i \in Used : View(i) # 0) =>
                /\ builder.status.upToDate
                /\ builder.status.image.spec = builder.spec
                /\ \A i \in Used : builder.status.image.of[i] = View(i)

SInv ==
    /\ IInv
    /\ InputVersions /\ InputsAreRead
    /\ Leases /\ ReconcileIsFresh /\ RestIsCurrent

-----------------------------------------------------------------------------
(* The inputs. *)

\* A step that takes nothing about input i away.
PassesBy(i) ==
    /\ obj'[i] = obj[i] /\ cache'[i] = cache[i]
    /\ i \in queue => i \in queue'
    /\ i \in dropped => i \in dropped'

LEMMA NotAnInput == \A i \in Inputs : i # "builder"
  BY DEF Inputs

\* The queue and the memory of faults after a status write of the builder.
LEMMA UpdateStatusQueues ==
    ASSUME UpdateStatus
    PROVE  /\ queue \subseteq queue' /\ dropped \ {"builder"} \subseteq dropped'
  BY DEF UpdateStatus, Requeue, Remember

LEMMA BuilderPassesBy ==
    ASSUME TypeOK, NEW i \in Inputs,
           \/ UNCHANGED vars \/ InformBuilder \/ StartReconcile \/ GetStore \/ GetInputs
           \/ RelocateRunImage \/ SaveBuilder \/ SignBuilder \/ UpdateStatus
           \/ \E j \in Inputs : j # i /\ (InformInput(j) \/ ReconcileInput(j))
    PROVE  PassesBy(i)
  <1>1. CASE UNCHANGED vars
    BY <1>1 DEF vars, PassesBy
  <1>2. CASE InformBuilder \/ StartReconcile \/ GetStore \/ GetInputs
    BY <1>2, NotAnInput DEF InformBuilder, StartReconcile, GetStore, GetInputs, inputVars, PassesBy
  <1>3. CASE RelocateRunImage \/ SaveBuilder \/ SignBuilder
    BY <1>3, RelocateRunImageEffect, SaveBuilderEffect, SignBuilderEffect DEF WriteEffect, PassesBy
  <1>4. CASE UpdateStatus
    BY <1>4, UpdateStatusEffect, UpdateStatusQueues, NotAnInput DEF PassesBy
  <1>5. ASSUME NEW j \in Inputs, j # i, InformInput(j) PROVE PassesBy(i)
    BY <1>5 DEF InformInput, TypeOK, PassesBy
  <1>6. ASSUME NEW j \in Inputs, j # i, ReconcileInput(j) PROVE PassesBy(i)
    <2>1. cache' = cache /\ obj'[i] = obj[i]
      BY <1>6 DEF ReconcileInput, TypeOK
    <2>2. queue \ {j} \subseteq queue' /\ dropped \ {j} \subseteq dropped'
      BY <1>6 DEF ReconcileInput, Remember
    <2> QED BY <1>6, <2>1, <2>2 DEF PassesBy
  <1> QED BY <1>1, <1>2, <1>3, <1>4, <1>5, <1>6

\* What the reconcile of an input leaves: a new version, a fault remembered, a key queued
\* again, or the input with the status it should have.
LEMMA ReconcileInputSettles ==
    ASSUME TypeOK, NEW i \in Inputs, ReconcileInput(i)
    PROVE  /\ cache' = cache
           /\ \/ obj'[i].version = obj[i].version + 1
              \/ /\ obj'[i] = obj[i]
                 /\ \/ i \in queue' \/ i \in dropped' \/ ~cache[i].exists
                    \/ cache[i].status.of = cache[i].spec
  <1>1. PICK e \in Fault({"http", "dial", "call"}), lost \in Fault({"call"}) :
          LET status  == StatusAfterRead(cache[i], e)
              needed  == cache[i].exists /\ status # cache[i].status
              written == needed /\ obj[i] = cache[i] /\ lost = ""
              error   == IF needed /\ ~written THEN "update" ELSE e
          IN  /\ obj' = IF written
                        THEN [obj EXCEPT ![i] = Touch([@ EXCEPT !.status = status])]
                        ELSE obj
              /\ queue' = (queue \ {i}) \cup Requeue(i, error)
              /\ Remember(i, error)
    BY DEF ReconcileInput
  <1> DEFINE status  == StatusAfterRead(cache[i], e)
             needed  == cache[i].exists /\ status # cache[i].status
             written == needed /\ obj[i] = cache[i] /\ lost = ""
  <1>2. cache' = cache
    BY DEF ReconcileInput
  <1>3. obj \in [Inputs -> InputObjects] /\ obj[i] \in InputObjects
    BY DEF TypeOK
  <1>4. CASE written
    <2>1. obj'[i] = Touch([obj[i] EXCEPT !.status = status])
      BY <1>1, <1>3, <1>4
    <2>2. Touch([obj[i] EXCEPT !.status = status]).version = obj[i].version + 1
      BY <1>3 DEF Touch, InputObjects
    <2> QED BY <1>2, <2>1, <2>2
  <1>5. CASE ~written /\ needed
    <2>1. obj' = obj /\ Remember(i, "update")
      BY <1>1, <1>5
    <2> QED BY <1>2, <2>1 DEF Remember
  <1>6. CASE ~needed
    <2>1. obj' = obj /\ queue' = (queue \ {i}) \cup Requeue(i, e) /\ Remember(i, e)
      BY <1>1, <1>6
    <2>2. e \in {"", "http", "dial", "call"}
      BY FaultTypes
    <2>3. CASE e = "http"
      BY <1>2, <2>1, <2>3 DEF Requeue, IsNetworkError
    <2>4. CASE e \in {"dial", "call"}
      BY <1>2, <2>1, <2>4 DEF Remember
    <2>5. CASE e = ""
      <3>1. ~cache[i].exists \/ cache[i].status = StatusAfterRead(cache[i], "")
        BY <1>6, <2>5
      <3>2. StatusAfterRead(cache[i], "").of = cache[i].spec
        BY DEF StatusAfterRead
      <3> QED BY <1>2, <2>1, <3>1, <3>2
    <2> QED BY <2>2, <2>3, <2>4, <2>5
  <1> QED BY <1>4, <1>5, <1>6

\* After a resync or a restart every input that is not queued has the status it should have.
LEMMA NotStale ==
    ASSUME NEW c, NEW i \in Inputs, i \notin Stale(c), c[i].exists
    PROVE  c[i].status.of = c[i].spec
  <1>1. c[i].status = StatusAfterRead(c[i], "")
    BY DEF Stale
  <1>2. StatusAfterRead(c[i], "").of = c[i].spec
    BY DEF StatusAfterRead
  <1> QED BY <1>1, <1>2

LEMMA InputVersionNumbers ==
    ASSUME TypeOK, NEW i \in Inputs
    PROVE  obj[i].version \in Nat /\ cache[i].version \in Nat
  BY DEF TypeOK, InputObjects

LEMMA InputsAreReadStays ==
    ASSUME TypeOK, InputVersions, InputsAreRead, [Next]_vars
    PROVE  InputVersions' /\ InputsAreRead'
  <1> SUFFICES ASSUME NEW i \in Inputs
               PROVE  /\ cache'[i].version <= obj'[i].version
                      /\ i \notin queue' /\ i \notin dropped' /\ cache'[i] = obj'[i] /\ obj'[i].exists
                           => obj'[i].status.of = obj'[i].spec
    BY DEF InputVersions, InputsAreRead
  <1>1. obj[i].version \in Nat /\ cache[i].version \in Nat /\ cache[i].version <= obj[i].version
    BY InputVersionNumbers DEF InputVersions
  <1>2. CASE PassesBy(i)
    BY <1>1, <1>2 DEF PassesBy, InputsAreRead
  <1>3. CASE UserChange
    <2>1. obj'[i] \in {obj[i], Edited(obj[i]), Deleted(obj[i]), Recreated(obj[i])}
      BY <1>3, UserChangeEffect DEF TypeOK
    <2>2. ASSUME NEW o \in InputObjects
          PROVE  /\ Edited(o).version = o.version + 1 /\ Deleted(o).version = o.version + 1
                 /\ Recreated(o).version = o.version + 1
      BY DEF Edited, Deleted, Recreated, Touch, InputObjects
    <2>3. obj'[i] = obj[i] \/ obj'[i].version = obj[i].version + 1
      BY <2>1, <2>2, InputNumbers
    <2>4. UNCHANGED <<cache, queue, dropped>>
      BY <1>3, UserChangeEffect
    <2>5. CASE obj'[i] = obj[i]
      BY <1>1, <2>4, <2>5 DEF InputsAreRead
    <2>6. CASE obj'[i].version = obj[i].version + 1
      BY <1>1, <2>4, <2>6
    <2> QED BY <2>3, <2>5, <2>6
  <1>4. CASE Crash
    <2>1. obj' = obj /\ Stale(cache') \subseteq queue'
      BY <1>4 DEF Crash
    <2>2. cache'[i].version = obj[i].version
      <3>1. obj \in [Inputs -> InputObjects]
        BY DEF TypeOK
      <3>2. cache' = obj \/ cache' = [obj EXCEPT !["ClusterLifecycle"].exists = FALSE]
        BY <1>4 DEF Crash
      <3> QED BY <3>1, <3>2 DEF InputObjects
    <2>3. i \notin queue' /\ cache'[i].exists => cache'[i].status.of = cache'[i].spec
      BY <2>1, NotStale
    <2> QED BY <1>1, <2>1, <2>2, <2>3
  <1>5. CASE Resync
    <2>1. UNCHANGED <<obj, cache>> /\ Stale(cache) \subseteq queue'
      BY <1>5 DEF Resync, inputVars
    <2>2. i \notin queue' /\ cache[i].exists => cache[i].status.of = cache[i].spec
      BY <2>1, NotStale
    <2> QED BY <1>1, <2>1, <2>2
  <1>6. CASE InformInput(i)
    <2>1. cache'[i] = obj[i] /\ obj' = obj /\ i \in queue'
      BY <1>6 DEF InformInput, TypeOK
    <2> QED BY <1>1, <2>1
  <1>7. CASE ReconcileInput(i)
    <2>1. CASE obj'[i].version = obj[i].version + 1 /\ cache' = cache
      BY <1>1, <2>1
    <2>2. CASE /\ cache' = cache /\ obj'[i] = obj[i]
               /\ \/ i \in queue' \/ i \in dropped' \/ ~cache[i].exists
                  \/ cache[i].status.of = cache[i].spec
      BY <1>1, <2>2
    <2> QED BY <1>7, <2>1, <2>2, ReconcileInputSettles
  <1> QED BY <1>2, <1>3, <1>4, <1>5, <1>6, <1>7, StepsOfTheBuilder, BuilderPassesBy

-----------------------------------------------------------------------------
(* Leases and reads of the reconcile. *)

LEMMA UsedInputs ==
    /\ Used \subseteq Inputs /\ TrackedObjects \subseteq Used
    /\ Store \in TrackedObjects
    /\ "ClusterStack" \in Used /\ "ClusterLifecycle" \in Used
  BY DEF Used, BuilderInputs, ClusterBuilderInputs, Inputs, TrackedObjects, Store

LEMMA Tracking ==
    ASSUME TypeOK, NEW S, Track(S), NEW i \in Inputs
    PROVE  lease'[i] >= lease[i] /\ (i \in S => lease'[i] > 0)
  BY DEF Track, TypeOK, TrackerResyncPeriod

LEMMA LeasesStay ==
    ASSUME TypeOK, Leases, Created, [Next]_vars
    PROVE  Leases'
  <1>1. Used' = Used
    BY KindStays
  <1>2. \A i \in Inputs : lease[i] \in Nat
    BY DEF TypeOK, TrackerResyncPeriod
  <1>3. CASE Aside /\ lease' = lease
    BY <1>1, <1>3 DEF Aside, Leases, PastStore
  <1>4. CASE Resync \/ Crash
    BY <1>4 DEF Resync, Settled, Idle, Crash, Leases, PastStore
  <1>5. CASE UserChange \/ InformBuilder
    BY <1>1, <1>5, UserChangeEffect DEF InformBuilder, workVars, Leases, PastStore
  <1>6. CASE StartReconcile
    <2>1. CASE UNCHANGED <<pc, err, lease>>
      BY <1>1, <2>1 DEF Leases, PastStore
    <2>2. CASE pc' = "store" /\ Track(TrackedObjects)
      BY <1>1, <2>2, Tracking, UsedInputs DEF Leases, PastStore
    <2> QED BY <1>6, <2>1, <2>2 DEF StartReconcile
  <1>7. CASE GetStore
    <2>1. CASE pc' = "update" /\ err' = "store not found" /\ lease' = lease
      BY <1>1, <1>7, <2>1 DEF GetStore, Leases, PastStore
    <2>2. CASE pc' = "inputs" /\ Track(Used \ TrackedObjects)
      <3>1. \A i \in TrackedObjects : lease[i] > 0
        BY <1>7 DEF GetStore, Leases
      <3>2. \A i \in Used : lease'[i] > 0
        <4> SUFFICES ASSUME NEW i \in Used PROVE lease'[i] > 0
          OBVIOUS
        <4>1. i \in Inputs /\ lease'[i] \in Int /\ lease[i] \in Int
          BY <1>2, <2>2, UsedInputs DEF Track, TrackerResyncPeriod
        <4>2. lease'[i] >= lease[i] /\ (i \notin TrackedObjects => lease'[i] > 0)
          BY <2>2, <4>1, Tracking
        <4> QED BY <3>1, <4>1, <4>2
      <3> QED BY <1>1, <2>2, <3>2, UsedInputs DEF Leases, PastStore
    <2> QED BY <1>7, <2>1, <2>2 DEF GetStore, Fail
  <1>8. CASE GetInputs
    <2>1. pc = "inputs" /\ lease' = lease /\ pc' # "idle"
      BY <1>8 DEF GetInputs, Fail
    <2> QED BY <1>1, <2>1, UsedInputs DEF Leases, PastStore
  <1>9. CASE RelocateRunImage \/ SaveBuilder \/ SignBuilder
    <2>1. pc \in {"relocate", "save", "sign"} /\ lease' = lease /\ pc' # "idle"
      BY <1>9, RelocateRunImageEffect, SaveBuilderEffect, SignBuilderEffect DEF WriteEffect
    <2> QED BY <1>1, <2>1, UsedInputs DEF Leases, PastStore
  <1>10. CASE UpdateStatus
    BY <1>10, UpdateStatusEffect DEF Leases, PastStore
  <1>11. ASSUME UNCHANGED vars \/ (\E i \in Inputs : InformInput(i) \/ ReconcileInput(i))
         PROVE  Aside /\ lease' = lease
    <2>1. Aside
      BY <1>11, AsideSteps
    <2>2. lease' = lease
      BY <1>11 DEF vars, InformInput, ReconcileInput
    <2> QED BY <2>1, <2>2
  <1> QED BY <1>3, <1>4, <1>5, <1>6, <1>7, <1>8, <1>9, <1>10, <1>11, StepsOfTheBuilder

\* An event of an input reaches the reconcile or concerns nothing it has read.
LEMMA InformInputIsHeard ==
    ASSUME TypeOK, Leases, ReconcileIsFresh, NEW i \in Inputs, InformInput(i)
    PROVE  ReconcileIsFresh'
  <1> SUFFICES ASSUME pc # "idle", "builder" \notin queue' PROVE ReadsAreFresh'
    BY DEF ReconcileIsFresh, InformInput
  <1>1. UNCHANGED <<kind, builderCache, pc, copy, got, err>> /\ queue \subseteq queue'
    BY DEF InformInput, workVars
  <1>2. Used' = Used /\ PastStore' = PastStore
    BY <1>1 DEF Used, PastStore
  <1>3. ReadsAreFresh
    BY <1>1 DEF ReconcileIsFresh
  <1>4. i \notin Used \/ ~(lease[i] > 0)
    BY DEF InformInput, Notified
  <1>5. i # Store
    BY <1>4, UsedInputs DEF Leases
  <1>6. \A j \in Inputs : j # i => cache'[j] = cache[j]
    BY DEF InformInput, TypeOK
  <1>7. cache'[Store] = cache[Store] /\ View(Store)' = View(Store)
    BY <1>5, <1>6, UsedInputs DEF View
  <1>8. CASE PastStore
    <2>1. i \notin Used
      BY <1>4, <1>8 DEF Leases
    <2>2. \A j \in Used : View(j)' = View(j)
      BY <2>1, <1>6, UsedInputs DEF View
    <2> QED BY <1>1, <1>2, <1>3, <1>7, <2>2 DEF ReadsAreFresh
  <1>9. CASE ~PastStore
    BY <1>1, <1>2, <1>3, <1>7, <1>9 DEF ReadsAreFresh, PastStore, Unwritten
  <1> QED BY <1>8, <1>9

LEMMA ReconcileIsFreshStays ==
    ASSUME TypeOK, Leases, Created, ReconcileIsFresh, [Next]_vars
    PROVE  ReconcileIsFresh'
  <1>1. Used' = Used
    BY KindStays
  <1>2. CASE /\ UNCHANGED <<builderCache, cache, pc, copy, got, err>>
             /\ "builder" \in queue => "builder" \in queue'
    <2>1. \A i \in Inputs : View(i)' = View(i)
      BY <1>2 DEF View
    <2> QED BY <1>1, <1>2, <2>1, UsedInputs DEF ReconcileIsFresh, ReadsAreFresh, PastStore
  <1>3. CASE pc' = "idle" \/ "builder" \in queue'
    BY <1>3 DEF ReconcileIsFresh
  <1>4. CASE StartReconcile
    <2>1. CASE builderCache.exists
      BY <1>4, <2>1 DEF StartReconcile, ReconcileIsFresh, ReadsAreFresh, PastStore
    <2>2. CASE ~builderCache.exists
      BY <1>3, <1>4, <2>2 DEF StartReconcile, Idle
    <2> QED BY <2>1, <2>2
  <1>5. CASE GetStore
    <2> SUFFICES ASSUME "builder" \notin queue PROVE ReadsAreFresh'
      BY <1>5 DEF ReconcileIsFresh, GetStore
    <2>1. copy = builderCache /\ pc = "store"
      BY <1>5 DEF ReconcileIsFresh, ReadsAreFresh, GetStore
    <2>2. UNCHANGED <<copy, builderCache, cache>>
      BY <1>5 DEF GetStore, inputVars
    <2>3. CASE ~cache[Store].exists /\ pc' = "update" /\ err' = "store not found"
      BY <2>1, <2>2, <2>3 DEF ReadsAreFresh, PastStore, Unwritten
    <2>4. CASE /\ cache[Store].exists /\ pc' = "inputs"
               /\ got' = [got EXCEPT ![Store] = cache[Store].status.of]
      <3>1. got'[Store] = View(Store)'
        BY <2>2, <2>4, UsedInputs DEF View, TypeOK
      <3> QED BY <2>1, <2>2, <2>4, <3>1 DEF ReadsAreFresh, PastStore
    <2> QED BY <1>5, <2>3, <2>4 DEF GetStore, Fail, Store
  <1>6. CASE GetInputs
    <2> SUFFICES ASSUME "builder" \notin queue PROVE ReadsAreFresh'
      BY <1>6 DEF ReconcileIsFresh, GetInputs
    <2>1. /\ copy = builderCache /\ pc = "inputs"
          /\ cache[Store].exists /\ got[Store] = View(Store)
      BY <1>6 DEF ReconcileIsFresh, ReadsAreFresh, GetInputs, PastStore
    <2>2. UNCHANGED <<copy, builderCache, cache>> /\ \A i \in Inputs : View(i)' = View(i)
      BY <1>6 DEF GetInputs, inputVars, View
    <2>3. \A i \in Used : got'[i] = View(i)
      BY <1>6, <2>1, UsedInputs DEF GetInputs, View, Store
    <2>4. PICK e \in Fault({"call"}) :
            \/ pc' = "relocate"
            \/ pc' = "update" /\ e # "" /\ err' = e
            \/ pc' = "update" /\ err' = "stack not ready" /\ ~Ready(cache["ClusterStack"])
            \/ pc' = "update" /\ err' = "lifecycle not ready" /\ ~Ready(cache["ClusterLifecycle"])
      BY <1>6, Zenon DEF GetInputs, Fail
    <2>5. /\ ~Ready(cache["ClusterStack"]) => View("ClusterStack") = 0
          /\ ~Ready(cache["ClusterLifecycle"]) => View("ClusterLifecycle") = 0
      BY DEF Ready, View
    <2>6. e # "" => e \in {"http", "dial", "call"}
      BY FaultTypes
    <2> QED BY <1>1, <2>1, <2>2, <2>3, <2>4, <2>5, <2>6, UsedInputs
            DEF ReadsAreFresh, PastStore, Unwritten
  <1>7. CASE RelocateRunImage \/ SaveBuilder \/ SignBuilder
    <2>1. /\ UNCHANGED <<copy, builderCache, cache, got, queue>>
          /\ pc \in {"relocate", "save", "sign"}
      BY <1>7, RelocateRunImageEffect, SaveBuilderEffect, SignBuilderEffect DEF WriteEffect
    <2>2. \A i \in Inputs : View(i)' = View(i)
      BY <2>1 DEF View
    <2> SUFFICES ASSUME "builder" \notin queue PROVE ReadsAreFresh'
      BY <2>1 DEF ReconcileIsFresh
    <2>3. /\ copy = builderCache /\ cache[Store].exists /\ got[Store] = View(Store)
          /\ \A i \in Used : got[i] = View(i)
      BY <2>1 DEF ReconcileIsFresh, ReadsAreFresh, PastStore
    <2>4. err = ""
      BY <2>1 DEF Created
    <2>5. \/ pc' \in {"save", "sign"}
          \/ pc' = "update" /\ err' \in {"", "http", "dial", "unmarked"}
          \/ pc' = "update" /\ err' = "buildpack not found" /\ \E i \in Used : got[i] = 0
      <3>1. CASE SaveBuilder
        BY <2>4, <3>1, SaveBuilderEffect DEF WriteEffect
      <3>2. CASE SignBuilder
        BY <2>4, <3>2, SignBuilderEffect DEF WriteEffect
      <3>3. CASE RelocateRunImage
        BY <3>3, RelocateRunImageEffect
      <3> QED BY <1>7, <3>1, <3>2, <3>3
    <2> QED BY <1>1, <2>1, <2>2, <2>3, <2>5, UsedInputs DEF ReadsAreFresh, PastStore, Unwritten
  <1>8. CASE \E i \in Inputs : InformInput(i)
    BY <1>8, InformInputIsHeard
  <1>9. ASSUME UserChange \/ UNCHANGED vars \/ \E i \in Inputs : ReconcileInput(i)
        PROVE  /\ UNCHANGED <<builderCache, cache, pc, copy, got, err>>
               /\ "builder" \in queue => "builder" \in queue'
    <2>1. CASE UserChange \/ UNCHANGED vars
      BY <2>1, UserChangeEffect DEF vars
    <2>2. ASSUME NEW i \in Inputs, ReconcileInput(i)
          PROVE  /\ UNCHANGED <<builderCache, cache, pc, copy, got, err>>
                 /\ "builder" \in queue => "builder" \in queue'
      BY <2>2, NotAnInput DEF ReconcileInput, workVars
    <2> QED BY <1>9, <2>1, <2>2
  <1>10. ASSUME Resync \/ Crash \/ UpdateStatus \/ InformBuilder
         PROVE  pc' = "idle" \/ "builder" \in queue'
    BY <1>10, UpdateStatusEffect DEF Resync, Settled, Idle, Crash, InformBuilder
  <1> QED BY <1>2, <1>3, <1>4, <1>5, <1>6, <1>7, <1>8, <1>9, <1>10, StepsOfTheBuilder

-----------------------------------------------------------------------------
(* The builder at rest. *)

LEMMA NoSuccessorBelow == \A n \in Nat : ~(n + 1 <= n)
  OBVIOUS

\* A status write that leaves the builder at rest wrote nothing: the status is there
\* already, and the error, if any, is none that is tried again or held against the key.
LEMMA RestAfterUpdate ==
    ASSUME TypeOK, CopyIsCurrent, SpecsCount, UpdateStatus, AtRest'
    PROVE  /\ builder' = builder /\ builderCache = builder /\ "builder" \notin queue
           /\ builder.status = WrittenStatus
           /\ err \notin {"http", "dial", "unmarked", "call"}
  <1>1. /\ builderCache' = builderCache /\ builderCache = builder' /\ builder'.exists
        /\ "builder" \notin queue' /\ "builder" \notin dropped' /\ queue \subseteq queue'
    BY UpdateStatusEffect, UpdateStatusQueues DEF AtRest
  <1>2. PICK lost \in Fault({"call"}) :
          LET needed  == builderCache.exists => WrittenStatus # builderCache.status
              written == /\ needed /\ builderCache.exists /\ lost = ""
                         /\ builder.exists /\ builder.version = copy.version
              error   == IF needed /\ ~written THEN "update" ELSE err
          IN  /\ builder' = IF written THEN Touch([builder EXCEPT !.status = WrittenStatus])
                                       ELSE builder
              /\ queue' = queue \cup Requeue("builder", error)
              /\ Remember("builder", error)
    BY Zenon DEF UpdateStatus, WrittenStatus
  <1> DEFINE needed  == builderCache.exists => WrittenStatus # builderCache.status
             written == /\ needed /\ builderCache.exists /\ lost = ""
                        /\ builder.exists /\ builder.version = copy.version
             error   == IF needed /\ ~written THEN "update" ELSE err
  <1>3. ~written
    <2> SUFFICES ASSUME written PROVE FALSE
      OBVIOUS
    <2>1. builder'.version = builder.version + 1
      BY <1>2, BuilderTouched, BuilderNumbers
    <2>2. builderCache.version = builder.version + 1
      BY <1>1, <2>1
    <2>3. builderCache.version <= builder.version /\ builder.version \in Nat
      BY BuilderNumbers DEF CopyIsCurrent
    <2> QED BY <2>2, <2>3, NoSuccessorBelow, Zenon
  <1>4. builder' = builder /\ Remember("builder", error) /\ queue' = queue \cup Requeue("builder", error)
    BY <1>2, <1>3
  <1>5. error \notin {"dial", "unmarked", "call", "update", "http"}
    BY <1>1, <1>4 DEF Remember, Requeue, IsNetworkError
  <1>6. ~needed /\ error = err
    BY <1>3, <1>5
  <1> HIDE DEF error
  <1> QED BY <1>1, <1>4, <1>5, <1>6

LEMMA UpdateRests ==
    ASSUME TypeOK, CopyIsCurrent, SpecsCount, Created, Leases, ReconcileIsFresh, UpdateStatus
    PROVE  RestIsCurrent'
  <1> SUFFICES ASSUME AtRest'
               PROVE  /\ builder'.status.observed = builder'.spec
                      /\ lease'[Store] > 0
                      /\ ~cache'[Store].exists => ~builder'.status.upToDate
                      /\ cache'[Store].exists =>
                          /\ \A i \in Used' : lease'[i] > 0
                          /\ (\E i \in Used' : View(i)' = 0) => ~builder'.status.upToDate
                          /\ (\A i \in Used' : View(i)' # 0) =>
                              /\ builder'.status.upToDate
                              /\ builder'.status.image.spec = builder'.spec
                              /\ \A i \in Used' : builder'.status.image.of[i] = View(i)'
    BY DEF RestIsCurrent
  <1>1. /\ builder' = builder /\ builderCache = builder /\ "builder" \notin queue
        /\ builder.status = WrittenStatus
        /\ err \notin {"http", "dial", "unmarked", "call"}
    BY RestAfterUpdate
  <1>2. UNCHANGED <<kind, cache, lease>> /\ pc = "update"
    BY UpdateStatusEffect
  <1>3. Used' = Used /\ \A i \in Inputs : View(i)' = View(i)
    BY <1>2 DEF Used, View
  <1>4. ReadsAreFresh /\ copy = builder
    BY <1>1, <1>2 DEF ReconcileIsFresh, ReadsAreFresh
  <1>5. lease[Store] > 0 /\ (err # "store not found" => \A i \in Used : lease[i] > 0)
    BY <1>2, UsedInputs DEF Leases, PastStore
  <1>6. WrittenStatus.observed = builder.spec /\ builder \in BuilderObjects
    BY <1>4, BuilderNumbers DEF WrittenStatus, BuilderRecord, ErrorCreate, BuilderObjects
  <1>7. CASE err = ""
    <2>1. WrittenStatus.upToDate /\ WrittenStatus.image = NewImage
      BY <1>7 DEF WrittenStatus, BuilderRecord
    <2>2. NewImage.spec = builder.spec /\ NewImage.of = got
      BY <1>4 DEF NewImage
    <2>3. \A i \in Used : got[i] = View(i) /\ View(i) # 0
      BY <1>2, <1>4, <1>7 DEF ReadsAreFresh, PastStore, Created
    <2>4. cache[Store].exists
      BY <1>2, <1>4, <1>7 DEF ReadsAreFresh, PastStore
    <2>5. \A i \in Used : i \in Inputs
      BY UsedInputs
    <2> QED BY <1>1, <1>2, <1>3, <1>5, <1>6, <1>7, <2>1, <2>2, <2>3, <2>4, <2>5
  <1>8. CASE err # ""
    <2>1. ~WrittenStatus.upToDate
      BY <1>8, BuilderNumbers DEF WrittenStatus, ErrorCreate, BuilderObjects
    <2>2. err \in {"store not found", "stack not ready", "lifecycle not ready", "buildpack not found"}
      BY <1>1, <1>2, <1>4, <1>8 DEF ReadsAreFresh, TypeOK, Errors
    <2>3. CASE err = "store not found"
      <3>1. ~cache[Store].exists
        BY <1>2, <1>4, <2>3 DEF ReadsAreFresh
      <3> QED BY <1>1, <1>2, <1>5, <1>6, <2>1, <3>1
    <2>4. CASE err # "store not found"
      <3>1. \E i \in Used : View(i) = 0
        BY <1>2, <1>4, <2>2, <2>4 DEF ReadsAreFresh
      <3>2. \E i \in Used' : View(i)' = 0
        BY <1>3, <3>1, UsedInputs
      <3> QED BY <1>1, <1>2, <1>3, <1>5, <1>6, <2>1, <2>4, <3>2
    <2> QED BY <2>3, <2>4
  <1> QED BY <1>7, <1>8

LEMMA InformInputRests ==
    ASSUME TypeOK, RestIsCurrent, NEW i \in Inputs, InformInput(i)
    PROVE  RestIsCurrent'
  <1> SUFFICES ASSUME AtRest' PROVE RestIsCurrent'
    BY DEF RestIsCurrent
  <1>1. UNCHANGED <<kind, builder, builderCache, pc, lease, dropped>> /\ queue \subseteq queue'
    BY DEF InformInput
  <1>2. AtRest
    BY <1>1 DEF AtRest
  <1>3. i \notin Used \/ ~(lease[i] > 0)
    BY DEF InformInput, Notified, AtRest
  <1>4. i # Store
    BY <1>2, <1>3, UsedInputs DEF RestIsCurrent
  <1>5. \A j \in Inputs : j # i => cache'[j] = cache[j]
    BY DEF InformInput, TypeOK
  <1>6. cache'[Store] = cache[Store] /\ Used' = Used
    BY <1>1, <1>4, <1>5, UsedInputs DEF Used
  <1>7. CASE ~cache[Store].exists
    BY <1>1, <1>2, <1>6, <1>7 DEF RestIsCurrent
  <1>8. CASE cache[Store].exists
    <2>1. i \notin Used
      BY <1>2, <1>3, <1>8 DEF RestIsCurrent
    <2>2. \A j \in Used : View(j)' = View(j)
      BY <2>1, <1>5, UsedInputs DEF View
    <2> QED BY <1>1, <1>2, <1>6, <1>8, <2>2 DEF RestIsCurrent
  <1> QED BY <1>7, <1>8

LEMMA RestIsCurrentStays ==
    ASSUME TypeOK, CopyIsCurrent, SpecsCount, Created, Leases, ReconcileIsFresh,
           RestIsCurrent, [Next]_vars
    PROVE  RestIsCurrent'
  <1>1. CASE /\ UNCHANGED <<kind, builder, builderCache, cache, pc, lease>>
             /\ "builder" \in queue => "builder" \in queue'
             /\ "builder" \in dropped => "builder" \in dropped'
    <2>1. Used' = Used /\ \A i \in Inputs : View(i)' = View(i)
      BY <1>1 DEF Used, View
    <2>2. AtRest' => AtRest
      BY <1>1 DEF AtRest
    <2>3. \A i \in Used : View(i)' = View(i)
      BY <2>1, UsedInputs
    <2> QED BY <1>1, <2>1, <2>2, <2>3 DEF RestIsCurrent
  <1>2. CASE ~AtRest'
    BY <1>2 DEF RestIsCurrent
  <1>3. CASE UserChange
    <2>1. CASE builder' = builder
      BY <1>1, <1>3, <2>1, UserChangeEffect
    <2>2. CASE builder' # builder
      <3>1. builder'.version = builder.version + 1 /\ builderCache' = builderCache
        BY <1>3, <2>2, UserChangeEffect, BuilderTouched, BuilderNumbers
      <3>2. builderCache' # builder'
        BY <3>1, BuilderNumbers DEF CopyIsCurrent
      <3> QED BY <1>2, <3>2 DEF AtRest
    <2> QED BY <2>1, <2>2
  <1>4. CASE InformBuilder \/ Crash \/ Resync
    <2>1. ~AtRest'
      BY <1>4 DEF InformBuilder, Crash, Resync, Settled, AtRest
    <2> QED BY <1>2, <2>1
  <1>5. CASE StartReconcile
    <2>1. ~AtRest'
      BY <1>5 DEF StartReconcile, AtRest
    <2> QED BY <1>2, <2>1
  <1>6. CASE GetStore \/ GetInputs \/ RelocateRunImage \/ SaveBuilder \/ SignBuilder
    <2>1. pc' # "idle"
      BY <1>6, RelocateRunImageEffect, SaveBuilderEffect, SignBuilderEffect
      DEF GetStore, GetInputs, Fail
    <2> QED BY <1>2, <2>1 DEF AtRest
  <1>7. CASE UpdateStatus
    BY <1>7, UpdateRests
  <1>8. CASE \E i \in Inputs : InformInput(i)
    BY <1>8, InformInputRests
  <1>9. ASSUME NEW i \in Inputs, ReconcileInput(i)
        PROVE  /\ UNCHANGED <<kind, builder, builderCache, cache, pc, lease>>
               /\ "builder" \in queue => "builder" \in queue'
               /\ "builder" \in dropped => "builder" \in dropped'
    BY <1>9, NotAnInput DEF ReconcileInput, Remember
  <1>10. CASE UNCHANGED vars
    BY <1>1, <1>10 DEF vars
  <1> QED BY <1>1, <1>3, <1>4, <1>5, <1>6, <1>7, <1>8, <1>9, <1>10, StepsOfTheBuilder

-----------------------------------------------------------------------------

LEMMA InitSInv == Init => SInv
  <1> SUFFICES ASSUME Init PROVE SInv
    OBVIOUS
  <1>1. IInv /\ TypeOK
    BY InitIInv, InitTypeOK
  <1>2. cache = obj /\ pc = "idle" /\ queue = {"builder"}
    BY DEF Init
  <1>3. \A i \in Inputs : obj[i].status.of = obj[i].spec
    <2>1. /\ InitInput.spec = InitInput.status.of
          /\ [InitInput EXCEPT !.exists = FALSE].spec = [InitInput EXCEPT !.exists = FALSE].status.of
      BY DEF InitInput
    <2> QED BY <2>1 DEF Init
  <1>4. \A i \in Inputs : cache[i].version <= obj[i].version
    <2>1. \A n \in Nat : n <= n
      OBVIOUS
    <2>2. \A i \in Inputs : obj[i].version \in Nat
      BY <1>1, InputVersionNumbers
    <2> QED BY <1>2, <2>1, <2>2
  <1>5. InputVersions /\ InputsAreRead
    BY <1>3, <1>4 DEF InputVersions, InputsAreRead
  <1>6. Leases /\ ReconcileIsFresh /\ RestIsCurrent
    BY <1>2 DEF Leases, PastStore, ReconcileIsFresh, RestIsCurrent, AtRest
  <1> QED BY <1>1, <1>5, <1>6 DEF SInv

LEMMA NextSInv == SInv /\ [Next]_vars => SInv'
  <1> SUFFICES ASSUME SInv, [Next]_vars PROVE SInv'
    OBVIOUS
  <1>1. TypeOK /\ CopyIsCurrent /\ SpecsCount /\ Created /\ IInv'
    BY NextIInv DEF SInv, IInv
  <1> QED BY <1>1, InputsAreReadStays, LeasesStay, ReconcileIsFreshStays, RestIsCurrentStays DEF SInv

LEMMA SettledFollows == SInv => SettledBuilderIsCurrent
  <1> SUFFICES ASSUME SInv, Settled, dropped = {}, builder.exists
               PROVE  /\ builder.status.observed = builder.spec
                      /\ builder.status.upToDate <=> AllRead
                      /\ AllRead => builder.status.image = WantedImage
    BY DEF SettledBuilderIsCurrent
  <1>1. TypeOK /\ ReadsGrow /\ cache = obj /\ queue = {} /\ AtRest
    BY DEF SInv, IInv, Settled, Idle, AtRest
  <1>2. \A i \in Inputs : obj[i].exists => obj[i].status.of = obj[i].spec
    BY <1>1 DEF SInv, InputsAreRead
  <1>3. AllRead <=> (cache[Store].exists /\ \A i \in Used : View(i) # 0)
    <2>1. \A i \in Used : (Ready(obj[i]) /\ obj[i].status.of = obj[i].spec) <=> View(i) # 0
      BY <1>1, <1>2, UsedInputs DEF Ready, View
    <2>2. View(Store) # 0 => cache[Store].exists
      BY DEF View
    <2> QED BY <2>1, <2>2, UsedInputs DEF AllRead
  <1>4. builder.status.observed = builder.spec
    BY <1>1 DEF SInv, RestIsCurrent
  <1>5. CASE AllRead
    <2>1. /\ builder.status.upToDate /\ builder.status.image.spec = builder.spec
          /\ \A i \in Used : builder.status.image.of[i] = View(i)
      BY <1>1, <1>3, <1>5 DEF SInv, RestIsCurrent
    <2>2. \A i \in Used : View(i) = obj[i].spec
      BY <1>1, <1>5 DEF AllRead, View, Ready
    <2>3. \A i \in Inputs : i \notin Used => builder.status.image.of[i] = 0
      BY <1>1 DEF ReadsGrow
    <2>4. builder.status.image \in Images
      BY <1>1 DEF TypeOK, BuilderObjects
    <2>5. builder.status.image.of = [i \in Inputs |-> IF i \in Used THEN obj[i].spec ELSE 0]
      BY <2>1, <2>2, <2>3, <2>4 DEF Images
    <2>6. builder.status.image = WantedImage
      BY <2>1, <2>4, <2>5 DEF Images, WantedImage
    <2> QED BY <1>4, <1>5, <2>1, <2>6
  <1>6. CASE ~AllRead
    <2>1. ~builder.status.upToDate
      BY <1>1, <1>3, <1>6 DEF SInv, RestIsCurrent
    <2> QED BY <1>4, <1>6, <2>1
  <1> QED BY <1>5, <1>6

\* No change of an input is lost on the builder: whenever everything is quiet and no
\* fault is held against a key, the status is about the newest spec, the builder is up to
\* date exactly when all its inputs can be had, and it is then made from what they hold
\* now (Track before Get, the kinds tracked, leases that outlive a resync period, the
\* version check of status updates), for any number of changes and faults.
THEOREM SettledCorrect == Spec => []SettledBuilderIsCurrent
  <1>1. Spec => []SInv
    BY InitSInv, NextSInv, PTL DEF Spec
  <1> QED BY <1>1, SettledFollows, PTL

=============================================================================
