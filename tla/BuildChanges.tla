---------------------------- MODULE BuildChanges ----------------------------
(***************************************************************************)
(* Why a Build is made, and whether it rebases: pkg/buildchange and the    *)
(* decision of the Image reconciler that uses it, in the detail that       *)
(* ImageController leaves out.  The last Build of an Image is compared     *)
(* with what the Image, its source and its builder ask for now; the        *)
(* reasons found are written on the next Build, and a Build whose only     *)
(* reason is STACK is not built but rebased on the image of the last       *)
(* success.                                                                *)
(*                                                                         *)
(* `last` is the object the Build informer holds.  The comparison blanks   *)
(* its Git revision in place while a worker of the Build controller may    *)
(* copy it, so the comparison is two steps.  Informer lag, names and       *)
(* numbers of Builds are those of ImageController and are left out here.   *)
(* There is no bound on the number of Builds: a loop of rebuilds would be  *)
(* a cycle of the state graph.                                             *)
(***************************************************************************)
EXTENDS Integers, Sequences, FiniteSets

CONSTANTS
    GitUrls,      \* the Git repositories among the sources
    Wants,        \* what an Image may ask for: environment, resolved source
    Builders,     \* what its builder may offer: buildpacks, stack, run, lifecycle
    Nil,          \* nil, the empty string
    MaxChanges    \* bound on edits, commits, builder changes and triggers

\* SourceConfig: a Git source, and no other, has a revision.
ASSUME InputsAssumption ==
    /\ Wants # {} /\ \A s \in Wants : (s.rev = Nil) = (s.url \notin GitUrls)
    /\ Builders # {} /\ \A b \in Builders : b.bps # {} /\ b.run # Nil
    /\ MaxChanges \in Nat

VARIABLES
    want,      \* the Image's spec.build and its resolved source
    builder,   \* the ready builder: buildpacks, stack, run image, lifecycle
    last,      \* the last Build in the informer's store, or Nil
    blank,     \* is the Git revision of that object blanked at the moment?
    held,      \* what the comparison in progress will do, or Nil
    copy,      \* the copy a worker of the Build controller made, or Nil
    pod,       \* the pod of the last Build, or Nil
    changes    \* changes by users so far

vars == <<want, builder, last, blank, held, copy, pod, changes>>

-----------------------------------------------------------------------------
(* Objects. *)

IsGit(url) == url \in GitUrls

\* An image: the environment and the source it was built from, the buildpacks that
\* took part, and the stack, run image and lifecycle its labels name.  An image
\* without a stack label is read as Unlabelled.
ImageOf(p, bps) == [env |-> p.env, url |-> p.url, rev |-> p.rev, bps |-> bps,
                    stack |-> p.builder.stack, run |-> p.builder.run, life |-> p.builder.life]

\* readBuiltImage: an image without a stack label is no error, and nothing is read.
Reported(img, labelled) ==
    IF labelled
    THEN [image |-> img, bps |-> img.bps, stack |-> img.stack, run |-> img.run, life |-> img.life]
    ELSE [image |-> Nil, bps |-> {}, stack |-> Nil, run |-> Nil, life |-> Nil]

IsSuccess(b) == b # Nil /\ b.done = "ok"
IsRunning(b) == b # Nil /\ b.done = "running"

-----------------------------------------------------------------------------
(* The changes: none, or a reason, whether a build is required, an error. *)

High == 1000
Low  == 1

Change(reason, required, priority) ==
    [reason |-> reason, required |-> required, err |-> FALSE, priority |-> priority]

triggerChange_success(b) ==
    IF IsSuccess(b) /\ b.triggered THEN {Change("TRIGGER", TRUE, High)} ELSE {}
triggerChange(b) ==
    IF b # Nil /\ b.triggered THEN {Change("TRIGGER", TRUE, High)} ELSE {}

commitChange(b, s) ==
    IF b # Nil /\ IsGit(b.url) /\ IsGit(s.url)
    THEN {Change("COMMIT", b.rev # s.rev, High)} ELSE {}

\* NewConfigChange, IsBuildRequired: the revisions are blanked on both sides; the
\* first Build is compared with an empty configuration.
configChange(b, s) ==
    {Change("CONFIG", b = Nil \/ b.env # s.env \/ b.url # s.url, High)}

buildpackChange_equal(b, bld) ==
    IF IsSuccess(b) THEN {Change("BUILDPACK", b.status.bps # bld.bps, Low)} ELSE {}
\* A buildpack that took part in the last build and is not in the builder any more.
buildpackChange(b, bld) ==
    IF IsSuccess(b)
    THEN {Change("BUILDPACK", b.status.bps \ bld.bps # {}, Low)} ELSE {}

stackChange_anyBuild(b, bld) ==
    IF b # Nil /\ b.done # "running"
    THEN {[Change("STACK", b.status.run # bld.run, Low) EXCEPT !.err = IsSuccess(b) /\ b.status.run = Nil]}
    ELSE {}
\* NewStackChange compares digests; a run image that is no reference is an error.
stackChange(b, bld) ==
    IF IsSuccess(b)
    THEN {[Change("STACK", b.status.run # bld.run, Low) EXCEPT !.err = b.status.run = Nil]}
    ELSE {}

lifecycleChange(b, bld) ==
    IF IsSuccess(b) THEN {Change("LIFECYCLE", b.status.life # bld.life, Low)} ELSE {}

\* ChangeProcessor.Process, for the changes in the order of isBuildRequired.
Processed(l, s, bld) ==
    <<triggerChange(l), commitChange(l, s), configChange(l, s), buildpackChange(l, bld),
      stackChange(l, bld), lifecycleChange(l, bld)>>

AnyError(cs) == \E i \in DOMAIN cs : \E c \in cs[i] : c.err

\* reasonsStr: the reasons of the changes that require a build, in order.
reasonOf(change) ==
    LET required == { c \in change : c.required /\ ~c.err }
    IN  IF required = {} THEN <<>> ELSE <<(CHOOSE c \in required : TRUE).reason>>

Reasons(cs) ==
    reasonOf(cs[1]) \o (reasonOf(cs[2]) \o (reasonOf(cs[3]) \o
        (reasonOf(cs[4]) \o (reasonOf(cs[5]) \o reasonOf(cs[6])))))

\* priority: the highest of them.
PriorityOf(cs) ==
    LET ps == {0} \cup { c.priority : c \in UNION { {d \in cs[i] : d.required} : i \in DOMAIN cs } }
    IN  CHOOSE p \in ps : \A q \in ps : p >= q

-----------------------------------------------------------------------------
(* The Image reconciler. *)

Compares_running(b) == TRUE
\* reconcileImage goes on to reconcileBuild unless the last Build is running.
Compares(b) == ~IsRunning(b)

\* lastBuild(latestBuild): a failed Build hands on what it started from.
lastBuild(b) ==
    CASE b = Nil -> Nil
      [] b # Nil /\ b.done = "failed" -> b.lastBuild
      [] OTHER -> IF IsSuccess(b) THEN [image |-> b.status.image, stack |-> b.status.stack]
                                  ELSE [image |-> Nil, stack |-> Nil]

\* Image.Build: the annotation holds the reasons joined by commas.
NewBuild(l, s, bld) ==
    [env |-> s.env, url |-> s.url, rev |-> s.rev, builder |-> bld,
     reasons |-> Reasons(Processed(l, s, bld)), priority |-> PriorityOf(Processed(l, s, bld)),
     lastBuild |-> lastBuild(l),
     triggered |-> FALSE, done |-> "running", status |-> Nil, image |-> Nil]

\* isBuildRequired and Summarize on what the listers show: a Build, or none when there
\* is an error or no reason.
Required(l, s, bld) ==
    LET cs == Processed(l, s, bld)
    IN  IF AnyError(cs) \/ Reasons(cs) = <<>> THEN Nil ELSE NewBuild(l, s, bld)

\* reconcileBuild, up to the middle of configChange.IsBuildRequired: the revision of
\* the Build of the lister is blanked.
StartCompare ==
    /\ held = Nil
    /\ Compares(last)
    /\ held' = [build |-> Required(last, want, builder)]
    /\ blank' = (last # Nil /\ IsGit(last.url))
    /\ UNCHANGED <<want, builder, last, copy, pod, changes>>

\* The rest of it: the revision is put back and the Build, if any, created.
Decide ==
    /\ held # Nil
    /\ blank' = FALSE
    /\ held' = Nil
    /\ \/ held.build = Nil /\ UNCHANGED <<last, copy, pod>>
       \/ held.build # Nil /\ last' = held.build /\ pod' = Nil /\ copy' = Nil
    /\ UNCHANGED <<want, builder, changes>>

-----------------------------------------------------------------------------
(* The Build controller. *)

\* Build.Reconcile: the object of the lister is copied, as it is at the moment.
CopyBuild ==
    /\ last # Nil
    /\ copy = Nil
    /\ copy' = [last EXCEPT !.rev = IF blank THEN Nil ELSE @]
    /\ UNCHANGED <<want, builder, last, blank, held, pod, changes>>

\* Build.rebasable
rebasable(b) == b.lastBuild # Nil /\ b.reasons = <<"STACK">> /\ b.lastBuild.stack = b.builder.stack

\* reconcile: a finished Build is left alone; the pod of another one is generated once.
ReconcileCopy ==
    /\ copy # Nil
    /\ copy' = Nil
    /\ IF copy.done # "running" \/ pod # Nil
       THEN UNCHANGED pod
       ELSE pod' = [env |-> copy.env, url |-> copy.url, rev |-> copy.rev,
                    builder |-> copy.builder, rebase |-> rebasable(copy)]
    /\ UNCHANGED <<want, builder, last, blank, held, changes>>

\* What the pod leaves: a build from source with the buildpacks that detect chose, or
\* the last image on another run image, its labels otherwise as they were.
Images ==
    IF pod.rebase
    THEN {[last.lastBuild.image EXCEPT !.run = pod.builder.run]}
    ELSE { ImageOf(pod, bps) : bps \in (SUBSET pod.builder.bps) \ {{}} }

\* The pod ends and the Build controller reports it, in an object that replaces the
\* one of the informer.
FinishBuild ==
    /\ IsRunning(last) /\ pod # Nil
    /\ \/ last' = [last EXCEPT !.done = "failed", !.status = Reported(Nil, FALSE)]
       \/ \E img \in Images, labelled \in BOOLEAN :
            last' = [last EXCEPT !.done = "ok", !.image = img,
                                 !.status = Reported(img, labelled)]
    /\ blank' = FALSE
    /\ UNCHANGED <<want, builder, held, copy, pod, changes>>

-----------------------------------------------------------------------------
(* Users. *)

User == changes < MaxChanges /\ changes' = changes + 1

Edit(s) ==
    /\ User /\ s # want /\ want' = s
    /\ UNCHANGED <<builder, last, blank, held, copy, pod>>

UpdateBuilder(b) ==
    /\ User /\ b # builder /\ builder' = b
    /\ UNCHANGED <<want, last, blank, held, copy, pod>>

\* The annotated object replaces the one the informer had.
Trigger ==
    /\ User /\ last # Nil /\ ~last.triggered
    /\ last' = [last EXCEPT !.triggered = TRUE]
    /\ blank' = FALSE
    /\ UNCHANGED <<want, builder, held, copy, pod>>

-----------------------------------------------------------------------------

Init ==
    /\ want \in Wants /\ builder \in Builders
    /\ last = Nil /\ blank = FALSE /\ held = Nil /\ copy = Nil /\ pod = Nil
    /\ changes = 0

Next == \/ StartCompare \/ Decide \/ CopyBuild \/ ReconcileCopy \/ FinishBuild \/ Trigger
        \/ \E s \in Wants : Edit(s)
        \/ \E b \in Builders : UpdateBuilder(b)

Spec == Init /\ [][Next]_vars

\* Both controllers work off their queues, and pods end (a Build has a deadline).
Fairness == WF_vars(StartCompare) /\ WF_vars(Decide) /\ WF_vars(CopyBuild)
            /\ WF_vars(ReconcileCopy) /\ WF_vars(FinishBuild)

FairSpec == Spec /\ Fairness

-----------------------------------------------------------------------------
(* Properties. *)

\* configChange.IsBuildRequired blanks the revision on the object that the Build
\* controller's workers copy: no pod is ever generated from the blanked copy, because
\* only a Build that is not running is compared and only one that is running gets a pod.
PodsHaveTheirRevision ==
    pod # Nil => pod.rev = last.rev /\ pod.url = last.url /\ pod.env = last.env

\* Build.rebasable and lastBuild(latestBuild): a Build that succeeded left an image of
\* the environment and source its own spec names, built or rebased, whatever failed,
\* was edited or was triggered before it.
ImageIsOfItsSpec ==
    IsSuccess(last) => last.image.env = last.env /\ last.image.url = last.url
                       /\ last.image.rev = last.rev

\* What the docs mean by up to date, said of the image and not of the comparison.
UpToDate ==
    /\ last.image.env = want.env /\ last.image.url = want.url /\ last.image.rev = want.rev
    /\ last.image.bps \subseteq builder.bps
    /\ last.image.run = builder.run /\ last.image.life = builder.life

\* isBuildRequired converges: once the inputs stay as they are, builds stop, and the
\* last one failed, or left an image that is up to date, or one without a stack label,
\* whose empty status makes every later comparison an error.
EventuallyUpToDate ==
    <>[](/\ last # Nil /\ ~IsRunning(last)
         /\ last.done = "failed" \/ last.status.run = Nil \/ UpToDate)

\* triggerChange: whoever annotates a Build, at whatever moment of whatever
\* comparison, gets another Build, unless the last image is unreadable.
TriggersAreServed ==
    last # Nil /\ last.triggered
      ~> last # Nil /\ (~last.triggered \/ (IsSuccess(last) /\ last.status.run = Nil))

=============================================================================
