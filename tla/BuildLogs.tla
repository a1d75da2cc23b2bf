------------------------------ MODULE BuildLogs ------------------------------
(***************************************************************************)
(* A client that waits for an update of an Image and shows the logs of the *)
(* Build it leads to (pkg/logs).  The waiter follows the events of the     *)
(* Image, then of the Build; a goroutine tails the Build's pod: it watches *)
(* the pod and hands the containers that have started, over an unbuffered  *)
(* channel, to a consumer that streams the log of each.  Around it runs    *)
(* what the client watches: the Image reconciler, the Build controller,    *)
(* the pod and its steps, and users who edit the Image once more.          *)
(***************************************************************************)
EXTENDS Integers, Sequences, FiniteSets

CONSTANTS
    NumSteps,     \* build steps of a pod
    Sidecars,     \* are the steps containers that start in any order (injected
                  \* sidecar support), not init containers that start one by one?
    MaxEdits,     \* bound on further edits of the Image
    MaxFaults     \* bound on failed updates, closed watches, failed streams, deleted pods

ASSUME LogsAssumption ==
    /\ NumSteps \in Nat \ {0} /\ Sidecars \in BOOLEAN
    /\ MaxEdits \in Nat /\ MaxFaults \in Nat

Steps == 1..NumSteps

\* The user's update makes generation 2; generation 1 is built.
Generation == 2

VARIABLES
    specs,        \* specs[g]: what generation g of the Image asks for
    img,          \* the Image: generation, status
    rec,          \* the generation the reconcile in progress read, 0 for none
    resolved,     \* generation whose source is resolved
    ready,        \* is the builder ready?
    builds,       \* the Builds, each with its pod
    wait,         \* the waiter: next step, Image events, the Build, the result
    tail,         \* the watching goroutine: next step, pod events, containers to send
    stream,       \* the consumer: "off", "recv", "log", "done", "error"
    out,          \* the steps whose logs were written, the one it streams last
    closed,       \* has a watch closed under the goroutine?
    faults

vars == <<specs, img, rec, resolved, ready, builds, wait, tail, stream, out, closed, faults>>
world  == <<specs, rec, resolved, ready>>
client == <<wait, tail, stream, out, closed>>

NoPod == [phase |-> "none", started |-> {}, ended |-> 0]

NewBuild(g) == [gen |-> g, spec |-> specs[g], status |-> "unknown", pod |-> NoPod]

Last == builds[Len(builds)]

Fault == faults < MaxFaults /\ faults' = faults + 1

-----------------------------------------------------------------------------
(* The Image reconciler, as a client sees it.  An update of the status with   *)
(* the version of an older generation is a conflict.                          *)

\* A status that is as it was is not written.
StatusWritten(i) == /\ img' = i
                    /\ wait' = [wait EXCEPT !.events = IF wait.pc = "image" /\ i # img
                                                       THEN Append(@, i) ELSE @]

ReadImage ==
    /\ rec = 0
    /\ rec' = img.gen
    /\ UNCHANGED <<specs, img, resolved, ready, builds, client, faults>>

Conflict == img.gen # rec

\* reconcileBuild creates the Build before updateStatus is called: the Build stays when
\* the update is refused, as a conflict or by an API server that fails.
WriteStatus ==
    /\ rec # 0
    /\ rec' = 0
    /\ LET ended   == Last.status # "unknown"
           needed  == Last.spec # specs[rec]
           creates == ended /\ ready /\ resolved = rec /\ needed
           cond == IF ~ended THEN "Unknown" ELSE IF ~ready THEN "False"
                   ELSE IF resolved # rec \/ needed THEN "Unknown"
                   ELSE IF Last.status = "ok" THEN "True" ELSE "False"
           observed == [img EXCEPT !.obs = rec, !.ready = cond]
           latest == [observed EXCEPT !.latest = IF Last.status = "ok" THEN Last.spec ELSE @,
                                      !.buildGen = Last.gen, !.ref = Len(builds)]
           status == IF ~ended THEN observed
                     ELSE IF creates THEN [latest EXCEPT !.buildGen = rec, !.ref = Len(builds) + 1]
                     ELSE latest
       IN  /\ builds' = IF creates THEN Append(builds, NewBuild(rec)) ELSE builds
           /\ \/ ~Conflict /\ StatusWritten(status) /\ UNCHANGED faults
              \/ Conflict /\ UNCHANGED <<img, wait, faults>>
              \/ Fault /\ UNCHANGED <<img, wait>>
    /\ UNCHANGED <<specs, resolved, ready, tail, stream, out, closed>>

ResolveSource ==
    /\ resolved # img.gen
    /\ resolved' = img.gen
    /\ UNCHANGED <<specs, img, rec, ready, builds, client, faults>>

\* Another user edits the Image.
Edit(s) ==
    /\ img.gen < Generation + MaxEdits
    /\ specs' = Append(specs, s)
    /\ StatusWritten([img EXCEPT !.gen = @ + 1])
    /\ UNCHANGED <<rec, resolved, ready, builds, tail, stream, out, closed, faults>>

-----------------------------------------------------------------------------
(* The Build controller and the pod of the last Build. *)

\* Every change of a pod is an event for the goroutine that watches it.
PodChanges(pod) ==
    /\ builds' = [builds EXCEPT ![Len(builds)].pod = pod]
    /\ tail' = [tail EXCEPT !.events = IF tail.pc \in {"watch", "send"} /\ wait.ref = Len(builds)
                                       THEN Append(@, pod) ELSE @]
    /\ UNCHANGED <<world, img, wait, stream, out, closed>>

Live == Last.pod.phase = "live"

CreatePod ==
    /\ Last.status = "unknown" /\ Last.pod.phase = "none"
    /\ PodChanges([NoPod EXCEPT !.phase = "live"])
    /\ UNCHANGED faults

\* The pod cannot be generated: the Build fails and never has one.
GenerateFails ==
    /\ Last.status = "unknown" /\ Last.pod.phase = "none"
    /\ builds' = [builds EXCEPT ![Len(builds)].status = "failed"]
    /\ UNCHANGED <<world, img, client, faults>>

StartStep(k) ==
    /\ Live /\ k \notin Last.pod.started
    /\ Sidecars \/ k = Last.pod.ended + 1
    /\ PodChanges([Last.pod EXCEPT !.started = @ \cup {k}])
    /\ UNCHANGED faults

\* Steps do their work in order, whatever order their containers start in.
EndStep ==
    /\ Live /\ Last.pod.ended + 1 \in Last.pod.started
    /\ PodChanges([Last.pod EXCEPT !.ended = @ + 1])
    /\ UNCHANGED faults

EndPod ==
    /\ Live
    /\ PodChanges([Last.pod EXCEPT
                     !.phase = IF Last.pod.ended = NumSteps THEN "Succeeded" ELSE "Failed"])
    /\ UNCHANGED faults

ReportBuild ==
    /\ Last.status = "unknown" /\ Last.pod.phase \in {"Succeeded", "Failed"}
    /\ builds' = [builds EXCEPT ![Len(builds)].status =
                    IF Last.pod.phase = "Succeeded" THEN "ok" ELSE "failed"]
    /\ UNCHANGED <<world, img, client, faults>>

\* The pod of a finished Build is deleted: watchReadyContainers ignores the event.
DeletePod ==
    /\ Fault
    /\ Last.status # "unknown" /\ Last.pod.phase \in {"Succeeded", "Failed"}
    /\ builds' = [builds EXCEPT ![Len(builds)].pod.phase = "gone"]
    /\ UNCHANGED <<world, img, client>>

-----------------------------------------------------------------------------
(* imageWaiter *)

imageUpdateHasResolved_observed(i) == i.obs = Generation
\* imageUpdateHasResolved, on one event of the Image.
imageUpdateHasResolved(i) ==
    i.obs = Generation /\ (i.ready # "Unknown" \/ i.buildGen = Generation)

Return(ok, image) == [wait EXCEPT !.pc = "done", !.result = [ok |-> ok, image |-> image]]

\* resultOfImageWait, with the generation of the Image of the event.
resultOfImageWait(i) ==
    IF i.buildGen = i.gen THEN [wait EXCEPT !.pc = "started", !.ref = i.ref, !.events = <<>>]
    ELSE IF i.ready = "False" THEN Return(FALSE, 0) ELSE Return(TRUE, i.latest)

\* Wait: the next event, the first being the Image as the caller has it.
WaitImage ==
    /\ wait.pc = "image" /\ wait.events # <<>>
    /\ LET i == Head(wait.events)
       IN  wait' = IF imageUpdateHasResolved(i) THEN resultOfImageWait(i)
                   ELSE IF i.obs > Generation THEN Return(FALSE, 0)
                   ELSE [wait EXCEPT !.events = Tail(@)]
    /\ UNCHANGED <<world, img, builds, tail, stream, out, closed, faults>>

WaitedFor == builds[wait.ref]

\* waitBuild: imageBuildStarted, then the goroutine that tails.  The watch begins with
\* the pod as it is, if there is one.
StartTail ==
    /\ wait.pc = "started"
    /\ IF WaitedFor.status = "failed"
       THEN wait' = Return(FALSE, 0) /\ UNCHANGED <<tail, stream>>
       ELSE /\ wait' = [wait EXCEPT !.pc = "build"]
            /\ tail' = [tail EXCEPT !.pc = "watch",
                          !.events = IF WaitedFor.pod.phase \in {"none", "gone"} THEN <<>>
                                     ELSE <<WaitedFor.pod>>]
            /\ stream' = "recv"
    /\ UNCHANGED <<world, img, builds, out, closed, faults>>

\* buildWatchUntil: the Build has resolved; its result is kept for the return.
WaitBuild ==
    /\ wait.pc = "build" /\ WaitedFor.status # "unknown"
    /\ wait' = [Return(WaitedFor.status = "ok", IF WaitedFor.status = "ok" THEN WaitedFor.spec ELSE 0)
                  EXCEPT !.pc = "drain"]
    /\ UNCHANGED <<world, img, builds, tail, stream, out, closed, faults>>

\* defer func() { <-doneChan }(): waitBuild returns when TailBuildName has.
Drain ==
    /\ wait.pc = "drain" /\ stream \in {"done", "error"}
    /\ wait' = [wait EXCEPT !.pc = "done"]
    /\ UNCHANGED <<world, img, builds, tail, stream, out, closed, faults>>

-----------------------------------------------------------------------------
(* BuildLogsClient.tailPods *)

\* The containers in the order of the pod's spec, up to the first step that has not
\* started.
ReadyContainers(pod) ==
    LET found == {k \in Steps : 1..k \subseteq pod.started}
    IN  [k \in 1..Cardinality(found) |-> k]

finished_succeeded(pod) == pod.phase = "Succeeded"
finished(pod) == pod.phase \in {"Succeeded", "Failed"}

HandlePodEvent_exitFirst ==
    /\ tail.pc = "watch" /\ tail.events # <<>>
    /\ LET pod == Head(tail.events)
       IN  tail' = [pc |-> IF finished(pod) THEN "done" ELSE "send", events |-> Tail(tail.events),
                    queue |-> ReadyContainers(pod), exit |-> FALSE]
    /\ UNCHANGED <<world, img, builds, wait, stream, out, closed, faults>>
\* watchReadyContainers, one event of the pod.
HandlePodEvent ==
    /\ tail.pc = "watch" /\ tail.events # <<>>
    /\ LET pod == Head(tail.events)
       IN  tail' = [pc |-> "send", events |-> Tail(tail.events),
                    queue |-> ReadyContainers(pod), exit |-> finished(pod)]
    /\ UNCHANGED <<world, img, builds, wait, stream, out, closed, faults>>

\* readyContainers <- readyContainer: the consumer takes it, and streams its log
\* unless it has done so before.
SendContainer ==
    /\ tail.pc = "send" /\ tail.queue # <<>> /\ stream = "recv"
    /\ tail' = [tail EXCEPT !.queue = Tail(@)]
    /\ LET k == Head(tail.queue)
       IN  IF \E i \in DOMAIN out : out[i] = k THEN UNCHANGED <<stream, out>>
           ELSE stream' = "log" /\ out' = Append(out, k)
    /\ UNCHANGED <<world, img, builds, wait, closed, faults>>

\* The event is dealt with: the goroutine watches on, or is done with a finished pod.
EndOfEvent ==
    /\ tail.pc = "send" /\ tail.queue = <<>>
    /\ tail' = [tail EXCEPT !.pc = IF tail.exit THEN "done" ELSE "watch"]
    /\ UNCHANGED <<world, img, builds, wait, stream, out, closed, faults>>

\* The watch's channel is closed by the API server: no error, and no more events.
WatchCloses ==
    /\ Fault
    /\ tail.pc = "watch"
    /\ tail' = [tail EXCEPT !.pc = "done"]
    /\ closed' = TRUE
    /\ UNCHANGED <<world, img, builds, wait, stream, out>>

\* streamLogsForContainer follows the log to its end.
EndOfStream ==
    /\ stream = "log"
    /\ out[Len(out)] <= WaitedFor.pod.ended \/ WaitedFor.pod.phase # "live"
    /\ stream' = "recv"
    /\ UNCHANGED <<world, img, builds, wait, tail, out, closed, faults>>

\* The stream cannot be opened or written: tailPods returns, and the goroutine, if it
\* has more to send, is left behind at its channel.
StreamFails ==
    /\ Fault
    /\ stream = "log"
    /\ stream' = "error"
    /\ UNCHANGED <<world, img, builds, wait, tail, out, closed>>

\* close(readyContainers) ends the consumer's loop.
EndOfTail ==
    /\ tail.pc = "done" /\ stream = "recv"
    /\ stream' = "done"
    /\ UNCHANGED <<world, img, builds, wait, tail, out, closed, faults>>

-----------------------------------------------------------------------------

Init ==
    /\ \E s \in {1, 2} : specs = <<1, s>>
    /\ img = [gen |-> Generation, obs |-> 1, ready |-> "True", buildGen |-> 1, ref |-> 1, latest |-> 1]
    /\ rec = 0 /\ resolved = 1 /\ ready \in BOOLEAN
    /\ builds = <<[gen |-> 1, spec |-> 1, status |-> "ok",
                   pod |-> [phase |-> "Succeeded", started |-> Steps, ended |-> NumSteps]]>>
    /\ wait = [pc |-> "image", events |-> <<img>>, ref |-> 1, result |-> [ok |-> FALSE, image |-> 0]]
    /\ tail = [pc |-> "off", events |-> <<>>, queue |-> <<>>, exit |-> FALSE]
    /\ stream = "off" /\ out = <<>> /\ closed = FALSE /\ faults = 0

PodSteps == CreatePod \/ EndStep \/ EndPod \/ ReportBuild \/ \E k \in Steps : StartStep(k)

Waiting == WaitImage \/ StartTail \/ WaitBuild \/ Drain

Tailing == HandlePodEvent \/ SendContainer \/ EndOfEvent \/ EndOfStream \/ EndOfTail

Next == \/ ReadImage \/ WriteStatus \/ ResolveSource \/ \E s \in {1, 2} : Edit(s)
        \/ PodSteps \/ GenerateFails \/ DeletePod
        \/ Waiting \/ Tailing \/ WatchCloses \/ StreamFails

Spec == Init /\ [][Next]_vars

\* The controllers reconcile, sources are resolved, pods end (they have a deadline),
\* and the client's own goroutines run; faults and edits need not happen.
Fairness == /\ WF_vars(ReadImage) /\ WF_vars(WriteStatus) /\ WF_vars(ResolveSource)
            /\ WF_vars(CreatePod) /\ WF_vars(EndPod) /\ WF_vars(ReportBuild)
            /\ WF_vars(Waiting) /\ WF_vars(Tailing)

FairSpec == Spec /\ Fairness

-----------------------------------------------------------------------------
(* Properties. *)

\* watchReadyContainers stops at the first step that has not started, and the consumer
\* remembers what it streamed: the logs are those of the steps in their order, each
\* once, although containers may start in any order and every event lists them anew.
LogsInStepOrder == \A i \in DOMAIN out : out[i] = i

\* The steps of a pod that worked: those that ended and, where the pod ended under it or
\* because of it, the one whose turn it was and whose container had started.
Worked(pod) == IF pod.ended + 1 \in pod.started THEN pod.ended + 1 ELSE pod.ended

\* watchReadyContainers sends what the last event shows before it returns: when the
\* tail ends without an error, every step that worked was streamed, the one that failed
\* too, unless the watch was closed under it.
TailIsComplete == stream = "done" /\ ~closed => Len(out) >= Worked(WaitedFor.pod)

\* The tail is what the steps wrote: in their order, each once, none that worked missing.
TailIsFaithful == LogsInStepOrder /\ TailIsComplete

\* Wait compares the Image's status with the generation it was called for, and reads
\* the generation of a later event: the image it returns is of the update waited for,
\* even when the Image is edited again meanwhile.
WaitReportsItsGeneration ==
    wait.pc = "done" /\ wait.result.ok => wait.result.image = specs[Generation]

\* Wait returns: an update ends in a resolved Image, a later generation or a Build that
\* resolves, and the goroutine that tails it ends with the pod.  The exceptions are the
\* Build that fails without a pod while it is waited for and the pod deleted before it
\* was watched: the deferred receive then waits for events that never come.
WaitReturns ==
    <>(\/ wait.pc = "done"
       \/ wait.pc = "drain" /\ WaitedFor.pod.phase \in {"none", "gone"})

=============================================================================
