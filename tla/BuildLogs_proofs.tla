--------------------------- MODULE BuildLogs_proofs ---------------------------
(***************************************************************************)
(* The client that waits for an Image and tails its Build, for any number  *)
(* of steps, further edits and faults: the image it reports is of the      *)
(* generation it waits for, and the logs are those of the steps, in their  *)
(* order and complete.                                                     *)
(***************************************************************************)
EXTENDS BuildLogs, SequenceTheorems, FiniteSetTheorems, TLAPS

-----------------------------------------------------------------------------
(* Types. *)

PodObjects == [phase : {"none", "live", "Succeeded", "Failed", "gone"},
               started : SUBSET Steps, ended : 0 .. NumSteps]

BuildObjects == [gen : Nat, spec : {1, 2}, status : {"unknown", "ok", "failed"},
                 pod : PodObjects]

ImageObjects == [gen : Nat, obs : Nat, ready : {"True", "False", "Unknown"},
                 buildGen : Nat, ref : Nat, latest : {1, 2}]

Results == [ok : BOOLEAN, image : {0, 1, 2}]

Waits == [pc : {"image", "started", "build", "drain", "done"},
          events : Seq(ImageObjects), ref : Nat, result : Results]

-----------------------------------------------------------------------------
(* The invariant of the waiter. *)

\* An Image as some event shows it, given the Builds bs and the specs ss: what its status
\* names is a Build of the generation it says, no later than the one observed; a Ready
\* Image has the image of the spec observed.
ImageFits(i, bs, ss) ==
    /\ i \in ImageObjects
    /\ i.ref \in 1 .. Len(bs) /\ bs[i.ref].gen = i.buildGen
    /\ 1 <= i.obs /\ i.buildGen <= i.obs /\ i.obs <= i.gen /\ i.gen <= Len(ss)
    /\ i.ready = "True" => i.latest = ss[i.obs]

\* An event that ends the wait with the answer for the generation waited for: the Build of
\* that very generation, or an Image that is not Unknown.
Answer(i) == imageUpdateHasResolved(i) /\ (i.ready # "Unknown" \/ i.buildGen = i.gen)

BuildsFit(bs, ss, top) ==
    \A n \in 1 .. Len(bs) : /\ 1 <= bs[n].gen /\ bs[n].gen <= top
                            /\ bs[n].spec = ss[bs[n].gen]

\* No Build is of a later generation than the one a reconcile in progress read, or the next
\* one will: one created without a status to tell may be later than the one observed.
ReadGen == IF rec = 0 THEN img.gen ELSE rec

\* Nothing resolved is queued without an answer in front of it.
Answered(events, i) ==
    /\ \A k \in 1 .. Len(events) :
          imageUpdateHasResolved(events[k]) => \E j \in 1 .. k : Answer(events[j])
    /\ imageUpdateHasResolved(i) => \E j \in 1 .. Len(events) : Answer(events[j])

EventsFit(events, bs, ss) == \A k \in 1 .. Len(events) : ImageFits(events[k], bs, ss)

WorldOK ==
    /\ specs \in Seq({1, 2}) /\ Len(specs) = img.gen /\ 2 <= img.gen
    /\ rec \in Nat /\ rec <= img.gen
    /\ builds \in Seq(BuildObjects) /\ builds # <<>>
    /\ ImageFits(img, builds, specs) /\ BuildsFit(builds, specs, ReadGen)

WaitOK ==
    /\ wait \in Waits /\ wait.ref \in 1 .. Len(builds)
    /\ wait.pc = "image" => EventsFit(wait.events, builds, specs) /\ Answered(wait.events, img)
    /\ wait.pc \in {"started", "build"} => builds[wait.ref].spec = specs[Generation]
    /\ wait.pc \in {"drain", "done"} /\ wait.result.ok => wait.result.image = specs[Generation]

WInv == WorldOK /\ WaitOK

-----------------------------------------------------------------------------
(* Builds and specs only grow. *)

\* Builds are added, and those there are keep their generation and spec.
Grows(bs, cs) ==
    /\ Len(bs) <= Len(cs)
    /\ \A n \in 1 .. Len(bs) : cs[n].gen = bs[n].gen /\ cs[n].spec = bs[n].spec

LEMMA FitsMore ==
    ASSUME NEW i, NEW bs, NEW cs, NEW ss \in Seq({1, 2}), NEW tt \in Seq({1, 2}),
           Len(bs) \in Nat, Len(cs) \in Nat, ImageFits(i, bs, ss), Grows(bs, cs), Len(ss) <= Len(tt),
           \A g \in 1 .. Len(ss) : tt[g] = ss[g]
    PROVE  ImageFits(i, cs, tt)
  <1>1. /\ i \in ImageObjects /\ i.ref \in 1 .. Len(bs) /\ bs[i.ref].gen = i.buildGen
        /\ 1 <= i.obs /\ i.buildGen <= i.obs /\ i.obs <= i.gen /\ i.gen <= Len(ss)
        /\ i.ready = "True" => i.latest = ss[i.obs]
    BY DEF ImageFits
  <1>2. i.ref \in 1 .. Len(cs) /\ cs[i.ref].gen = i.buildGen
    BY <1>1 DEF Grows
  <1>3. i.obs \in Nat /\ i.gen \in Nat /\ Len(ss) \in Nat /\ Len(tt) \in Nat
    BY <1>1, LenProperties DEF ImageObjects
  <1>4. i.gen <= Len(tt) /\ i.obs \in 1 .. Len(ss)
    BY <1>1, <1>3
  <1>5. tt[i.obs] = ss[i.obs]
    BY <1>4
  <1> QED BY <1>1, <1>2, <1>4, <1>5 DEF ImageFits

LEMMA BuildsFitMore ==
    ASSUME NEW bs, NEW cs, NEW ss \in Seq({1, 2}), NEW tt \in Seq({1, 2}), NEW top \in Nat,
           NEW more \in Nat, bs \in Seq(BuildObjects), cs \in Seq(BuildObjects),
           Len(cs) = Len(bs), BuildsFit(bs, ss, top), Grows(bs, cs),
           top <= more, top <= Len(ss), Len(ss) <= Len(tt), \A g \in 1 .. Len(ss) : tt[g] = ss[g]
    PROVE  BuildsFit(cs, tt, more)
  <1> SUFFICES ASSUME NEW n \in 1 .. Len(cs)
               PROVE  1 <= cs[n].gen /\ cs[n].gen <= more /\ cs[n].spec = tt[cs[n].gen]
    BY DEF BuildsFit
  <1>1. /\ cs[n].gen = bs[n].gen /\ cs[n].spec = bs[n].spec /\ 1 <= bs[n].gen /\ bs[n].gen <= top
        /\ bs[n].spec = ss[bs[n].gen]
    BY DEF BuildsFit, Grows
  <1>2. bs[n] \in BuildObjects
    BY LenProperties
  <1>3. bs[n].gen \in Nat /\ Len(ss) \in Nat
    BY <1>2, LenProperties DEF BuildObjects
  <1>4. bs[n].gen \in 1 .. Len(ss) /\ bs[n].gen <= more
    BY <1>1, <1>3
  <1> QED BY <1>1, <1>4

\* The last Build gets another pod or status.
LEMMA LastChanged ==
    ASSUME builds \in Seq(BuildObjects), builds # <<>>, NEW b \in BuildObjects,
           b.gen = Last.gen, b.spec = Last.spec,
           builds' = [builds EXCEPT ![Len(builds)] = b]
    PROVE  /\ builds' \in Seq(BuildObjects) /\ builds' # <<>> /\ Len(builds') = Len(builds)
           /\ Grows(builds, builds')
           /\ \A n \in 1 .. Len(builds) : n # Len(builds) => builds'[n] = builds[n]
           /\ builds'[Len(builds)] = b
  <1>1. Len(builds) \in Nat \ {0} /\ Len(builds) \in 1 .. Len(builds)
    <2>1. Len(builds) \in Nat \ {0}
      BY EmptySeq
    <2> QED BY <2>1
  <1>2. /\ builds' \in Seq(BuildObjects) /\ Len(builds') = Len(builds)
        /\ \A j \in 1 .. Len(builds) : builds'[j] = IF j = Len(builds) THEN b ELSE builds[j]
    BY <1>1, ExceptSeq
  <1>3. builds' # <<>>
    BY <1>1, <1>2, EmptySeq
  <1>4. Grows(builds, builds')
    <2>1. Len(builds) <= Len(builds')
      BY <1>1, <1>2
    <2>2. \A n \in 1 .. Len(builds) :
             builds'[n].gen = builds[n].gen /\ builds'[n].spec = builds[n].spec
      BY <1>2 DEF Last
    <2> QED BY <2>1, <2>2 DEF Grows
  <1> QED BY <1>1, <1>2, <1>3, <1>4

LEMMA LastType ==
    ASSUME builds \in Seq(BuildObjects), builds # <<>>
    PROVE  /\ Last \in BuildObjects /\ Len(builds) \in Nat \ {0}
           /\ Last.gen \in Nat /\ Last.spec \in {1, 2} /\ Last.pod \in PodObjects
  <1>1. Len(builds) \in Nat \ {0} /\ builds \in [1 .. Len(builds) -> BuildObjects]
    BY EmptySeq, LenProperties
  <1>2. Last \in BuildObjects
    BY <1>1 DEF Last
  <1> QED BY <1>1, <1>2 DEF BuildObjects

\* A step that changes the pod or the status of the last Build, and not what is waited for.
LEMMA BuildStep ==
    ASSUME WInv, NEW b \in BuildObjects, b.gen = Last.gen, b.spec = Last.spec,
           builds' = [builds EXCEPT ![Len(builds)] = b], UNCHANGED <<specs, img, rec, wait>>
    PROVE  WInv'
  <1>1. /\ builds \in Seq(BuildObjects) /\ builds # <<>> /\ specs \in Seq({1, 2})
        /\ ImageFits(img, builds, specs) /\ BuildsFit(builds, specs, ReadGen)
        /\ Len(specs) = img.gen
    BY DEF WInv, WorldOK
  <1>2. /\ builds' \in Seq(BuildObjects) /\ builds' # <<>> /\ Len(builds') = Len(builds)
        /\ Grows(builds, builds')
    BY <1>1, LastChanged
  <1>3. Len(builds) \in Nat /\ Len(builds') \in Nat /\ Len(specs) \in Nat /\ ReadGen \in Nat
        /\ ReadGen <= Len(specs)
    <2>1. img.gen \in Nat /\ rec \in Nat /\ rec <= img.gen
      BY DEF WInv, WorldOK, ImageFits, ImageObjects
    <2> QED BY <1>1, <1>2, <2>1, LenProperties DEF ReadGen
  <1>4. \A i : ImageFits(i, builds, specs) => ImageFits(i, builds', specs')
    BY <1>1, <1>2, <1>3, FitsMore
  <1>5. BuildsFit(builds', specs, ReadGen)
    <2>1. Len(specs) <= Len(specs) /\ ReadGen <= ReadGen
      BY <1>3
    <2> QED BY <1>1, <1>2, <1>3, <2>1, BuildsFitMore
  <1>6. WorldOK'
    BY <1>1, <1>2, <1>4, <1>5 DEF WInv, WorldOK, ReadGen
  <1>7. WaitOK'
    <2>1. wait'.ref \in 1 .. Len(builds') /\ wait' \in Waits
      BY <1>2 DEF WInv, WaitOK
    <2>2. wait'.pc = "image" => EventsFit(wait'.events, builds', specs') /\ Answered(wait'.events, img')
      BY <1>4 DEF WInv, WaitOK, EventsFit
    <2>3. wait'.pc \in {"started", "build"} => builds'[wait'.ref].spec = specs'[Generation]
      BY <1>2 DEF WInv, WaitOK, Grows
    <2>4. wait'.pc \in {"drain", "done"} /\ wait'.result.ok => wait'.result.image = specs'[Generation]
      BY DEF WInv, WaitOK
    <2> QED BY <2>1, <2>2, <2>3, <2>4 DEF WaitOK
  <1> QED BY <1>6, <1>7 DEF WInv

-----------------------------------------------------------------------------
(* Events of the Image. *)

\* Another event is queued: it has an answer in front of it.
LEMMA AnotherEvent ==
    ASSUME NEW events \in Seq(ImageObjects), NEW now, NEW i \in ImageObjects,
           Answered(events, now),
           imageUpdateHasResolved(i) => Answer(i) \/ imageUpdateHasResolved(now)
    PROVE  Answered(Append(events, i), i)
  <1> DEFINE more == Append(events, i)
  <1>1. /\ Len(events) \in Nat /\ Len(more) = Len(events) + 1 /\ more[Len(events) + 1] = i
        /\ \A k \in 1 .. Len(events) : more[k] = events[k]
    BY LenProperties, AppendProperties
  <1> HIDE DEF more
  <1>2. imageUpdateHasResolved(i) => \E j \in 1 .. Len(more) : Answer(more[j])
    <2>1. CASE Answer(i)
      <3>1. Len(more) \in 1 .. Len(more) /\ Answer(more[Len(more)])
        BY <1>1, <2>1
      <3> QED BY <3>1
    <2>2. CASE imageUpdateHasResolved(now)
      <3>1. PICK j \in 1 .. Len(events) : Answer(events[j])
        BY <2>2 DEF Answered
      <3>2. j \in 1 .. Len(more) /\ Answer(more[j])
        BY <1>1, <3>1
      <3> QED BY <3>2
    <2> QED BY <2>1, <2>2
  <1>3. ASSUME NEW k \in 1 .. Len(more), imageUpdateHasResolved(more[k])
        PROVE  \E j \in 1 .. k : Answer(more[j])
    <2>1. CASE k \in 1 .. Len(events)
      <3>1. PICK j \in 1 .. k : Answer(events[j])
        BY <1>1, <1>3, <2>1 DEF Answered
      <3>2. j \in 1 .. Len(events)
        BY <1>1, <2>1
      <3> QED BY <1>1, <3>1, <3>2
    <2>2. CASE k = Len(more)
      BY <1>1, <1>2, <1>3, <2>2
    <2> QED BY <1>1, <2>1, <2>2
  <1> QED BY <1>2, <1>3 DEF Answered, more

\* An event that resolves nothing is taken from the queue.
LEMMA NextEvent ==
    ASSUME NEW events \in Seq(ImageObjects), events # <<>>, NEW now, Answered(events, now),
           ~imageUpdateHasResolved(Head(events))
    PROVE  Answered(Tail(events), now)
  <1> DEFINE rest == Tail(events)
  <1>1. /\ Len(events) \in Nat \ {0} /\ Len(rest) = Len(events) - 1
        /\ \A k \in 1 .. Len(rest) : rest[k] = events[k + 1]
    BY EmptySeq, HeadTailProperties
  <1>2. Head(events) = events[1]
    OBVIOUS
  <1> HIDE DEF rest
  <1>3. ~Answer(events[1])
    BY <1>2 DEF Answer
  <1>4. ASSUME NEW k \in 1 .. Len(events), NEW j \in 1 .. k, Answer(events[j])
        PROVE  \E m \in 1 .. k - 1 : Answer(rest[m])
    <2>1. j # 1 /\ j \in Nat /\ k \in Nat
      BY <1>3, <1>4
    <2>2. j - 1 \in 1 .. k - 1 /\ j - 1 \in 1 .. Len(rest) /\ (j - 1) + 1 = j
      BY <1>1, <2>1
    <2>3. rest[j - 1] = events[j]
      BY <1>1, <2>2
    <2> QED BY <1>4, <2>2, <2>3
  <1>5. ASSUME NEW k \in 1 .. Len(rest), imageUpdateHasResolved(rest[k])
        PROVE  \E j \in 1 .. k : Answer(rest[j])
    <2>1. k + 1 \in 1 .. Len(events) /\ rest[k] = events[k + 1] /\ (k + 1) - 1 = k
      BY <1>1
    <2>2. PICK j \in 1 .. k + 1 : Answer(events[j])
      BY <1>5, <2>1 DEF Answered
    <2> QED BY <1>4, <2>1, <2>2
  <1>6. imageUpdateHasResolved(now) => \E j \in 1 .. Len(rest) : Answer(rest[j])
    <2>1. SUFFICES ASSUME imageUpdateHasResolved(now)
                   PROVE  \E j \in 1 .. Len(rest) : Answer(rest[j])
      OBVIOUS
    <2>2. PICK j \in 1 .. Len(events) : Answer(events[j])
      BY <2>1 DEF Answered
    <2>3. Len(events) \in 1 .. Len(events) /\ Len(events) - 1 = Len(rest)
      BY <1>1
    <2> QED BY <1>4, <2>2, <2>3
  <1> QED BY <1>5, <1>6 DEF Answered, rest

\* A write of the Image: its status, or its spec.
LEMMA ImageWritten ==
    ASSUME WInv, NEW i, StatusWritten(i),
           builds' \in Seq(BuildObjects), builds' # <<>>, Grows(builds, builds'),
           specs' \in Seq({1, 2}), Len(specs) <= Len(specs'),
           \A g \in 1 .. Len(specs) : specs'[g] = specs[g],
           ImageFits(i, builds', specs'), BuildsFit(builds', specs', IF rec' = 0 THEN i.gen ELSE rec'),
           Len(specs') = i.gen, 2 <= i.gen, rec' \in Nat, rec' <= i.gen,
           imageUpdateHasResolved(i) => Answer(i) \/ imageUpdateHasResolved(img)
    PROVE  WInv'
  <1>1. /\ img' = i
        /\ wait' = [wait EXCEPT !.events = IF wait.pc = "image" /\ i # img
                                           THEN Append(wait.events, i) ELSE wait.events]
    BY DEF StatusWritten
  <1>2. WorldOK'
    BY <1>1 DEF WorldOK, ReadGen
  <1>3. /\ wait \in Waits /\ wait.events \in Seq(ImageObjects) /\ wait.ref \in 1 .. Len(builds)
        /\ specs \in Seq({1, 2}) /\ builds \in Seq(BuildObjects) /\ Len(specs) = img.gen
        /\ 2 <= img.gen /\ img.gen \in Nat
    BY DEF WInv, WaitOK, WorldOK, Waits, ImageFits, ImageObjects
  <1>4. i \in ImageObjects
    BY DEF ImageFits
  <1>5. /\ Len(builds) \in Nat /\ Len(builds') \in Nat /\ Len(builds) <= Len(builds')
    BY <1>3, LenProperties DEF Grows
  <1>6. /\ Append(wait.events, i) \in Seq(ImageObjects)
    BY <1>3, <1>4, AppendProperties
  <1>7. /\ wait' \in Waits /\ wait'.pc = wait.pc /\ wait'.ref = wait.ref
        /\ wait'.result = wait.result
        /\ wait'.events = IF wait.pc = "image" /\ i # img THEN Append(wait.events, i) ELSE wait.events
    BY <1>1, <1>3, <1>6 DEF Waits
  <1>8. wait'.ref \in 1 .. Len(builds')
    BY <1>3, <1>5, <1>7
  <1>9. specs'[Generation] = specs[Generation]
    <2>1. Generation \in 1 .. Len(specs)
      BY <1>3 DEF Generation
    <2> QED BY <2>1
  <1>10. ASSUME wait.pc = "image"
         PROVE  EventsFit(wait'.events, builds', specs') /\ Answered(wait'.events, img')
    <2>1. \A k \in 1 .. Len(wait.events) : ImageFits(wait.events[k], builds', specs')
      <3>1. \A k \in 1 .. Len(wait.events) : ImageFits(wait.events[k], builds, specs)
        BY <1>10 DEF WInv, WaitOK, EventsFit
      <3> QED BY <1>3, <1>5, <3>1, FitsMore
    <2>2. Answered(wait.events, img)
      BY <1>10 DEF WInv, WaitOK
    <2>3. CASE i = img
      BY <1>1, <1>7, <2>1, <2>2, <2>3 DEF EventsFit
    <2>4. CASE i # img
      <3>1. wait'.events = Append(wait.events, i)
        BY <1>7, <1>10, <2>4
      <3>2. Answered(Append(wait.events, i), i)
        BY <1>3, <1>4, <2>2, AnotherEvent
      <3>3. EventsFit(Append(wait.events, i), builds', specs')
        <4>1. /\ Len(wait.events) \in Nat /\ Len(Append(wait.events, i)) = Len(wait.events) + 1
              /\ Append(wait.events, i)[Len(wait.events) + 1] = i
              /\ \A k \in 1 .. Len(wait.events) : Append(wait.events, i)[k] = wait.events[k]
          BY <1>3, <1>4, LenProperties, AppendProperties
        <4> QED BY <2>1, <4>1 DEF EventsFit
      <3> QED BY <1>1, <3>1, <3>2, <3>3
    <2> QED BY <2>3, <2>4
  <1>11. wait'.pc \in {"started", "build"} => builds'[wait'.ref].spec = specs'[Generation]
    BY <1>3, <1>7, <1>9 DEF WInv, WaitOK, Grows
  <1>12. wait'.pc \in {"drain", "done"} /\ wait'.result.ok => wait'.result.image = specs'[Generation]
    BY <1>7, <1>9 DEF WInv, WaitOK
  <1>13. WaitOK'
    BY <1>7, <1>8, <1>10, <1>11, <1>12 DEF WaitOK
  <1> QED BY <1>2, <1>13 DEF WInv

-----------------------------------------------------------------------------
(* The steps of the Image reconciler and of users. *)

\* The status that WriteStatus writes: the generation observed, and the last Build.
ObservedImage(cond) == [img EXCEPT !.obs = rec, !.ready = cond]

LatestImage(i) == [i EXCEPT !.latest = IF Last.status = "ok" THEN Last.spec ELSE @,
                            !.buildGen = Last.gen, !.ref = Len(builds)]

LEMMA ObservedFields ==
    ASSUME img \in ImageObjects, rec \in Nat, NEW cond \in {"True", "False", "Unknown"}
    PROVE  LET i == ObservedImage(cond)
           IN  /\ i \in ImageObjects /\ i.gen = img.gen /\ i.obs = rec /\ i.ready = cond
               /\ i.buildGen = img.buildGen /\ i.ref = img.ref /\ i.latest = img.latest
  BY DEF ObservedImage, ImageObjects

LEMMA LatestFields ==
    ASSUME NEW i \in ImageObjects, builds \in Seq(BuildObjects), builds # <<>>
    PROVE  LET l == LatestImage(i)
           IN  /\ l \in ImageObjects /\ l.gen = i.gen /\ l.obs = i.obs /\ l.ready = i.ready
               /\ l.buildGen = Last.gen /\ l.ref = Len(builds)
               /\ l.latest = IF Last.status = "ok" THEN Last.spec ELSE i.latest
  <1>1. Last.gen \in Nat /\ Last.spec \in {1, 2} /\ Len(builds) \in Nat
    BY LastType
  <1> QED BY <1>1 DEF LatestImage, ImageObjects

\* A status written for the generation the Image has: when it resolves, it answers.
LEMMA ObservedAnswers ==
    ASSUME NEW i, i.obs = i.gen
    PROVE  imageUpdateHasResolved(i) => Answer(i)
  BY DEF imageUpdateHasResolved, Answer

\* With or without a new Build, of the generation read: no Build is later than the Image.
LEMMA BuildsAfter ==
    ASSUME WInv, rec # 0, UNCHANGED builds \/ builds' = Append(builds, NewBuild(rec))
    PROVE  /\ builds' \in Seq(BuildObjects) /\ builds' # <<>> /\ Grows(builds, builds')
           /\ BuildsFit(builds', specs, img.gen)
  <1>1. /\ builds \in Seq(BuildObjects) /\ builds # <<>> /\ BuildsFit(builds, specs, rec)
        /\ specs \in Seq({1, 2}) /\ Len(specs) = img.gen /\ rec \in Nat /\ rec <= img.gen
        /\ img.gen \in Nat
    BY DEF WInv, WorldOK, ReadGen, ImageFits, ImageObjects
  <1>2. Len(builds) \in Nat \ {0} /\ Len(specs) \in Nat
    BY <1>1, LastType, LenProperties
  <1>3. CASE UNCHANGED builds
    <2>1. Grows(builds, builds')
      BY <1>2, <1>3 DEF Grows
    <2>2. rec <= Len(specs) /\ Len(specs) <= Len(specs) /\ \A g \in 1 .. Len(specs) : specs[g] = specs[g]
      BY <1>1, <1>2
    <2>3. BuildsFit(builds', specs, img.gen)
      BY <1>1, <1>3, <2>1, <2>2, BuildsFitMore
    <2> QED BY <1>1, <1>3, <2>1, <2>3
  <1>4. CASE builds' = Append(builds, NewBuild(rec))
    <2> DEFINE b == NewBuild(rec)
    <2>1. b \in BuildObjects /\ b.gen = rec /\ b.spec = specs[rec]
      <3>1. rec \in 1 .. Len(specs) /\ specs[rec] \in {1, 2}
        BY <1>1, <1>2, LenProperties
      <3>2. NoPod \in PodObjects
        BY LogsAssumption DEF NoPod, PodObjects
      <3> QED BY <1>1, <3>1, <3>2 DEF NewBuild, BuildObjects
    <2>2. builds' = Append(builds, b)
      BY <1>4
    <2> HIDE DEF b
    <2>3. /\ builds' \in Seq(BuildObjects) /\ builds' # <<>> /\ Len(builds') = Len(builds) + 1
          /\ builds'[Len(builds) + 1] = b
          /\ \A n \in 1 .. Len(builds) : builds'[n] = builds[n]
      BY <1>1, <2>1, <2>2, AppendProperties
    <2>4. Grows(builds, builds')
      BY <1>2, <2>3 DEF Grows
    <2>5. ASSUME NEW n \in 1 .. Len(builds')
          PROVE  /\ 1 <= builds'[n].gen /\ builds'[n].gen <= img.gen
                 /\ builds'[n].spec = specs[builds'[n].gen]
      <3>1. CASE n = Len(builds) + 1
        BY <1>1, <2>1, <2>3, <3>1
      <3>2. CASE n \in 1 .. Len(builds)
        <4>1. 1 <= builds[n].gen /\ builds[n].gen <= rec /\ builds[n].spec = specs[builds[n].gen]
          BY <1>1, <3>2 DEF BuildsFit
        <4>2. builds[n] \in BuildObjects
          BY <1>1, <3>2, LenProperties
        <4>3. builds[n].gen \in Nat
          BY <4>2 DEF BuildObjects
        <4> QED BY <1>1, <2>3, <3>2, <4>1, <4>3
      <3> QED BY <1>2, <2>3, <3>1, <3>2
    <2> QED BY <2>3, <2>4, <2>5 DEF BuildsFit
  <1> QED BY <1>3, <1>4

LEMMA WriteStep == WInv /\ WriteStatus => WInv'
  <1> SUFFICES ASSUME WInv, WriteStatus PROVE WInv'
    OBVIOUS
  <1>1. /\ specs \in Seq({1, 2}) /\ Len(specs) = img.gen /\ 2 <= img.gen
        /\ builds \in Seq(BuildObjects) /\ builds # <<>> /\ img \in ImageObjects
        /\ ImageFits(img, builds, specs) /\ BuildsFit(builds, specs, ReadGen) /\ rec \in Nat
    BY DEF WInv, WorldOK, ImageFits
  <1>2. rec # 0 /\ rec' = 0 /\ specs' = specs
    BY DEF WriteStatus
  <1>3. /\ Last.gen \in Nat /\ Last.spec \in {1, 2} /\ Len(builds) \in Nat \ {0} /\ Len(specs) \in Nat
        /\ Last \in BuildObjects
    BY <1>1, LastType, LenProperties
  <1>4. /\ img.gen \in Nat /\ img.obs \in Nat /\ img.buildGen \in Nat /\ img.ref \in 1 .. Len(builds)
        /\ 1 <= img.obs /\ img.buildGen <= img.obs /\ img.obs <= img.gen
        /\ builds[img.ref].gen = img.buildGen
    BY <1>1 DEF ImageFits, ImageObjects
  <1>5. /\ 1 <= Last.gen /\ Last.gen <= rec /\ Last.spec = specs[Last.gen]
        /\ rec <= img.gen /\ BuildsFit(builds, specs, rec)
    <2>1. Len(builds) \in 1 .. Len(builds) /\ ReadGen = rec
      BY <1>2, <1>3 DEF ReadGen
    <2> QED BY <1>1, <2>1 DEF BuildsFit, Last, WInv, WorldOK
  <1>6. \/ UNCHANGED <<img, wait>> /\ (UNCHANGED builds \/ builds' = Append(builds, NewBuild(rec)))
        \/ /\ rec = img.gen
           /\ \/ StatusWritten(ObservedImage("Unknown")) /\ UNCHANGED builds
              \/ StatusWritten(LatestImage(ObservedImage("False"))) /\ UNCHANGED builds
              \/ StatusWritten(LatestImage(ObservedImage("Unknown"))) /\ UNCHANGED builds
              \/ /\ Last.spec = specs[rec] /\ Last.status = "ok"
                 /\ StatusWritten(LatestImage(ObservedImage("True"))) /\ UNCHANGED builds
              \/ /\ builds' = Append(builds, NewBuild(rec))
                 /\ StatusWritten([LatestImage(ObservedImage("Unknown")) EXCEPT
                                     !.buildGen = rec, !.ref = Len(builds) + 1])
    BY DEF WriteStatus, Conflict, ObservedImage, LatestImage
  <1>7. \A g \in 1 .. Len(specs) : specs'[g] = specs[g]
    BY <1>2
  <1>8. CASE UNCHANGED <<img, wait>> /\ (UNCHANGED builds \/ builds' = Append(builds, NewBuild(rec)))
    <2>1. /\ builds' \in Seq(BuildObjects) /\ builds' # <<>> /\ Grows(builds, builds')
          /\ BuildsFit(builds', specs, img.gen)
      BY <1>1, <1>2, <1>8, BuildsAfter
    <2>2. StatusWritten(img)
      <3>1. wait = [wait EXCEPT !.events = wait.events]
        BY DEF WInv, WaitOK, Waits
      <3> QED BY <1>8, <3>1 DEF StatusWritten
    <2>3. ImageFits(img, builds', specs')
      <3>1. Len(builds') \in Nat /\ Len(specs) <= Len(specs)
        BY <1>3, <2>1, LenProperties
      <3> QED BY <1>1, <1>2, <1>3, <1>7, <2>1, <3>1, FitsMore
    <2>4. /\ Len(specs) <= Len(specs') /\ Len(specs') = img.gen /\ rec' \in Nat /\ rec' <= img.gen
      BY <1>1, <1>2, <1>3, <1>4
    <2> QED BY <1>1, <1>2, <1>7, <2>1, <2>2, <2>3, <2>4, ImageWritten
  <1>9. ASSUME rec = img.gen, UNCHANGED builds, NEW i \in ImageObjects, StatusWritten(i),
               i.gen = img.gen, i.obs = rec,
               \/ i.buildGen = img.buildGen /\ i.ref = img.ref
               \/ i.buildGen = Last.gen /\ i.ref = Len(builds),
               i.ready = "True" => i.latest = specs[rec]
        PROVE  WInv'
    <2>1. i.ref \in 1 .. Len(builds) /\ builds[i.ref].gen = i.buildGen /\ i.buildGen <= rec
          /\ i.buildGen \in Nat
      BY <1>3, <1>4, <1>5, <1>9 DEF Last
    <2>2. 1 <= i.obs /\ i.buildGen <= i.obs /\ i.obs <= i.gen /\ i.gen <= Len(specs) /\ i.obs \in Nat
      BY <1>1, <1>3, <1>4, <1>9, <2>1
    <2>3. ImageFits(i, builds', specs')
      BY <1>2, <1>9, <2>1, <2>2 DEF ImageFits
    <2>4. Grows(builds, builds')
      BY <1>3, <1>9 DEF Grows
    <2>5. BuildsFit(builds', specs', i.gen)
      BY <1>1, <1>2, <1>9, BuildsAfter
    <2>6. imageUpdateHasResolved(i) => Answer(i)
      BY <1>9, ObservedAnswers
    <2>7. /\ Len(specs) <= Len(specs') /\ Len(specs') = i.gen /\ 2 <= i.gen /\ rec' \in Nat
          /\ rec' <= i.gen
      BY <1>1, <1>2, <1>3, <1>4, <1>9
    <2> QED BY <1>1, <1>2, <1>7, <1>9, <2>3, <2>4, <2>5, <2>6, <2>7, ImageWritten
  <1>10. CASE rec = img.gen /\ StatusWritten(ObservedImage("Unknown")) /\ UNCHANGED builds
    <2> DEFINE i == ObservedImage("Unknown")
    <2>1. /\ i \in ImageObjects /\ i.gen = img.gen /\ i.obs = rec /\ i.ready = "Unknown"
          /\ i.buildGen = img.buildGen /\ i.ref = img.ref
      BY <1>1, ObservedFields
    <2> HIDE DEF i
    <2>2. StatusWritten(i) /\ i.ready # "True"
      BY <1>10, <2>1 DEF i
    <2> QED BY <1>9, <1>10, <2>1, <2>2
  <1>11. ASSUME rec = img.gen, UNCHANGED builds, NEW cond \in {"True", "False", "Unknown"},
                cond = "True" => Last.spec = specs[rec] /\ Last.status = "ok",
                StatusWritten(LatestImage(ObservedImage(cond)))
         PROVE  WInv'
    <2> DEFINE i == LatestImage(ObservedImage(cond))
    <2>1. /\ ObservedImage(cond) \in ImageObjects /\ ObservedImage(cond).gen = img.gen
          /\ ObservedImage(cond).obs = rec /\ ObservedImage(cond).ready = cond
      BY <1>1, ObservedFields
    <2>2. /\ i \in ImageObjects /\ i.gen = img.gen /\ i.obs = rec /\ i.ready = cond
          /\ i.buildGen = Last.gen /\ i.ref = Len(builds)
          /\ Last.status = "ok" => i.latest = Last.spec
      BY <1>1, <2>1, LatestFields
    <2> HIDE DEF i
    <2>3. StatusWritten(i) /\ (i.ready = "True" => i.latest = specs[rec])
      BY <1>11, <2>2 DEF i
    <2> QED BY <1>9, <1>11, <2>2, <2>3
  <1>12. CASE /\ rec = img.gen /\ builds' = Append(builds, NewBuild(rec))
              /\ StatusWritten([LatestImage(ObservedImage("Unknown")) EXCEPT
                                  !.buildGen = rec, !.ref = Len(builds) + 1])
    <2> DEFINE l == LatestImage(ObservedImage("Unknown"))
               i == [l EXCEPT !.buildGen = rec, !.ref = Len(builds) + 1]
               b == NewBuild(rec)
    <2>1. /\ ObservedImage("Unknown") \in ImageObjects /\ ObservedImage("Unknown").gen = img.gen
          /\ ObservedImage("Unknown").obs = rec /\ ObservedImage("Unknown").ready = "Unknown"
      BY <1>1, ObservedFields
    <2>2. l \in ImageObjects /\ l.gen = img.gen /\ l.obs = rec /\ l.ready = "Unknown"
      BY <1>1, <2>1, LatestFields
    <2>3. StatusWritten(i)
      BY <1>12
    <2> HIDE DEF l
    <2>4. /\ i \in ImageObjects /\ i.gen = img.gen /\ i.obs = rec /\ i.ready = "Unknown"
          /\ i.buildGen = rec /\ i.ref = Len(builds) + 1
      <3>1. Len(builds) + 1 \in Nat /\ rec \in Nat
        BY <1>1, <1>3
      <3> QED BY <2>2, <3>1 DEF ImageObjects
    <2> HIDE DEF i
    <2>5. b \in BuildObjects /\ b.gen = rec /\ b.spec = specs[rec]
      <3>1. rec \in 1 .. Len(specs) /\ specs[rec] \in {1, 2}
        BY <1>1, <1>2, <1>3, <1>12, LenProperties
      <3>2. NoPod \in PodObjects
        BY LogsAssumption DEF NoPod, PodObjects
      <3> QED BY <1>1, <3>1, <3>2 DEF NewBuild, BuildObjects
    <2>6. builds' = Append(builds, b)
      BY <1>12
    <2> HIDE DEF b
    <2>7. /\ builds' \in Seq(BuildObjects) /\ builds' # <<>> /\ Len(builds') = Len(builds) + 1
          /\ builds'[Len(builds) + 1] = b
          /\ \A n \in 1 .. Len(builds) : builds'[n] = builds[n]
      BY <1>1, <2>5, <2>6, AppendProperties
    <2>8. Grows(builds, builds')
      BY <1>3, <2>7 DEF Grows
    <2>9. /\ 1 <= i.obs /\ i.buildGen <= i.obs /\ i.obs <= i.gen /\ i.gen <= Len(specs)
          /\ i.ref \in 1 .. Len(builds')
      BY <1>1, <1>2, <1>3, <1>4, <1>12, <2>4, <2>7
    <2>10. ImageFits(i, builds', specs')
      BY <1>2, <2>4, <2>5, <2>7, <2>9 DEF ImageFits
    <2>11. BuildsFit(builds', specs', i.gen)
      BY <1>1, <1>2, <1>12, <2>4, BuildsAfter
    <2>12. imageUpdateHasResolved(i) => Answer(i)
      BY <1>12, <2>4, ObservedAnswers
    <2>13. /\ Len(specs) <= Len(specs') /\ Len(specs') = i.gen /\ 2 <= i.gen /\ rec' \in Nat
           /\ rec' <= i.gen
      BY <1>1, <1>2, <1>3, <1>4, <2>4
    <2> QED BY <1>1, <1>2, <1>7, <2>3, <2>7, <2>8, <2>10, <2>11, <2>12, <2>13, ImageWritten
  <1> QED BY <1>6, <1>8, <1>10, <1>11, <1>12

LEMMA EditStep ==
    ASSUME WInv, NEW s \in {1, 2}, Edit(s)
    PROVE  WInv'
  <1>1. /\ specs \in Seq({1, 2}) /\ Len(specs) = img.gen /\ 2 <= img.gen /\ rec <= img.gen
        /\ builds \in Seq(BuildObjects) /\ builds # <<>> /\ img \in ImageObjects
        /\ ImageFits(img, builds, specs) /\ BuildsFit(builds, specs, ReadGen) /\ rec \in Nat
    BY DEF WInv, WorldOK, ImageFits
  <1> DEFINE i == [img EXCEPT !.gen = @ + 1]
  <1>2. /\ i \in ImageObjects /\ i.gen = img.gen + 1 /\ i.obs = img.obs /\ i.ready = img.ready
        /\ i.buildGen = img.buildGen /\ i.ref = img.ref /\ i.latest = img.latest
    <2>1. img.gen \in Nat
      BY <1>1 DEF ImageObjects
    <2>2. img.gen + 1 \in Nat
      BY <2>1
    <2> QED BY <1>1, <2>2 DEF ImageObjects
  <1>3. StatusWritten(i) /\ specs' = Append(specs, s) /\ UNCHANGED <<rec, builds>>
    BY DEF Edit
  <1> HIDE DEF i
  <1>4. /\ specs' \in Seq({1, 2}) /\ Len(specs') = Len(specs) + 1
        /\ \A g \in 1 .. Len(specs) : specs'[g] = specs[g]
    BY <1>1, <1>3, AppendProperties
  <1>5. Len(builds) \in Nat /\ Len(specs) \in Nat /\ img.gen \in Nat /\ img.obs \in Nat
    BY <1>1, LenProperties DEF ImageObjects
  <1>6. Grows(builds, builds')
    BY <1>3, <1>5 DEF Grows
  <1>7. ImageFits(img, builds', specs')
    <2>1. Len(specs) <= Len(specs') /\ Len(builds') \in Nat
      BY <1>3, <1>4, <1>5
    <2> QED BY <1>1, <1>4, <1>5, <1>6, <2>1, FitsMore
  <1>8. ImageFits(i, builds', specs')
    <2>1. i.obs <= i.gen /\ i.gen <= Len(specs')
      BY <1>1, <1>2, <1>4, <1>5 DEF ImageFits
    <2> QED BY <1>2, <1>7, <2>1 DEF ImageFits
  <1>9. BuildsFit(builds', specs', IF rec' = 0 THEN i.gen ELSE rec')
    <2> DEFINE more == IF rec' = 0 THEN i.gen ELSE rec'
    <2>1. /\ ReadGen \in Nat /\ more \in Nat /\ ReadGen <= more /\ ReadGen <= Len(specs)
          /\ Len(specs) <= Len(specs')
      BY <1>1, <1>2, <1>3, <1>4, <1>5 DEF ReadGen
    <2> HIDE DEF more
    <2>2. BuildsFit(builds', specs', more)
      BY <1>1, <1>3, <1>4, <1>6, <2>1, BuildsFitMore
    <2> QED BY <2>2 DEF more
  <1>10. imageUpdateHasResolved(i) => imageUpdateHasResolved(img)
    BY <1>2 DEF imageUpdateHasResolved
  <1>11. /\ Len(specs) <= Len(specs') /\ Len(specs') = i.gen /\ 2 <= i.gen /\ rec' \in Nat
         /\ rec' <= i.gen
    BY <1>1, <1>2, <1>3, <1>4, <1>5
  <1> QED BY <1>1, <1>3, <1>4, <1>6, <1>8, <1>9, <1>10, <1>11, ImageWritten

-----------------------------------------------------------------------------
(* The steps of the waiter. *)

\* The first event in the queue, when it resolves, answers.
LEMMA HeadAnswers ==
    ASSUME NEW events \in Seq(ImageObjects), events # <<>>, NEW now, Answered(events, now),
           imageUpdateHasResolved(Head(events))
    PROVE  Answer(Head(events))
  <1>1. Head(events) = events[1] /\ Len(events) \in Nat \ {0}
    BY EmptySeq
  <1>2. 1 \in 1 .. Len(events) /\ \A j \in 1 .. 1 : j = 1
    BY <1>1
  <1> QED BY <1>1, <1>2 DEF Answered

LEMMA ReturnFields ==
    ASSUME wait \in Waits, NEW ok \in BOOLEAN, NEW image \in {0, 1, 2}
    PROVE  /\ Return(ok, image) \in Waits /\ Return(ok, image).pc = "done"
           /\ Return(ok, image).ref = wait.ref
           /\ Return(ok, image).result = [ok |-> ok, image |-> image]
           /\ Return(ok, image).result.ok = ok /\ Return(ok, image).result.image = image
  <1>1. [ok |-> ok, image |-> image] \in Results
    BY DEF Results
  <1> QED BY <1>1 DEF Return, Waits

\* The world the waiter watches is left alone.
LEMMA WorldKept ==
    ASSUME WInv, UNCHANGED <<specs, img, rec, builds>>
    PROVE  WorldOK'
  BY DEF WInv, WorldOK, ReadGen

\* A return that is no success, or with the image of the generation.
LEMMA Returned ==
    ASSUME WInv, UNCHANGED <<specs, img, rec, builds>>, NEW ok \in BOOLEAN, NEW image \in {0, 1, 2},
           wait' = Return(ok, image), ok => image = specs[Generation]
    PROVE  WInv'
  <1>1. wait \in Waits /\ wait.ref \in 1 .. Len(builds)
    BY DEF WInv, WaitOK
  <1>2. /\ wait' \in Waits /\ wait'.pc = "done" /\ wait'.ref = wait.ref
        /\ wait'.result.ok = ok /\ wait'.result.image = image
    BY <1>1, ReturnFields
  <1>3. WaitOK'
    BY <1>1, <1>2 DEF WaitOK
  <1> QED BY <1>3, WorldKept DEF WInv

LEMMA WaitImageStep == WInv /\ WaitImage => WInv'
  <1> SUFFICES ASSUME WInv, WaitImage PROVE WInv'
    OBVIOUS
  <1> DEFINE i == Head(wait.events)
  <1>1. /\ wait.pc = "image" /\ wait.events # <<>> /\ UNCHANGED <<specs, img, rec, builds>>
        /\ wait' = IF imageUpdateHasResolved(i) THEN resultOfImageWait(i)
                   ELSE IF i.obs > Generation THEN Return(FALSE, 0)
                   ELSE [wait EXCEPT !.events = Tail(wait.events)]
    BY DEF WaitImage, world
  <1>2. /\ wait \in Waits /\ wait.events \in Seq(ImageObjects) /\ wait.ref \in 1 .. Len(builds)
        /\ EventsFit(wait.events, builds, specs) /\ Answered(wait.events, img)
        /\ specs \in Seq({1, 2}) /\ builds \in Seq(BuildObjects)
        /\ BuildsFit(builds, specs, ReadGen)
    BY <1>1 DEF WInv, WorldOK, WaitOK, Waits
  <1>3. Len(wait.events) \in Nat \ {0} /\ i = wait.events[1]
    BY <1>1, <1>2, EmptySeq
  <1>4. ImageFits(i, builds, specs)
    BY <1>2, <1>3 DEF EventsFit
  <1> HIDE DEF i
  <1>5. /\ i \in ImageObjects /\ i.ref \in 1 .. Len(builds) /\ builds[i.ref].gen = i.buildGen
        /\ i.buildGen <= i.obs /\ i.obs <= i.gen /\ (i.ready = "True" => i.latest = specs[i.obs])
        /\ i.obs \in Nat /\ i.gen \in Nat /\ i.buildGen \in Nat /\ i.latest \in {1, 2}
        /\ i.ready \in {"True", "False", "Unknown"} /\ i.ref \in Nat
    BY <1>4 DEF ImageFits, ImageObjects
  <1>6. CASE imageUpdateHasResolved(i)
    <2>1. wait' = resultOfImageWait(i)
      BY <1>1, <1>6
    <2>2. Answer(i) /\ i.obs = Generation
      BY <1>1, <1>2, <1>6, HeadAnswers DEF i, imageUpdateHasResolved
    <2>3. CASE i.buildGen = i.gen
      <3>1. wait' = [wait EXCEPT !.pc = "started", !.ref = i.ref, !.events = <<>>]
        BY <2>1, <2>3 DEF resultOfImageWait
      <3>2. <<>> \in Seq(ImageObjects)
        OBVIOUS
      <3>3. wait' \in Waits /\ wait'.pc = "started" /\ wait'.ref = i.ref
        BY <1>2, <1>5, <3>1, <3>2 DEF Waits
      <3>4. i.buildGen = Generation
        BY <1>5, <2>2, <2>3
      <3>5. builds[i.ref].spec = specs[Generation]
        BY <1>2, <1>5, <3>4 DEF BuildsFit
      <3>6. WaitOK'
        BY <1>1, <1>5, <3>3, <3>5 DEF WaitOK
      <3> QED BY <1>1, <3>6, WorldKept DEF WInv
    <2>4. CASE i.buildGen # i.gen /\ i.ready = "False"
      <3>1. wait' = Return(FALSE, 0)
        BY <2>1, <2>4 DEF resultOfImageWait
      <3> QED BY <1>1, <3>1, Returned
    <2>5. CASE i.buildGen # i.gen /\ i.ready # "False"
      <3>1. wait' = Return(TRUE, i.latest)
        BY <2>1, <2>5 DEF resultOfImageWait
      <3>2. i.ready = "True"
        BY <1>5, <2>2, <2>5 DEF Answer
      <3>3. i.latest = specs[Generation]
        BY <1>5, <2>2, <3>2
      <3> QED BY <1>1, <1>5, <3>1, <3>3, Returned
    <2> QED BY <2>3, <2>4, <2>5
  <1>7. CASE ~imageUpdateHasResolved(i) /\ i.obs > Generation
    <2>1. wait' = Return(FALSE, 0)
      BY <1>1, <1>7
    <2> QED BY <1>1, <2>1, Returned
  <1>8. CASE ~imageUpdateHasResolved(i) /\ ~(i.obs > Generation)
    <2>1. wait' = [wait EXCEPT !.events = Tail(wait.events)]
      BY <1>1, <1>8
    <2>2. /\ Tail(wait.events) \in Seq(ImageObjects) /\ Len(Tail(wait.events)) = Len(wait.events) - 1
          /\ \A k \in 1 .. Len(Tail(wait.events)) : Tail(wait.events)[k] = wait.events[k + 1]
      BY <1>1, <1>2, HeadTailProperties
    <2>3. /\ wait' \in Waits /\ wait'.pc = "image" /\ wait'.ref = wait.ref
          /\ wait'.events = Tail(wait.events)
      BY <1>1, <1>2, <2>1, <2>2 DEF Waits
    <2>4. Answered(Tail(wait.events), img)
      BY <1>1, <1>2, <1>8, NextEvent DEF i
    <2>5. EventsFit(Tail(wait.events), builds, specs)
      <3>1. \A k \in 1 .. Len(Tail(wait.events)) : k + 1 \in 1 .. Len(wait.events)
        BY <1>3, <2>2
      <3>2. \A k \in 1 .. Len(wait.events) : ImageFits(wait.events[k], builds, specs)
        BY <1>2 DEF EventsFit
      <3> QED BY <2>2, <3>1, <3>2 DEF EventsFit
    <2>6. WaitOK'
      BY <1>1, <1>2, <2>3, <2>4, <2>5 DEF WaitOK
    <2> QED BY <1>1, <2>6, WorldKept DEF WInv
  <1> QED BY <1>6, <1>7, <1>8

LEMMA StartTailStep == WInv /\ StartTail => WInv'
  <1> SUFFICES ASSUME WInv, StartTail PROVE WInv'
    OBVIOUS
  <1>1. wait.pc = "started" /\ UNCHANGED <<specs, img, rec, builds>>
    BY DEF StartTail, world
  <1>2. CASE wait' = Return(FALSE, 0)
    BY <1>1, <1>2, Returned
  <1>3. CASE wait' = [wait EXCEPT !.pc = "build"]
    <2>1. /\ wait \in Waits /\ wait.ref \in 1 .. Len(builds)
          /\ builds[wait.ref].spec = specs[Generation]
      BY <1>1 DEF WInv, WaitOK
    <2>2. wait' \in Waits /\ wait'.pc = "build" /\ wait'.ref = wait.ref
      BY <1>3, <2>1 DEF Waits
    <2>3. WaitOK'
      BY <1>1, <2>1, <2>2 DEF WaitOK
    <2> QED BY <1>1, <2>3, WorldKept DEF WInv
  <1> QED BY <1>2, <1>3 DEF StartTail

LEMMA WaitBuildStep == WInv /\ WaitBuild => WInv'
  <1> SUFFICES ASSUME WInv, WaitBuild PROVE WInv'
    OBVIOUS
  <1> DEFINE ok    == WaitedFor.status = "ok"
             image == IF WaitedFor.status = "ok" THEN WaitedFor.spec ELSE 0
  <1>1. /\ wait.pc = "build" /\ UNCHANGED <<specs, img, rec, builds>>
        /\ wait' = [Return(ok, image) EXCEPT !.pc = "drain"]
    BY DEF WaitBuild, world
  <1>2. /\ wait \in Waits /\ wait.ref \in 1 .. Len(builds) /\ builds \in Seq(BuildObjects)
        /\ WaitedFor.spec = specs[Generation]
    BY <1>1 DEF WInv, WaitOK, WorldOK, WaitedFor
  <1>3. WaitedFor \in BuildObjects
    BY <1>2, LenProperties DEF WaitedFor
  <1>4. ok \in BOOLEAN /\ image \in {0, 1, 2} /\ (ok => image = specs[Generation])
    BY <1>2, <1>3 DEF BuildObjects
  <1> HIDE DEF ok, image
  <1>5. /\ Return(ok, image) \in Waits /\ Return(ok, image).ref = wait.ref
        /\ Return(ok, image).result.ok = ok /\ Return(ok, image).result.image = image
    BY <1>2, <1>4, ReturnFields
  <1>6. /\ wait' \in Waits /\ wait'.pc = "drain" /\ wait'.ref = wait.ref
        /\ wait'.result.ok = ok /\ wait'.result.image = image
    BY <1>1, <1>5 DEF Waits
  <1>7. WaitOK'
    BY <1>1, <1>2, <1>4, <1>6 DEF WaitOK
  <1> QED BY <1>1, <1>7, WorldKept DEF WInv

LEMMA DrainStep == WInv /\ Drain => WInv'
  <1> SUFFICES ASSUME WInv, Drain PROVE WInv'
    OBVIOUS
  <1>1. /\ wait.pc = "drain" /\ UNCHANGED <<specs, img, rec, builds>>
        /\ wait' = [wait EXCEPT !.pc = "done"]
    BY DEF Drain, world
  <1>2. /\ wait \in Waits /\ wait.ref \in 1 .. Len(builds)
        /\ wait.result.ok => wait.result.image = specs[Generation]
    BY <1>1 DEF WInv, WaitOK
  <1>3. wait' \in Waits /\ wait'.pc = "done" /\ wait'.ref = wait.ref /\ wait'.result = wait.result
    BY <1>1, <1>2 DEF Waits
  <1>4. WaitOK'
    BY <1>1, <1>2, <1>3 DEF WaitOK
  <1> QED BY <1>1, <1>4, WorldKept DEF WInv

-----------------------------------------------------------------------------
(* The steps of the Build controller and of the pod. *)

\* The last Build after a change of its pod, or of its status.
LEMMA LastFields ==
    ASSUME builds \in Seq(BuildObjects), builds # <<>>,
           NEW pod \in PodObjects, NEW status \in {"unknown", "ok", "failed"}
    PROVE  /\ [Last EXCEPT !.pod = pod] \in BuildObjects
           /\ [Last EXCEPT !.pod = pod].gen = Last.gen /\ [Last EXCEPT !.pod = pod].spec = Last.spec
           /\ [Last EXCEPT !.pod = pod].pod = pod
           /\ [Last EXCEPT !.status = status] \in BuildObjects
           /\ [Last EXCEPT !.status = status].gen = Last.gen
           /\ [Last EXCEPT !.status = status].spec = Last.spec
           /\ [Last EXCEPT !.status = status].pod = Last.pod
  <1>1. Last \in BuildObjects
    BY LastType
  <1> QED BY <1>1 DEF BuildObjects

\* The pod gets one more step, or another phase; a pod that is over keeps its steps.
PodMoves(old, new) ==
    /\ new \in PodObjects
    /\ 1 .. old.ended \subseteq old.started => 1 .. new.ended \subseteq new.started
    /\ old.phase \in {"Succeeded", "Failed", "gone"} =>
         /\ new.phase \in {"Succeeded", "Failed", "gone"}
         /\ new.ended = old.ended /\ new.started = old.started

\* Steps that change nothing but the last Build, and what follows the pod.
LastMoves(pod) ==
    /\ UNCHANGED <<specs, img, rec, wait, stream, out, closed>>
    /\ \E b \in BuildObjects : /\ builds' = [builds EXCEPT ![Len(builds)] = b]
                               /\ b.gen = Last.gen /\ b.spec = Last.spec /\ b.pod = pod
    /\ PodMoves(Last.pod, pod)

\* PodChanges is such a step, with an event for the tail.
LEMMA PodChangesMoves ==
    ASSUME builds \in Seq(BuildObjects), builds # <<>>, NEW pod, PodChanges(pod),
           PodMoves(Last.pod, pod)
    PROVE  /\ LastMoves(pod)
           /\ tail' = [tail EXCEPT !.events = IF tail.pc \in {"watch", "send"} /\ wait.ref = Len(builds)
                                              THEN Append(tail.events, pod) ELSE tail.events]
  <1> DEFINE b == [Last EXCEPT !.pod = pod]
  <1>1. pod \in PodObjects
    BY DEF PodMoves
  <1>2. b \in BuildObjects /\ b.gen = Last.gen /\ b.spec = Last.spec /\ b.pod = pod
    BY <1>1, LastFields
  <1>3. builds' = [builds EXCEPT ![Len(builds)] = b]
    BY DEF PodChanges, Last
  <1> HIDE DEF b
  <1>4. UNCHANGED <<specs, img, rec, wait, stream, out, closed>>
    BY DEF PodChanges, world
  <1>5. LastMoves(pod)
    BY <1>2, <1>3, <1>4 DEF LastMoves
  <1> QED BY <1>5 DEF PodChanges

\* Every step of the Build controller and the pod moves the last Build; the pod's own steps
\* are only taken by one that is not over, and the others do not touch the tail.
LEMMA PodStepsMove ==
    ASSUME WInv, PodSteps \/ GenerateFails \/ DeletePod
    PROVE  \E pod : /\ LastMoves(pod)
                    /\ \/ /\ Last.pod.phase \in {"none", "live"}
                          /\ tail' = [tail EXCEPT !.events =
                                        IF tail.pc \in {"watch", "send"} /\ wait.ref = Len(builds)
                                        THEN Append(tail.events, pod) ELSE tail.events]
                       \/ UNCHANGED tail
  <1>1. /\ builds \in Seq(BuildObjects) /\ builds # <<>> /\ Len(builds) \in Nat \ {0}
        /\ Last \in BuildObjects /\ Last.pod \in PodObjects /\ NumSteps \in Nat \ {0}
    BY LastType, LogsAssumption DEF WInv, WorldOK
  <1>2. CASE CreatePod
    <2> DEFINE pod == [NoPod EXCEPT !.phase = "live"]
    <2>1. pod \in PodObjects /\ pod.ended = 0
      BY <1>1 DEF PodObjects, NoPod
    <2>2. Last.pod.phase = "none" /\ PodChanges(pod)
      BY <1>2 DEF CreatePod
    <2> HIDE DEF pod
    <2>3. PodMoves(Last.pod, pod)
      BY <2>1, <2>2 DEF PodMoves
    <2> QED BY <1>1, <2>2, <2>3, PodChangesMoves
  <1>3. ASSUME NEW k \in Steps, StartStep(k)
        PROVE  \E pod : /\ LastMoves(pod)
                        /\ Last.pod.phase \in {"none", "live"}
                        /\ tail' = [tail EXCEPT !.events =
                                      IF tail.pc \in {"watch", "send"} /\ wait.ref = Len(builds)
                                      THEN Append(tail.events, pod) ELSE tail.events]
    <2> DEFINE pod == [Last.pod EXCEPT !.started = @ \cup {k}]
    <2>1. Last.pod.phase = "live" /\ PodChanges(pod)
      BY <1>3 DEF StartStep, Live
    <2>2. pod \in PodObjects /\ pod.ended = Last.pod.ended /\ Last.pod.started \subseteq pod.started
      BY <1>1 DEF PodObjects
    <2> HIDE DEF pod
    <2>3. PodMoves(Last.pod, pod)
      BY <2>1, <2>2 DEF PodMoves
    <2> QED BY <1>1, <2>1, <2>3, PodChangesMoves
  <1>4. CASE EndStep
    <2> DEFINE pod == [Last.pod EXCEPT !.ended = @ + 1]
    <2>1. /\ Last.pod.phase = "live" /\ PodChanges(pod)
          /\ Last.pod.ended + 1 \in Last.pod.started
      BY <1>4 DEF EndStep, Live
    <2>2. Last.pod.ended \in Nat /\ Last.pod.started \subseteq 1 .. NumSteps
      BY <1>1 DEF PodObjects, Steps
    <2>3. Last.pod.ended + 1 \in 0 .. NumSteps
      BY <1>1, <2>1, <2>2
    <2>4. pod \in PodObjects /\ pod.ended = Last.pod.ended + 1 /\ pod.started = Last.pod.started
      BY <1>1, <2>3 DEF PodObjects
    <2> HIDE DEF pod
    <2>5. 1 .. Last.pod.ended \subseteq Last.pod.started => 1 .. pod.ended \subseteq pod.started
      BY <2>1, <2>2, <2>4
    <2>6. PodMoves(Last.pod, pod)
      BY <2>1, <2>4, <2>5 DEF PodMoves
    <2> QED BY <1>1, <2>1, <2>6, PodChangesMoves
  <1>5. CASE EndPod
    <2> DEFINE phase == IF Last.pod.ended = NumSteps THEN "Succeeded" ELSE "Failed"
               pod   == [Last.pod EXCEPT !.phase = phase]
    <2>1. Last.pod.phase = "live" /\ PodChanges(pod) /\ phase \in {"Succeeded", "Failed"}
      BY <1>5 DEF EndPod, Live
    <2> HIDE DEF phase
    <2>2. pod \in PodObjects /\ pod.ended = Last.pod.ended /\ pod.started = Last.pod.started
      BY <1>1, <2>1 DEF PodObjects
    <2> HIDE DEF pod
    <2>3. PodMoves(Last.pod, pod)
      BY <2>1, <2>2 DEF PodMoves
    <2> QED BY <1>1, <2>1, <2>3, PodChangesMoves
  <1>6. PodMoves(Last.pod, Last.pod)
    BY <1>1 DEF PodMoves
  <1>7. CASE ReportBuild \/ GenerateFails
    <2> DEFINE status == IF GenerateFails THEN "failed"
                         ELSE IF Last.pod.phase = "Succeeded" THEN "ok" ELSE "failed"
               b == [Last EXCEPT !.status = status]
    <2>1. /\ builds' = [builds EXCEPT ![Len(builds)] = b]
          /\ UNCHANGED <<specs, img, rec, wait, tail, stream, out, closed>>
      <3>1. CASE GenerateFails
        BY <3>1 DEF GenerateFails, world, client, Last
      <3>2. CASE ReportBuild /\ ~GenerateFails
        BY <3>2 DEF ReportBuild, world, client, Last
      <3> QED BY <1>7, <3>1, <3>2
    <2>2. status \in {"unknown", "ok", "failed"}
      OBVIOUS
    <2> HIDE DEF status
    <2>3. b \in BuildObjects /\ b.gen = Last.gen /\ b.spec = Last.spec /\ b.pod = Last.pod
      BY <1>1, <2>2, LastFields
    <2> HIDE DEF b
    <2>4. LastMoves(Last.pod)
      BY <1>6, <2>1, <2>3 DEF LastMoves
    <2> QED BY <2>1, <2>4
  <1>8. CASE DeletePod
    <2> DEFINE pod == [Last.pod EXCEPT !.phase = "gone"]
               b   == [Last EXCEPT !.pod = pod]
    <2>1. /\ builds' = [builds EXCEPT ![Len(builds)] = b]
          /\ UNCHANGED <<specs, img, rec, wait, tail, stream, out, closed>>
      BY <1>8 DEF DeletePod, world, client, Last
    <2>2. /\ pod \in PodObjects /\ pod.ended = Last.pod.ended /\ pod.started = Last.pod.started
          /\ pod.phase = "gone"
      BY <1>1 DEF PodObjects
    <2> HIDE DEF pod
    <2>3. b \in BuildObjects /\ b.gen = Last.gen /\ b.spec = Last.spec /\ b.pod = pod
      BY <1>1, <2>2, LastFields
    <2> HIDE DEF b
    <2>4. LastMoves(pod)
      BY <2>1, <2>2, <2>3 DEF LastMoves, PodMoves
    <2> QED BY <2>1, <2>4
  <1> QED BY <1>2, <1>3, <1>4, <1>5, <1>7, <1>8 DEF PodSteps

LEMMA MovesKeepWait ==
    ASSUME WInv, NEW pod, LastMoves(pod)
    PROVE  WInv'
  <1>1. PICK b \in BuildObjects : /\ builds' = [builds EXCEPT ![Len(builds)] = b]
                                  /\ b.gen = Last.gen /\ b.spec = Last.spec
    BY DEF LastMoves
  <1> QED BY <1>1, BuildStep DEF LastMoves

-----------------------------------------------------------------------------
(* The invariant of the tail. *)

TailObjects == [pc : {"off", "watch", "send", "done"}, events : Seq(PodObjects),
                queue : Seq(Nat), exit : BOOLEAN]

Over(pod) == pod.phase \in {"Succeeded", "Failed", "gone"}

\* The steps that ended are the first ones, and they had started.
PodOrder(pod) == 1 .. pod.ended \subseteq pod.started

\* The containers to send are consecutive steps, from one that was streamed or is next.
Consecutive(queue, n) ==
    /\ \A k \in 1 .. Len(queue) : queue[k] = queue[1] + k - 1
    /\ queue # <<>> => 1 <= queue[1] /\ queue[1] <= n + 1

\* Step e was streamed or is among those to send.
Shown(queue, n, e) == e <= n \/ (queue # <<>> /\ e <= queue[1] + Len(queue) - 1)

\* What the goroutine t knows of the pod it watches, n steps having been streamed: an event
\* of a finished pod shows the pod as it stays, and what it shows is sent before the end.
Follows(t, n, isClosed, pod) ==
    /\ t.pc \in {"watch", "send"} =>
         \A k \in 1 .. Len(t.events) : finished(t.events[k]) =>
             Over(pod) /\ Worked(pod) = Worked(t.events[k])
    /\ t.pc = "send" /\ t.exit => Over(pod) /\ Shown(t.queue, n, Worked(pod))
    /\ t.pc = "done" /\ ~isClosed => Over(pod) /\ Worked(pod) <= n

TailOK ==
    /\ tail \in TailObjects /\ out \in Seq(Nat) /\ closed \in BOOLEAN
    /\ \A k \in 1 .. Len(out) : out[k] = k
    /\ Consecutive(tail.queue, Len(out))
    /\ \A n \in 1 .. Len(builds) : PodOrder(builds[n].pod)
    /\ \A k \in 1 .. Len(tail.events) : PodOrder(tail.events[k])
    /\ Follows(tail, Len(out), closed, WaitedFor.pod)
    /\ stream = "done" => tail.pc = "done"
    /\ wait.pc \in {"image", "started"} => tail.pc = "off"

IInv == WInv /\ TailOK

-----------------------------------------------------------------------------
(* The steps that the tail watches. *)

LEMMA FollowsMove ==
    ASSUME NEW t, NEW n, NEW c, NEW old, NEW new, Follows(t, n, c, old), PodMoves(old, new)
    PROVE  Follows(t, n, c, new)
  BY DEF Follows, PodMoves, Over, Worked

LEMMA FollowsEvent ==
    ASSUME NEW t \in TailObjects, NEW n, NEW c, NEW pod \in PodObjects, Follows(t, n, c, pod)
    PROVE  /\ [t EXCEPT !.events = Append(t.events, pod)] \in TailObjects
           /\ Follows([t EXCEPT !.events = Append(t.events, pod)], n, c, pod)
  <1> DEFINE e == Append(t.events, pod)
             u == [t EXCEPT !.events = e]
  <1>1. /\ t.events \in Seq(PodObjects) /\ Len(t.events) \in Nat
    BY LenProperties DEF TailObjects
  <1>2. /\ e \in Seq(PodObjects) /\ Len(e) = Len(t.events) + 1 /\ e[Len(t.events) + 1] = pod
        /\ \A k \in 1 .. Len(t.events) : e[k] = t.events[k]
    BY <1>1, AppendProperties
  <1> HIDE DEF e
  <1>3. u \in TailObjects /\ u.pc = t.pc /\ u.queue = t.queue /\ u.exit = t.exit /\ u.events = e
    BY <1>2 DEF TailObjects
  <1> HIDE DEF u
  <1>4. ASSUME u.pc \in {"watch", "send"}, NEW k \in 1 .. Len(e), finished(e[k])
        PROVE  Over(pod) /\ Worked(pod) = Worked(e[k])
    <2>1. CASE k = Len(t.events) + 1
      BY <1>2, <1>4, <2>1 DEF finished, Over
    <2>2. CASE k \in 1 .. Len(t.events)
      BY <1>2, <1>3, <1>4, <2>2 DEF Follows
    <2> QED BY <1>1, <1>2, <2>1, <2>2
  <1>5. Follows(u, n, c, pod)
    BY <1>3, <1>4 DEF Follows
  <1> QED BY <1>3, <1>5 DEF u, e

LEMMA PodStepsKeep == IInv /\ (PodSteps \/ GenerateFails \/ DeletePod) => IInv'
  <1> SUFFICES ASSUME IInv, PodSteps \/ GenerateFails \/ DeletePod PROVE IInv'
    OBVIOUS
  <1>1. WInv /\ TailOK
    BY DEF IInv
  <1>2. PICK pod :
          /\ LastMoves(pod)
          /\ \/ tail' = [tail EXCEPT !.events = IF tail.pc \in {"watch", "send"} /\ wait.ref = Len(builds)
                                                THEN Append(tail.events, pod) ELSE tail.events]
             \/ UNCHANGED tail
    BY <1>1, PodStepsMove
  <1>3. WInv'
    BY <1>1, <1>2, MovesKeepWait
  <1>4. /\ builds \in Seq(BuildObjects) /\ builds # <<>> /\ wait.ref \in 1 .. Len(builds)
        /\ tail \in TailObjects
    BY <1>1 DEF WInv, WorldOK, WaitOK, TailOK
  <1>5. /\ UNCHANGED <<wait, stream, out, closed>> /\ PodMoves(Last.pod, pod) /\ pod \in PodObjects
    BY <1>2 DEF LastMoves, PodMoves
  <1>6. /\ Len(builds') = Len(builds) /\ builds'[Len(builds)].pod = pod
        /\ \A n \in 1 .. Len(builds) : n # Len(builds) => builds'[n] = builds[n]
    <2>1. PICK b \in BuildObjects : /\ builds' = [builds EXCEPT ![Len(builds)] = b]
                                    /\ b.gen = Last.gen /\ b.spec = Last.spec /\ b.pod = pod
      BY <1>2 DEF LastMoves
    <2> QED BY <1>4, <2>1, LastChanged
  <1>7. Len(builds) \in 1 .. Len(builds)
    <2>1. Len(builds) \in Nat \ {0}
      BY <1>4, LastType
    <2> QED BY <2>1
  <1>8. PodOrder(pod) /\ \A n \in 1 .. Len(builds') : PodOrder(builds'[n].pod)
    <2>1. PodOrder(Last.pod) /\ \A n \in 1 .. Len(builds) : PodOrder(builds[n].pod)
      BY <1>1, <1>7 DEF TailOK, Last
    <2>2. PodOrder(pod)
      BY <1>5, <2>1 DEF PodMoves, PodOrder
    <2> QED BY <1>6, <2>1, <2>2
  <1>9. Follows(tail, Len(out), closed, builds'[wait.ref].pod)
    <2>1. Follows(tail, Len(out), closed, builds[wait.ref].pod)
      BY <1>1 DEF TailOK, WaitedFor
    <2>2. CASE wait.ref = Len(builds)
      BY <1>5, <1>6, <2>1, <2>2, FollowsMove DEF Last
    <2>3. CASE wait.ref # Len(builds)
      BY <1>4, <1>6, <2>1, <2>3
    <2> QED BY <2>2, <2>3
  <1>10. CASE UNCHANGED tail
    <2>1. WaitedFor' = builds'[wait.ref]
      BY <1>5 DEF WaitedFor
    <2>2. TailOK'
      BY <1>1, <1>5, <1>8, <1>9, <1>10, <2>1 DEF TailOK
    <2> QED BY <1>3, <2>2 DEF IInv
  <1>11. CASE /\ wait.ref = Len(builds)
              /\ tail' = [tail EXCEPT !.events = Append(tail.events, pod)]
    <2>1. WaitedFor'.pod = pod
      BY <1>5, <1>6, <1>11 DEF WaitedFor
    <2>2. tail' \in TailObjects /\ Follows(tail', Len(out), closed, pod)
      BY <1>4, <1>5, <1>6, <1>9, <1>11, FollowsEvent
    <2>3. tail'.pc = tail.pc /\ tail'.queue = tail.queue /\ tail'.events = Append(tail.events, pod)
      BY <1>4, <1>11 DEF TailObjects
    <2>4. tail.events \in Seq(PodObjects)
      BY <1>4 DEF TailObjects
    <2>5. /\ Len(tail.events) \in Nat /\ Len(tail'.events) = Len(tail.events) + 1
          /\ tail'.events[Len(tail.events) + 1] = pod
          /\ \A k \in 1 .. Len(tail.events) : tail'.events[k] = tail.events[k]
      BY <1>5, <2>3, <2>4, LenProperties, AppendProperties
    <2>6. \A k \in 1 .. Len(tail'.events) : PodOrder(tail'.events[k])
      BY <1>1, <1>8, <2>5 DEF TailOK
    <2>7. TailOK'
      BY <1>1, <1>5, <1>8, <2>1, <2>2, <2>3, <2>6 DEF TailOK
    <2> QED BY <1>3, <2>7 DEF IInv
  <1>12. tail = [tail EXCEPT !.events = tail.events]
    BY <1>4 DEF TailObjects
  <1> QED BY <1>2, <1>10, <1>11, <1>12

\* The Image reconciler, users and the waiter leave the tail alone.
LEMMA TailKept ==
    ASSUME WInv, TailOK, UNCHANGED <<tail, stream, out, closed>>,
           Len(builds) \in Nat, Len(builds') \in Nat, Len(builds) <= Len(builds'),
           \A n \in 1 .. Len(builds) : builds'[n] = builds[n],
           \A n \in 1 .. Len(builds') : n \in 1 .. Len(builds) \/ builds'[n].pod = NoPod,
           tail.pc = "off" \/ (wait'.ref = wait.ref /\ wait'.pc \notin {"image", "started"})
    PROVE  TailOK'
  <1>1. \A n \in 1 .. Len(builds') : PodOrder(builds'[n].pod)
    <2>1. PodOrder(NoPod)
      <3>1. NoPod.ended = 0
        BY DEF NoPod
      <3> QED BY <3>1 DEF PodOrder
    <2> QED BY <2>1 DEF TailOK
  <1>2. Follows(tail, Len(out), closed, WaitedFor'.pod)
    <2>1. CASE tail.pc = "off"
      BY <2>1 DEF Follows
    <2>2. CASE wait'.ref = wait.ref
      <3>1. WaitedFor' = WaitedFor
        BY <2>2 DEF WaitedFor, WInv, WaitOK
      <3> QED BY <3>1 DEF TailOK
    <2> QED BY <2>1, <2>2
  <1> QED BY <1>1, <1>2 DEF TailOK

\* Steps of the Image reconciler and of users.
LEMMA ImageStepsKeep ==
    ASSUME IInv, ReadImage \/ WriteStatus \/ ResolveSource \/ \E s \in {1, 2} : Edit(s)
    PROVE  IInv'
  <1>1. WInv /\ TailOK
    BY DEF IInv
  <1>2. /\ builds \in Seq(BuildObjects) /\ Len(builds) \in Nat
        /\ wait \in Waits /\ img \in ImageObjects /\ img.gen \in Nat
    BY <1>1, LenProperties DEF WInv, WorldOK, WaitOK, ImageFits, ImageObjects
  <1>3. UNCHANGED <<tail, stream, out, closed>>
    BY DEF ReadImage, WriteStatus, ResolveSource, Edit, client
  <1>4. tail.pc = "off" \/ wait.pc \notin {"image", "started"}
    BY <1>1 DEF TailOK
  <1>5. \A i : StatusWritten(i) => wait'.pc = wait.pc /\ wait'.ref = wait.ref
    BY <1>2 DEF StatusWritten, Waits
  <1>6. CASE ReadImage \/ ResolveSource
    <2>1. /\ UNCHANGED <<specs, img, builds, wait>>
          /\ rec' = rec \/ (rec = 0 /\ rec' = img.gen)
      BY <1>6 DEF ReadImage, ResolveSource, client
    <2>2. rec' \in Nat /\ rec' <= img.gen
      BY <1>1, <1>2, <2>1 DEF WInv, WorldOK
    <2>3. WInv'
      <3>1. WorldOK'
        BY <1>1, <2>1, <2>2 DEF WInv, WorldOK, ReadGen
      <3>2. WaitOK'
        BY <1>1, <2>1 DEF WInv, WaitOK
      <3> QED BY <3>1, <3>2 DEF WInv
    <2>4. TailOK'
      BY <1>1, <1>2, <1>3, <1>4, <2>1, TailKept
    <2> QED BY <2>3, <2>4 DEF IInv
  <1>7. CASE WriteStatus
    <2>1. WInv'
      BY <1>1, <1>7, WriteStep
    <2>2. wait'.pc = wait.pc /\ wait'.ref = wait.ref
      BY <1>5, <1>7, Zenon DEF WriteStatus
    <2>3. UNCHANGED builds \/ builds' = Append(builds, NewBuild(rec))
      BY <1>7 DEF WriteStatus
    <2>4. CASE UNCHANGED builds
      <3>1. TailOK'
        BY <1>1, <1>2, <1>3, <1>4, <2>2, <2>4, TailKept
      <3> QED BY <2>1, <3>1 DEF IInv
    <2>5. CASE builds' = Append(builds, NewBuild(rec))
      <3> DEFINE b == NewBuild(rec)
      <3>1. b.pod = NoPod
        BY DEF NewBuild
      <3>2. builds' = Append(builds, b)
        BY <2>5
      <3>3. Len(builds') \in Nat /\ Len(builds') = Len(builds) + 1 /\ builds'[Len(builds) + 1] = b
            /\ \A n \in 1 .. Len(builds) : builds'[n] = builds[n]
        <4> HIDE DEF b
        <4> QED BY <1>2, <3>2
      <3> HIDE DEF b
      <3>4. /\ Len(builds) <= Len(builds')
            /\ \A n \in 1 .. Len(builds') : n \in 1 .. Len(builds) \/ builds'[n].pod = NoPod
        BY <1>2, <3>1, <3>3
      <3>5. TailOK'
        BY <1>1, <1>2, <1>3, <1>4, <2>2, <3>3, <3>4, TailKept
      <3> QED BY <2>1, <3>5 DEF IInv
    <2> QED BY <2>3, <2>4, <2>5
  <1>8. ASSUME NEW s \in {1, 2}, Edit(s)
        PROVE  IInv'
    <2>1. WInv'
      BY <1>1, <1>8, EditStep
    <2>2. wait'.pc = wait.pc /\ wait'.ref = wait.ref /\ UNCHANGED builds
      BY <1>5, <1>8 DEF Edit
    <2>3. TailOK'
      BY <1>1, <1>2, <1>3, <1>4, <2>2, TailKept
    <2> QED BY <2>1, <2>3 DEF IInv
  <1> QED BY <1>6, <1>7, <1>8

\* Steps of the waiter.
LEMMA WaitingKeeps == IInv /\ Waiting => IInv'
  <1> SUFFICES ASSUME IInv, Waiting PROVE IInv'
    OBVIOUS
  <1>1. WInv /\ TailOK
    BY DEF IInv
  <1>2. WInv'
    BY <1>1, WaitImageStep, StartTailStep, WaitBuildStep, DrainStep DEF Waiting
  <1>3. /\ builds \in Seq(BuildObjects) /\ Len(builds) \in Nat /\ wait \in Waits
        /\ tail \in TailObjects /\ wait.ref \in 1 .. Len(builds)
    BY <1>1, LenProperties DEF WInv, WorldOK, WaitOK, TailOK
  <1>4. CASE WaitImage
    <2>1. UNCHANGED <<builds, tail, stream, out, closed>> /\ tail.pc = "off"
      BY <1>1, <1>4 DEF WaitImage, TailOK
    <2>2. TailOK'
      BY <1>1, <1>3, <2>1, TailKept
    <2> QED BY <1>2, <2>2 DEF IInv
  <1>5. CASE WaitBuild \/ Drain
    <2>1. UNCHANGED <<builds, tail, stream, out, closed>>
      BY <1>5 DEF WaitBuild, Drain
    <2>2. wait'.ref = wait.ref /\ wait'.pc \in {"drain", "done"}
      <3>1. CASE Drain
        BY <1>3, <3>1 DEF Drain, Waits
      <3>2. CASE WaitBuild
        <4> DEFINE r == [wait EXCEPT !.pc = "done",
                           !.result = [ok    |-> WaitedFor.status = "ok",
                                       image |-> IF WaitedFor.status = "ok" THEN WaitedFor.spec ELSE 0]]
        <4>1. wait' = [r EXCEPT !.pc = "drain"]
          BY <3>2 DEF WaitBuild, Return
        <4>2. DOMAIN r = {"pc", "events", "ref", "result"} /\ r.ref = wait.ref
          BY <1>3 DEF Waits
        <4> HIDE DEF r
        <4> QED BY <4>1, <4>2
      <3> QED BY <1>5, <3>1, <3>2
    <2>3. TailOK'
      BY <1>1, <1>3, <2>1, <2>2, TailKept
    <2> QED BY <1>2, <2>3 DEF IInv
  <1>6. CASE StartTail
    <2>1. UNCHANGED <<builds, out, closed>> /\ wait.pc = "started" /\ tail.pc = "off"
      BY <1>1, <1>6 DEF StartTail, TailOK
    <2>2. CASE UNCHANGED <<tail, stream>>
      <3>1. TailOK'
        BY <1>1, <1>3, <2>1, <2>2, TailKept
      <3> QED BY <1>2, <3>1 DEF IInv
    <2>3. CASE /\ wait' = [wait EXCEPT !.pc = "build"]
               /\ tail' = [tail EXCEPT !.pc = "watch",
                             !.events = IF WaitedFor.pod.phase \in {"none", "gone"} THEN <<>>
                                        ELSE <<WaitedFor.pod>>]
               /\ stream' = "recv"
      <3> DEFINE e == IF WaitedFor.pod.phase \in {"none", "gone"} THEN <<>> ELSE <<WaitedFor.pod>>
      <3>1. wait'.pc = "build" /\ wait'.ref = wait.ref
        BY <1>3, <2>3 DEF Waits
      <3>2. WaitedFor \in BuildObjects
        BY <1>3, LenProperties DEF WaitedFor
      <3>3. WaitedFor.pod \in PodObjects /\ PodOrder(WaitedFor.pod)
        BY <1>1, <1>3, <3>2 DEF BuildObjects, TailOK, WaitedFor
      <3>4. e \in Seq(PodObjects) /\ \A k \in 1 .. Len(e) : e[k] = WaitedFor.pod
        BY <3>3
      <3>5. tail' = [tail EXCEPT !.pc = "watch", !.events = e]
        BY <2>3
      <3> HIDE DEF e
      <3>6. tail' \in TailObjects /\ tail'.pc = "watch" /\ tail'.events = e /\ tail'.queue = tail.queue
        BY <1>3, <3>4, <3>5 DEF TailObjects
      <3>7. WaitedFor' = WaitedFor
        BY <2>1, <3>1 DEF WaitedFor
      <3>8. Follows(tail', Len(out), closed, WaitedFor.pod)
        BY <3>4, <3>6 DEF Follows, finished, Over
      <3>9. TailOK'
        BY <1>1, <2>1, <2>3, <3>1, <3>3, <3>4, <3>6, <3>7, <3>8 DEF TailOK
      <3> QED BY <1>2, <3>9 DEF IInv
    <2> QED BY <1>6, <2>2, <2>3 DEF StartTail
  <1> QED BY <1>4, <1>5, <1>6 DEF Waiting

-----------------------------------------------------------------------------
(* The steps of the tail. *)

\* The steps that worked are the first ones, and their containers had started.
LEMMA WorkedStarted ==
    ASSUME NEW pod \in PodObjects, PodOrder(pod)
    PROVE  Worked(pod) \in 0 .. NumSteps /\ 1 .. Worked(pod) \subseteq pod.started
  <1>1. /\ pod.ended \in Nat /\ pod.ended <= NumSteps /\ NumSteps \in Nat
        /\ pod.started \subseteq 1 .. NumSteps
    BY LogsAssumption DEF PodObjects, Steps
  <1>2. CASE pod.ended + 1 \in pod.started
    <2>1. Worked(pod) = pod.ended + 1
      BY <1>2 DEF Worked
    <2>2. \A k \in 1 .. pod.ended + 1 : k \in 1 .. pod.ended \/ k = pod.ended + 1
      BY <1>1
    <2>3. 1 .. pod.ended + 1 \subseteq pod.started
      BY <1>2, <2>2 DEF PodOrder
    <2>4. pod.ended + 1 \in 0 .. NumSteps
      BY <1>1, <1>2
    <2> QED BY <2>1, <2>3, <2>4
  <1>3. CASE pod.ended + 1 \notin pod.started
    <2>1. Worked(pod) = pod.ended
      BY <1>3 DEF Worked
    <2> QED BY <1>1, <2>1 DEF PodOrder
  <1> QED BY <1>2, <1>3

\* The containers of a pod are consecutive steps from the first, and those that worked are
\* among them.
LEMMA ReadyIsPrefix ==
    ASSUME NEW pod \in PodObjects, NEW n \in Nat
    PROVE  /\ ReadyContainers(pod) \in Seq(Nat)
           /\ Consecutive(ReadyContainers(pod), n)
           /\ PodOrder(pod) => Shown(ReadyContainers(pod), n, Worked(pod))
  <1> DEFINE found == {k \in Steps : 1 .. k \subseteq pod.started}
             c == Cardinality(found)
             r == ReadyContainers(pod)
  <1>1. IsFiniteSet(found) /\ found \subseteq 1 .. NumSteps /\ NumSteps \in Nat
    <2>1. IsFiniteSet(1 .. NumSteps) /\ NumSteps \in Nat
      BY FS_Interval, LogsAssumption
    <2>2. found \subseteq 1 .. NumSteps
      BY DEF Steps
    <2> QED BY <2>1, <2>2, FS_Subset
  <1>2. c \in Nat
    BY <1>1, FS_CardinalityType
  <1>3. r = [k \in 1 .. c |-> k]
    BY DEF ReadyContainers
  <1>4. ASSUME PodOrder(pod)
        PROVE  Worked(pod) <= c
    <2>1. Worked(pod) \in Nat /\ Worked(pod) <= NumSteps /\ 1 .. Worked(pod) \subseteq pod.started
      BY <1>1, <1>4, WorkedStarted
    <2>2. 1 .. Worked(pod) \subseteq found
      BY <1>1, <2>1 DEF Steps
    <2>3. Cardinality(1 .. Worked(pod)) <= c
      BY <1>1, <2>2, FS_Subset
    <2>4. Cardinality(1 .. Worked(pod)) = Worked(pod)
      BY <2>1, FS_Interval
    <2> QED BY <2>3, <2>4
  <1> HIDE DEF c, found
  <1>5. r \in Seq(Nat) /\ Len(r) = c /\ \A k \in 1 .. c : r[k] = k
    BY <1>2, <1>3
  <1> HIDE DEF r
  <1>6. r # <<>> => 1 \in 1 .. c /\ r[1] = 1
    <2>1. r # <<>> => Len(r) \in Nat \ {0}
      BY <1>5, EmptySeq
    <2> QED BY <1>2, <1>5, <2>1
  <1>7. Consecutive(r, n)
    <2>1. \A k \in 1 .. Len(r) : r[k] = r[1] + k - 1
      BY <1>2, <1>5
    <2>2. r # <<>> => 1 <= r[1] /\ r[1] <= n + 1
      BY <1>6
    <2> QED BY <2>1, <2>2 DEF Consecutive
  <1>8. ASSUME PodOrder(pod)
        PROVE  Shown(r, n, Worked(pod))
    <2>1. Worked(pod) \in Nat /\ Worked(pod) <= c
      BY <1>1, <1>4, <1>8, WorkedStarted
    <2>2. CASE r = <<>>
      <3>1. Len(r) = 0
        BY <2>2
      <3>2. Worked(pod) <= n
        BY <1>2, <1>5, <2>1, <3>1
      <3> QED BY <3>2 DEF Shown
    <2>3. CASE r # <<>>
      <3>1. Worked(pod) <= r[1] + Len(r) - 1
        BY <1>2, <1>5, <1>6, <2>1, <2>3
      <3> QED BY <2>3, <3>1 DEF Shown
    <2> QED BY <2>2, <2>3
  <1> QED BY <1>5, <1>7, <1>8 DEF r

\* The tail's own steps leave what it watches and what waits for it alone.
LEMMA WaitKept ==
    ASSUME WInv, UNCHANGED <<specs, img, rec, builds, wait>>
    PROVE  WInv' /\ WaitedFor' = WaitedFor
  <1>1. WorldOK' /\ WaitOK'
    BY DEF WInv, WorldOK, WaitOK, ReadGen
  <1> QED BY <1>1 DEF WInv, WaitedFor

LEMMA HandleStep == IInv /\ HandlePodEvent => IInv'
  <1> SUFFICES ASSUME IInv, HandlePodEvent PROVE IInv'
    OBVIOUS
  <1> DEFINE pod == Head(tail.events)
             q   == ReadyContainers(pod)
  <1>1. /\ UNCHANGED <<specs, img, rec, builds, wait, stream, out, closed>>
        /\ tail.pc = "watch" /\ tail.events # <<>>
        /\ tail' = [pc |-> "send", events |-> Tail(tail.events), queue |-> q, exit |-> finished(pod)]
    BY DEF HandlePodEvent, world
  <1>2. WInv' /\ WaitedFor' = WaitedFor /\ TailOK /\ tail \in TailObjects /\ out \in Seq(Nat)
    BY <1>1, WaitKept DEF IInv, TailOK
  <1>3. /\ tail.events \in Seq(PodObjects) /\ Len(tail.events) \in Nat \ {0} /\ Len(out) \in Nat
    BY <1>1, <1>2, EmptySeq, LenProperties DEF TailObjects
  <1>4. pod = tail.events[1] /\ 1 \in 1 .. Len(tail.events)
    BY <1>3
  <1>5. pod \in PodObjects /\ PodOrder(pod)
    BY <1>2, <1>3, <1>4, LenProperties DEF TailOK
  <1>6. /\ Tail(tail.events) \in Seq(PodObjects) /\ Len(Tail(tail.events)) = Len(tail.events) - 1
        /\ \A k \in 1 .. Len(Tail(tail.events)) : Tail(tail.events)[k] = tail.events[k + 1]
    BY <1>1, <1>3, HeadTailProperties
  <1>7. /\ q \in Seq(Nat) /\ Consecutive(q, Len(out)) /\ Shown(q, Len(out), Worked(pod))
    BY <1>3, <1>5, ReadyIsPrefix
  <1>8. finished(pod) => Over(WaitedFor.pod) /\ Worked(WaitedFor.pod) = Worked(pod)
    BY <1>1, <1>2, <1>4 DEF TailOK, Follows
  <1>9. finished(pod) \in BOOLEAN
    BY DEF finished
  <1> HIDE DEF q, pod
  <1>10. /\ tail' \in TailObjects /\ tail'.pc = "send" /\ tail'.queue = q
         /\ tail'.exit = finished(pod) /\ tail'.events = Tail(tail.events)
    BY <1>1, <1>6, <1>7, <1>9 DEF TailObjects
  <1>11. \A k \in 1 .. Len(tail'.events) :
            k + 1 \in 1 .. Len(tail.events) /\ tail'.events[k] = tail.events[k + 1]
    BY <1>3, <1>6, <1>10
  <1>12. \A k \in 1 .. Len(tail'.events) : PodOrder(tail'.events[k])
    BY <1>2, <1>11 DEF TailOK
  <1>13. \A k \in 1 .. Len(tail'.events) : finished(tail'.events[k]) =>
            Over(WaitedFor.pod) /\ Worked(WaitedFor.pod) = Worked(tail'.events[k])
    BY <1>1, <1>2, <1>11 DEF TailOK, Follows
  <1>14. Follows(tail', Len(out), closed, WaitedFor.pod)
    BY <1>7, <1>8, <1>10, <1>13 DEF Follows
  <1>15. wait.pc \notin {"image", "started"} /\ stream # "done"
    BY <1>1, <1>2 DEF TailOK
  <1>16. TailOK'
    BY <1>1, <1>2, <1>7, <1>10, <1>12, <1>14, <1>15 DEF TailOK
  <1> QED BY <1>2, <1>16 DEF IInv

LEMMA WaitedForWorked ==
    ASSUME IInv
    PROVE  Worked(WaitedFor.pod) \in Nat
  <1>1. wait.ref \in 1 .. Len(builds) /\ builds \in Seq(BuildObjects)
    BY DEF IInv, WInv, WorldOK, WaitOK
  <1>2. WaitedFor \in BuildObjects /\ PodOrder(WaitedFor.pod)
    BY <1>1, LenProperties DEF IInv, TailOK, WaitedFor
  <1>3. WaitedFor.pod \in PodObjects /\ NumSteps \in Nat
    BY <1>2, LogsAssumption DEF BuildObjects
  <1>4. Worked(WaitedFor.pod) \in 0 .. NumSteps
    BY <1>2, <1>3, WorkedStarted
  <1> QED BY <1>3, <1>4

\* A container of the queue is taken: what is left is consecutive, and shows as much.
LEMMA TakenFromQueue ==
    ASSUME NEW q \in Seq(Nat), q # <<>>, NEW n \in Nat, NEW e \in Nat, Consecutive(q, n), Shown(q, n, e),
           NEW m \in Nat, m = IF q[1] <= n THEN n ELSE q[1]
    PROVE  Consecutive(Tail(q), m) /\ Shown(Tail(q), m, e)
  <1> DEFINE r == Tail(q)
  <1>1. /\ r \in Seq(Nat) /\ Len(q) \in Nat \ {0} /\ Len(r) = Len(q) - 1
        /\ \A k \in 1 .. Len(r) : r[k] = q[k + 1]
    BY EmptySeq, HeadTailProperties
  <1>2. q[1] \in Nat /\ 1 <= q[1] /\ q[1] <= n + 1
    <2>1. 1 \in 1 .. Len(q)
      BY <1>1
    <2> QED BY <2>1, LenProperties DEF Consecutive
  <1>3. \A k \in 1 .. Len(q) : q[k] = q[1] + k - 1
    BY DEF Consecutive
  <1> HIDE DEF r
  <1>4. \A k \in 1 .. Len(r) : r[k] = q[1] + k
    BY <1>1, <1>2, <1>3
  <1>5. r # <<>> => Len(r) \in Nat \ {0} /\ r[1] = q[1] + 1
    <2>1. r # <<>> => Len(r) \in Nat \ {0}
      BY <1>1, EmptySeq
    <2> QED BY <1>4, <2>1
  <1>6. n <= m /\ q[1] <= m
    BY <1>2
  <1>7. Consecutive(r, m)
    <2>1. \A k \in 1 .. Len(r) : r[k] = r[1] + k - 1
      <3> SUFFICES ASSUME NEW k \in 1 .. Len(r) PROVE r[k] = r[1] + k - 1
        OBVIOUS
      <3>1. 1 \in 1 .. Len(r) /\ k \in Nat
        BY <1>1
      <3>2. r[1] = q[1] + 1 /\ r[k] = q[1] + k
        BY <1>4, <3>1
      <3> QED BY <1>2, <3>1, <3>2
    <2>2. r # <<>> => 1 <= r[1] /\ r[1] <= m + 1
      BY <1>2, <1>5, <1>6
    <2> QED BY <2>1, <2>2 DEF Consecutive
  <1>8. Shown(r, m, e)
    <2>1. CASE e <= n
      <3>1. e <= m
        BY <1>6, <2>1
      <3> QED BY <3>1 DEF Shown
    <2>2. CASE e <= q[1] + Len(q) - 1
      <3>1. CASE r = <<>>
        <4>1. Len(r) = 0
          BY <3>1
        <4>2. Len(q) = 1
          BY <1>1, <4>1
        <4>3. e <= q[1]
          BY <1>2, <2>2, <4>2
        <4>4. e <= m
          BY <1>2, <1>6, <4>3
        <4> QED BY <4>4 DEF Shown
      <3>2. CASE r # <<>>
        <4>1. e <= r[1] + Len(r) - 1
          <5>1. \A a, l \in Int : (a + 1) + (l - 1) - 1 = a + l - 1
            OBVIOUS
          <5>2. r[1] + Len(r) - 1 = q[1] + Len(q) - 1
            <6>1. r[1] = q[1] + 1 /\ Len(r) = Len(q) - 1 /\ q[1] \in Int /\ Len(q) \in Int
              BY <1>1, <1>2, <1>5, <3>2
            <6> QED BY <5>1, <6>1
          <5> QED BY <2>2, <5>2
        <4> QED BY <3>2, <4>1 DEF Shown
      <3> QED BY <3>1, <3>2
    <2> QED BY <2>1, <2>2 DEF Shown
  <1> QED BY <1>7, <1>8 DEF r

LEMMA SendStep == IInv /\ SendContainer => IInv'
  <1> SUFFICES ASSUME IInv, SendContainer PROVE IInv'
    OBVIOUS
  <1> DEFINE k == Head(tail.queue)
             q == tail.queue
  <1>1. /\ UNCHANGED <<specs, img, rec, builds, wait, closed>>
        /\ tail.pc = "send" /\ q # <<>>
        /\ tail' = [tail EXCEPT !.queue = Tail(q)]
    BY DEF SendContainer, world
  <1>2. \/ (\E i \in DOMAIN out : out[i] = k) /\ out' = out /\ stream' = "recv"
        \/ ~(\E i \in DOMAIN out : out[i] = k) /\ out' = Append(out, k) /\ stream' = "log"
    BY DEF SendContainer
  <1>3. WInv' /\ WaitedFor' = WaitedFor /\ TailOK /\ tail \in TailObjects /\ out \in Seq(Nat)
    BY <1>1, WaitKept DEF IInv, TailOK
  <1>4. /\ q \in Seq(Nat) /\ Tail(q) \in Seq(Nat) /\ Consecutive(q, Len(out)) /\ Len(out) \in Nat
        /\ DOMAIN out = 1 .. Len(out) /\ \A j \in 1 .. Len(out) : out[j] = j
    BY <1>1, <1>3, LenProperties, HeadTailProperties DEF TailObjects, TailOK
  <1>5. k = q[1] /\ k \in Nat /\ 1 <= k /\ k <= Len(out) + 1
    <2>1. Len(q) \in Nat \ {0} /\ q \in [1 .. Len(q) -> Nat]
      BY <1>1, <1>4, EmptySeq, LenProperties
    <2>2. 1 \in 1 .. Len(q)
      BY <2>1
    <2>3. k = q[1]
      BY <1>1, <1>4
    <2> QED BY <1>1, <1>4, <2>1, <2>2, <2>3 DEF Consecutive
  <1> HIDE DEF k, q
  <1>6. (\E i \in DOMAIN out : out[i] = k) <=> k <= Len(out)
    <2>1. ASSUME NEW i \in DOMAIN out, out[i] = k PROVE k <= Len(out)
      BY <1>4, <2>1
    <2>2. ASSUME k <= Len(out) PROVE k \in DOMAIN out /\ out[k] = k
      BY <1>4, <1>5, <2>2
    <2> QED BY <2>1, <2>2
  <1>7. /\ out' \in Seq(Nat) /\ Len(out') \in Nat /\ Len(out') = (IF k <= Len(out) THEN Len(out) ELSE k)
        /\ \A j \in 1 .. Len(out') : out'[j] = j
    <2>1. CASE k <= Len(out)
      BY <1>2, <1>3, <1>4, <1>6, <2>1
    <2>2. CASE ~(k <= Len(out))
      <3>1. out' = Append(out, k) /\ k = Len(out) + 1
        BY <1>2, <1>4, <1>5, <1>6, <2>2
      <3>2. /\ out' \in Seq(Nat) /\ Len(out') = Len(out) + 1 /\ out'[Len(out) + 1] = k
            /\ \A j \in 1 .. Len(out) : out'[j] = out[j]
        BY <1>3, <1>5, <3>1, AppendProperties
      <3> QED BY <1>4, <2>2, <3>1, <3>2
    <2> QED BY <2>1, <2>2
  <1>8. stream' # "done"
    BY <1>2
  <1>9. /\ tail' \in TailObjects /\ tail'.pc = "send" /\ tail'.events = tail.events
        /\ tail'.exit = tail.exit /\ tail'.queue = Tail(q)
    BY <1>1, <1>3, <1>4 DEF TailObjects
  <1>10. Consecutive(Tail(q), Len(out'))
    <2>1. Shown(q, Len(out), 0)
      BY <1>4 DEF Shown
    <2> QED BY <1>1, <1>4, <1>5, <1>7, <2>1, TakenFromQueue
  <1>11. Worked(WaitedFor.pod) \in Nat
    BY WaitedForWorked
  <1>12. tail.exit => Over(WaitedFor.pod) /\ Shown(Tail(q), Len(out'), Worked(WaitedFor.pod))
    <2> SUFFICES ASSUME tail.exit
                 PROVE  Over(WaitedFor.pod) /\ Shown(Tail(q), Len(out'), Worked(WaitedFor.pod))
      OBVIOUS
    <2>1. Over(WaitedFor.pod) /\ Shown(q, Len(out), Worked(WaitedFor.pod))
      BY <1>1, <1>3 DEF TailOK, Follows, q
    <2> QED BY <1>1, <1>4, <1>5, <1>7, <1>11, <2>1, TakenFromQueue
  <1>13. Follows(tail', Len(out'), closed', WaitedFor'.pod)
    BY <1>1, <1>3, <1>9, <1>12 DEF TailOK, Follows
  <1>14. TailOK'
    BY <1>1, <1>3, <1>7, <1>8, <1>9, <1>10, <1>13 DEF TailOK
  <1> QED BY <1>3, <1>14 DEF IInv

LEMMA EndOfEventStep == IInv /\ EndOfEvent => IInv'
  <1> SUFFICES ASSUME IInv, EndOfEvent PROVE IInv'
    OBVIOUS
  <1> DEFINE pc == IF tail.exit THEN "done" ELSE "watch"
  <1>1. /\ UNCHANGED <<specs, img, rec, builds, wait, stream, out, closed>>
        /\ tail.pc = "send" /\ tail.queue = <<>> /\ tail' = [tail EXCEPT !.pc = pc]
    BY DEF EndOfEvent, world
  <1>2. WInv' /\ WaitedFor' = WaitedFor /\ TailOK /\ tail \in TailObjects
    BY <1>1, WaitKept DEF IInv, TailOK
  <1>3. pc \in {"done", "watch"} /\ (pc = "done" => tail.exit)
    OBVIOUS
  <1> HIDE DEF pc
  <1>4. /\ tail' \in TailObjects /\ tail'.pc = pc /\ tail'.events = tail.events
        /\ tail'.exit = tail.exit /\ tail'.queue = tail.queue
    BY <1>1, <1>2, <1>3 DEF TailObjects
  <1>5. tail.exit => Over(WaitedFor.pod) /\ Worked(WaitedFor.pod) <= Len(out)
    BY <1>1, <1>2 DEF TailOK, Follows, Shown
  <1>6. Follows(tail', Len(out), closed, WaitedFor.pod)
    BY <1>1, <1>2, <1>3, <1>4, <1>5 DEF TailOK, Follows
  <1>7. TailOK'
    BY <1>1, <1>2, <1>4, <1>6 DEF TailOK
  <1> QED BY <1>2, <1>7 DEF IInv

LEMMA WatchClosesStep == IInv /\ WatchCloses => IInv'
  <1> SUFFICES ASSUME IInv, WatchCloses PROVE IInv'
    OBVIOUS
  <1>1. /\ UNCHANGED <<specs, img, rec, builds, wait, stream, out>> /\ closed' = TRUE
        /\ tail.pc = "watch" /\ tail' = [tail EXCEPT !.pc = "done"]
    BY DEF WatchCloses, world
  <1>2. WInv' /\ WaitedFor' = WaitedFor /\ TailOK /\ tail \in TailObjects
    BY <1>1, WaitKept DEF IInv, TailOK
  <1>3. /\ tail' \in TailObjects /\ tail'.pc = "done" /\ tail'.events = tail.events
        /\ tail'.queue = tail.queue
    BY <1>1, <1>2 DEF TailObjects
  <1>4. Follows(tail', Len(out), closed', WaitedFor.pod)
    BY <1>1, <1>3 DEF Follows
  <1>5. TailOK'
    BY <1>1, <1>2, <1>3, <1>4 DEF TailOK
  <1> QED BY <1>2, <1>5 DEF IInv

LEMMA StreamStep == IInv /\ (EndOfStream \/ StreamFails \/ EndOfTail) => IInv'
  <1> SUFFICES ASSUME IInv, EndOfStream \/ StreamFails \/ EndOfTail PROVE IInv'
    OBVIOUS
  <1>1. /\ UNCHANGED <<specs, img, rec, builds, wait, tail, out, closed>>
        /\ stream' = "done" => tail.pc = "done"
    BY DEF EndOfStream, StreamFails, EndOfTail, world
  <1>2. WInv' /\ WaitedFor' = WaitedFor /\ TailOK
    BY <1>1, WaitKept DEF IInv
  <1>3. TailOK'
    BY <1>1, <1>2 DEF TailOK
  <1> QED BY <1>2, <1>3 DEF IInv

-----------------------------------------------------------------------------
(* The invariant is inductive. *)

LEMMA InitHolds == Init => IInv
  <1> SUFFICES ASSUME Init PROVE IInv
    OBVIOUS
  <1>1. PICK s \in {1, 2} : specs = <<1, s>>
    BY DEF Init
  <1>2. specs \in Seq({1, 2}) /\ Len(specs) = 2 /\ specs[1] = 1
    BY <1>1
  <1> DEFINE p == [phase |-> "Succeeded", started |-> Steps, ended |-> NumSteps]
             b == [gen |-> 1, spec |-> 1, status |-> "ok", pod |-> p]
  <1>3. p \in PodObjects /\ PodOrder(p)
    BY LogsAssumption DEF PodObjects, PodOrder, Steps
  <1>4. builds = <<b>>
    BY DEF Init
  <1> HIDE DEF p
  <1>5. b \in BuildObjects /\ b.gen = 1 /\ b.spec = 1 /\ b.pod = p
    BY <1>3 DEF BuildObjects
  <1> HIDE DEF b
  <1>6. builds \in Seq(BuildObjects) /\ builds # <<>> /\ Len(builds) = 1 /\ builds[1] = b
    BY <1>4, <1>5
  <1>7. img = [gen |-> 2, obs |-> 1, ready |-> "True", buildGen |-> 1, ref |-> 1, latest |-> 1]
    BY DEF Init, Generation
  <1>8. /\ img \in ImageObjects /\ img.gen = 2 /\ img.obs = 1 /\ img.ready = "True"
        /\ img.buildGen = 1 /\ img.ref = 1 /\ img.latest = 1
    BY <1>7 DEF ImageObjects
  <1>9. ImageFits(img, builds, specs)
    BY <1>2, <1>5, <1>6, <1>8 DEF ImageFits
  <1>10. BuildsFit(builds, specs, ReadGen)
    <2>1. ReadGen = 2
      BY <1>8 DEF ReadGen, Init
    <2> QED BY <1>2, <1>5, <1>6, <2>1 DEF BuildsFit
  <1>11. WorldOK
    BY <1>2, <1>6, <1>8, <1>9, <1>10 DEF WorldOK, Init
  <1>12. ~imageUpdateHasResolved(img)
    BY <1>8 DEF imageUpdateHasResolved, Generation
  <1>13. wait = [pc |-> "image", events |-> <<img>>, ref |-> 1, result |-> [ok |-> FALSE, image |-> 0]]
    BY DEF Init
  <1>14. /\ wait \in Waits /\ wait.pc = "image" /\ wait.ref = 1 /\ wait.events = <<img>>
    <2>1. <<img>> \in Seq(ImageObjects) /\ [ok |-> FALSE, image |-> 0] \in Results
      BY <1>8 DEF Results
    <2> QED BY <1>13, <2>1 DEF Waits
  <1>15. Len(wait.events) = 1 /\ wait.events[1] = img
    BY <1>14
  <1>16. EventsFit(wait.events, builds, specs) /\ Answered(wait.events, img)
    BY <1>9, <1>12, <1>15 DEF EventsFit, Answered
  <1>17. WaitOK
    BY <1>6, <1>14, <1>16 DEF WaitOK
  <1>18. tail = [pc |-> "off", events |-> <<>>, queue |-> <<>>, exit |-> FALSE]
    BY DEF Init
  <1>19. tail \in TailObjects /\ tail.pc = "off" /\ tail.events = <<>> /\ tail.queue = <<>>
    <2>1. <<>> \in Seq(PodObjects) /\ <<>> \in Seq(Nat)
      OBVIOUS
    <2> QED BY <1>18, <2>1 DEF TailObjects
  <1>20. Consecutive(tail.queue, Len(out))
    BY <1>19 DEF Consecutive
  <1>21. Follows(tail, Len(out), closed, WaitedFor.pod)
    BY <1>19 DEF Follows
  <1>22. out = <<>> /\ closed = FALSE /\ stream = "off"
    BY DEF Init
  <1>23. TailOK
    <2>1. /\ out \in Seq(Nat) /\ closed \in BOOLEAN /\ \A k \in 1 .. Len(out) : out[k] = k
      <3>1. out \in Seq(Nat) /\ Len(out) = 0
        BY <1>22, EmptySeq
      <3>2. \A k \in 1 .. Len(out) : out[k] = k
        BY <3>1
      <3>3. closed \in BOOLEAN
        BY <1>22
      <3> QED BY <3>1, <3>2, <3>3
    <2>2. \A n \in 1 .. Len(builds) : PodOrder(builds[n].pod)
      BY <1>3, <1>5, <1>6
    <2>3. \A k \in 1 .. Len(tail.events) : PodOrder(tail.events[k])
      BY <1>19
    <2> QED BY <1>19, <1>20, <1>21, <1>22, <2>1, <2>2, <2>3 DEF TailOK
  <1> QED BY <1>11, <1>17, <1>23 DEF IInv, WInv

LEMMA StepHolds == IInv /\ [Next]_vars => IInv'
  <1> SUFFICES ASSUME IInv, [Next]_vars PROVE IInv'
    OBVIOUS
  <1>1. CASE ReadImage \/ WriteStatus \/ ResolveSource \/ \E s \in {1, 2} : Edit(s)
    BY <1>1, ImageStepsKeep
  <1>2. CASE PodSteps \/ GenerateFails \/ DeletePod
    BY <1>2, PodStepsKeep
  <1>3. CASE Waiting
    BY <1>3, WaitingKeeps
  <1>4. CASE Tailing \/ WatchCloses \/ StreamFails
    BY <1>4, HandleStep, SendStep, EndOfEventStep, WatchClosesStep, StreamStep DEF Tailing
  <1>5. CASE UNCHANGED vars
    <2>1. UNCHANGED <<specs, img, rec, builds, wait, tail, stream, out, closed>>
      BY <1>5 DEF vars
    <2>2. WInv' /\ WaitedFor' = WaitedFor /\ TailOK
      BY <2>1, WaitKept DEF IInv
    <2>3. TailOK'
      BY <2>1, <2>2 DEF TailOK
    <2> QED BY <2>2, <2>3 DEF IInv
  <1> QED BY <1>1, <1>2, <1>3, <1>4, <1>5 DEF Next

LEMMA Inductive == Spec => []IInv
  BY InitHolds, StepHolds, PTL DEF Spec

-----------------------------------------------------------------------------
(* The theorems. *)

\* imageWaiter.Wait compares the status with the generation it was called for and reads that of
\* the event: however often the Image is edited again and in whatever order the controllers
\* write, an image it reports is of the update waited for.
THEOREM WaitCorrect == Spec => []WaitReportsItsGeneration
  <1>1. IInv => WaitReportsItsGeneration
    BY DEF IInv, WInv, WaitOK, WaitReportsItsGeneration
  <1> QED BY <1>1, Inductive, PTL

\* watchReadyContainers and streamLogsForContainer: for any number of steps whose containers
\* start in any order, the logs are those of the steps in their order, each once, and none
\* that worked is missing, the one that failed included, when the tail ends without an error
\* or a closed watch.
THEOREM TailCorrect == Spec => []TailIsFaithful
  <1>1. ASSUME IInv PROVE LogsInStepOrder
    <2>1. TailOK /\ out \in Seq(Nat)
      BY <1>1 DEF IInv, TailOK
    <2>2. DOMAIN out = 1 .. Len(out)
      BY <2>1, LenProperties
    <2> QED BY <2>1, <2>2 DEF TailOK, LogsInStepOrder
  <1>2. ASSUME IInv PROVE TailIsComplete
    <2>1. stream = "done" /\ ~closed => Worked(WaitedFor.pod) <= Len(out)
      BY <1>2 DEF IInv, TailOK, Follows
    <2>2. Worked(WaitedFor.pod) \in Nat /\ Len(out) \in Nat
      BY <1>2, WaitedForWorked, LenProperties DEF IInv, TailOK
    <2> QED BY <2>1, <2>2 DEF TailIsComplete
  <1>3. IInv => TailIsFaithful
    BY <1>1, <1>2 DEF TailIsFaithful
  <1> QED BY <1>3, Inductive, PTL

=============================================================================
