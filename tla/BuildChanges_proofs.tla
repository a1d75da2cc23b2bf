------------------------- MODULE BuildChanges_proofs -------------------------
(***************************************************************************)
(* The comparison of Builds for any wants, builders and number of changes: *)
(* no pod is generated from an object whose revision the comparison has    *)
(* blanked, and every image, built or rebased, is of the spec of its own   *)
(* Build.                                                                  *)
(***************************************************************************)
EXTENDS BuildChanges, SequenceTheorems, TLAPS

-----------------------------------------------------------------------------
(* Reasons. *)

Words == {"TRIGGER", "COMMIT", "CONFIG", "BUILDPACK", "STACK", "LIFECYCLE"}

LEMMA ReasonOfNone == reasonOf({}) = <<>>
  BY DEF reasonOf

LEMMA ReasonOfOne ==
    ASSUME NEW c
    PROVE  reasonOf({c}) = IF c.required /\ ~c.err THEN <<c.reason>> ELSE <<>>
  <1> DEFINE required == { d \in {c} : d.required /\ ~d.err }
  <1>1. CASE c.required /\ ~c.err
    <2>1. required = {c}
      BY <1>1
    <2>2. (CHOOSE d \in required : TRUE) = c
      BY <2>1
    <2> QED BY <1>1, <2>1, <2>2 DEF reasonOf
  <1>2. CASE ~(c.required /\ ~c.err)
    BY <1>2 DEF reasonOf
  <1> QED BY <1>1, <1>2

\* No reason: the build is not required, or there is an error.
LEMMA NoReason ==
    ASSUME NEW c, reasonOf({c}) = <<>>
    PROVE  ~(c.required /\ ~c.err)
  <1>1. <<c.reason>> # <<>>
    OBVIOUS
  <1> QED BY <1>1, ReasonOfOne

\* Two sequences make a sequence of one only when one of them is empty.
LEMMA OnlyOne ==
    ASSUME NEW a \in Seq(Words), NEW b \in Seq(Words), NEW v, Len(v) = 1, a \o b = v
    PROVE  \/ a = <<>> /\ b = v
           \/ a = v /\ b = <<>>
  <1>1. Len(a \o b) = Len(a) + Len(b) /\ Len(a) \in Nat /\ Len(b) \in Nat
    BY ConcatProperties, LenProperties
  <1>2. Len(a) + Len(b) = 1
    BY <1>1
  <1>3. Len(a) = 0 \/ Len(b) = 0
    BY <1>1, <1>2
  <1>4. a = <<>> \/ b = <<>>
    BY <1>3, EmptySeq
  <1>5. <<>> \o b = b /\ a \o <<>> = a
    BY ConcatEmptySeq
  <1> QED BY <1>4, <1>5

\* Each change gives its own reason or none.
LEMMA ReasonsOfChanges ==
    ASSUME NEW l, NEW s, NEW bld
    PROVE  /\ reasonOf(triggerChange(l)) \in {<<>>, <<"TRIGGER">>}
           /\ reasonOf(commitChange(l, s)) \in {<<>>, <<"COMMIT">>}
           /\ reasonOf(configChange(l, s)) \in {<<>>, <<"CONFIG">>}
           /\ reasonOf(buildpackChange(l, bld)) \in {<<>>, <<"BUILDPACK">>}
           /\ reasonOf(stackChange(l, bld)) \in {<<>>, <<"STACK">>}
           /\ reasonOf(lifecycleChange(l, bld)) \in {<<>>, <<"LIFECYCLE">>}
  <1>1. \A r, q, p : /\ reasonOf({Change(r, q, p)}) \in {<<>>, <<r>>}
                     /\ \A e : reasonOf({[Change(r, q, p) EXCEPT !.err = e]}) \in {<<>>, <<r>>}
    <2> SUFFICES ASSUME NEW r, NEW q, NEW p, NEW e
                 PROVE  /\ reasonOf({Change(r, q, p)}) \in {<<>>, <<r>>}
                        /\ reasonOf({[Change(r, q, p) EXCEPT !.err = e]}) \in {<<>>, <<r>>}
      OBVIOUS
    <2>1. Change(r, q, p).reason = r /\ [Change(r, q, p) EXCEPT !.err = e].reason = r
      BY DEF Change
    <2>2. /\ reasonOf({Change(r, q, p)}) \in {<<>>, <<Change(r, q, p).reason>>}
          /\ reasonOf({[Change(r, q, p) EXCEPT !.err = e]})
                \in {<<>>, <<[Change(r, q, p) EXCEPT !.err = e].reason>>}
      BY ReasonOfOne
    <2> QED BY <2>1, <2>2
  <1>2. reasonOf(triggerChange(l)) \in {<<>>, <<"TRIGGER">>}
    BY <1>1, ReasonOfNone DEF triggerChange
  <1>3. reasonOf(commitChange(l, s)) \in {<<>>, <<"COMMIT">>}
    BY <1>1, ReasonOfNone DEF commitChange
  <1>4. reasonOf(configChange(l, s)) \in {<<>>, <<"CONFIG">>}
    BY <1>1, ReasonOfNone DEF configChange
  <1>5. reasonOf(buildpackChange(l, bld)) \in {<<>>, <<"BUILDPACK">>}
    BY <1>1, ReasonOfNone DEF buildpackChange
  <1>6. reasonOf(stackChange(l, bld)) \in {<<>>, <<"STACK">>}
    BY <1>1, ReasonOfNone DEF stackChange
  <1>7. reasonOf(lifecycleChange(l, bld)) \in {<<>>, <<"LIFECYCLE">>}
    BY <1>1, ReasonOfNone DEF lifecycleChange
  <1> QED BY <1>2, <1>3, <1>4, <1>5, <1>6, <1>7

\* STACK is the only reason: the stack changed, commit and configuration did not.
LEMMA OnlyStack ==
    ASSUME NEW l, NEW s, NEW bld, Reasons(Processed(l, s, bld)) = <<"STACK">>
    PROVE  /\ reasonOf(commitChange(l, s)) = <<>>
           /\ reasonOf(configChange(l, s)) = <<>>
           /\ reasonOf(stackChange(l, bld)) = <<"STACK">>
  <1> DEFINE p1 == reasonOf(triggerChange(l))
             p2 == reasonOf(commitChange(l, s))
             p3 == reasonOf(configChange(l, s))
             p4 == reasonOf(buildpackChange(l, bld))
             p5 == reasonOf(stackChange(l, bld))
             p6 == reasonOf(lifecycleChange(l, bld))
             stack == <<"STACK">>
  <1>1. p1 \o (p2 \o (p3 \o (p4 \o (p5 \o p6)))) = <<"STACK">>
    BY DEF Reasons, Processed
  <1>2. /\ p1 \in {<<>>, <<"TRIGGER">>} /\ p2 \in {<<>>, <<"COMMIT">>} /\ p3 \in {<<>>, <<"CONFIG">>}
        /\ p4 \in {<<>>, <<"BUILDPACK">>} /\ p5 \in {<<>>, <<"STACK">>} /\ p6 \in {<<>>, <<"LIFECYCLE">>}
    BY ReasonsOfChanges
  <1> HIDE DEF p1, p2, p3, p4, p5, p6
  <1>3. /\ p1 # <<"STACK">> /\ p2 # <<"STACK">> /\ p3 # <<"STACK">> /\ p4 # <<"STACK">>
        /\ p6 # <<"STACK">>
    BY <1>2
  <1>4. /\ p1 \in Seq(Words) /\ p2 \in Seq(Words) /\ p3 \in Seq(Words) /\ p4 \in Seq(Words)
        /\ p5 \in Seq(Words) /\ p6 \in Seq(Words) /\ "STACK" \in Words
    <2>1. /\ "TRIGGER" \in Words /\ "COMMIT" \in Words /\ "CONFIG" \in Words
          /\ "BUILDPACK" \in Words /\ "STACK" \in Words /\ "LIFECYCLE" \in Words
      BY DEF Words
    <2>2. \A w \in Words : <<w>> \in Seq(Words) /\ <<>> \in Seq(Words)
      OBVIOUS
    <2> QED BY <1>2, <2>1, <2>2
  <1> DEFINE r5 == p5 \o p6
             r4 == p4 \o r5
             r3 == p3 \o r4
             r2 == p2 \o r3
  <1>5. r5 \in Seq(Words) /\ r4 \in Seq(Words) /\ r3 \in Seq(Words) /\ r2 \in Seq(Words)
    <2>1. r5 \in Seq(Words)
      BY <1>4, ConcatProperties
    <2>2. r4 \in Seq(Words)
      BY <1>4, <2>1, ConcatProperties
    <2>3. r3 \in Seq(Words)
      BY <1>4, <2>2, ConcatProperties
    <2> QED BY <1>4, <2>1, <2>2, <2>3, ConcatProperties
  <1>6. /\ p1 \o r2 = <<"STACK">> /\ r2 = p2 \o r3 /\ r3 = p3 \o r4 /\ r4 = p4 \o r5
        /\ r5 = p5 \o p6
    BY <1>1
  <1> DEFINE v == <<"STACK">>
  <1>7. Len(v) = 1 /\ p1 \o r2 = v
    BY <1>6
  <1>8. /\ p1 # v /\ p2 # v /\ p3 # v /\ p4 # v /\ p6 # v
    BY <1>3
  <1> HIDE DEF r2, r3, r4, r5, v
  <1>9. r2 = v
    <2>1. p1 \in Seq(Words) /\ r2 \in Seq(Words) /\ p1 # v
      BY <1>4, <1>5, <1>8
    <2> QED BY <1>7, <2>1, OnlyOne
  <1>10. p2 = <<>> /\ r3 = v
    <2>1. p2 \in Seq(Words) /\ r3 \in Seq(Words) /\ p2 # v /\ p2 \o r3 = v
      BY <1>4, <1>5, <1>6, <1>8, <1>9
    <2> QED BY <1>7, <2>1, OnlyOne
  <1>11. p3 = <<>> /\ r4 = v
    <2>1. p3 \in Seq(Words) /\ r4 \in Seq(Words) /\ p3 # v /\ p3 \o r4 = v
      BY <1>4, <1>5, <1>6, <1>8, <1>10
    <2> QED BY <1>7, <2>1, OnlyOne
  <1>12. r5 = v
    <2>1. p4 \in Seq(Words) /\ r5 \in Seq(Words) /\ p4 # v /\ p4 \o r5 = v
      BY <1>4, <1>5, <1>6, <1>8, <1>11
    <2> QED BY <1>7, <2>1, OnlyOne
  <1>13. p5 = v
    <2>1. p5 \in Seq(Words) /\ p6 \in Seq(Words) /\ p6 # v /\ p5 \o p6 = v
      BY <1>4, <1>6, <1>8, <1>12
    <2> QED BY <1>7, <2>1, OnlyOne
  <1> QED BY <1>10, <1>11, <1>13 DEF p2, p3, p5, v

-----------------------------------------------------------------------------
(* The inductive invariant. *)

\* The fields of a Build, and those of an image.
IsBuild(b) ==
    b = [env |-> b.env, url |-> b.url, rev |-> b.rev, builder |-> b.builder,
         reasons |-> b.reasons, priority |-> b.priority, lastBuild |-> b.lastBuild,
         triggered |-> b.triggered, done |-> b.done, status |-> b.status, image |-> b.image]

IsImage(img) ==
    img = [env |-> img.env, url |-> img.url, rev |-> img.rev, bps |-> img.bps,
           stack |-> img.stack, run |-> img.run, life |-> img.life]

\* The image is of the environment and source of the spec of b.
ImageOfSpec(img, b) ==
    IsImage(img) /\ img.env = b.env /\ img.url = b.url /\ img.rev = b.rev

\* A Build has a revision when its source is Git, and the image it is rebased on, if it is,
\* is of its own spec.
Sound(b) ==
    /\ IsBuild(b)
    /\ (b.rev = Nil) = ~IsGit(b.url)
    /\ rebasable(b) => ImageOfSpec(b.lastBuild.image, b)

\* The last success left an image of its spec, and reports it if it can be read.
SuccessIsSound(b) ==
    IsSuccess(b) => /\ ImageOfSpec(b.image, b)
                    /\ b.status.run # Nil => b.status.image = b.image

SameSpec(a, b) ==
    /\ a.env = b.env /\ a.url = b.url /\ a.rev = b.rev /\ a.builder = b.builder
    /\ a.reasons = b.reasons /\ a.lastBuild = b.lastBuild

IInv ==
    /\ want \in Wants
    /\ last # Nil => Sound(last) /\ SuccessIsSound(last)
    /\ held # Nil => held.build = Nil \/ (Sound(held.build) /\ held.build.done = "running")
    /\ blank => last.done # "running"
    /\ copy # Nil /\ copy.done = "running" => SameSpec(copy, last)
    /\ pod # Nil => /\ pod.env = last.env /\ pod.url = last.url /\ pod.rev = last.rev
                    /\ pod.rebase = rebasable(last)

-----------------------------------------------------------------------------
(* A Build that is made of a sound one is sound. *)

\* A Build whose only reason is STACK is rebased on an image that is of its spec.
LEMMA StackRebases ==
    ASSUME NEW l, NEW s \in Wants, NEW bld,
           l # Nil => Sound(l) /\ SuccessIsSound(l),
           ~AnyError(Processed(l, s, bld)), Reasons(Processed(l, s, bld)) = <<"STACK">>
    PROVE  /\ IsSuccess(l) /\ ImageOfSpec(lastBuild(l).image, l)
           /\ l.env = s.env /\ l.url = s.url /\ l.rev = s.rev
  <1>1. /\ reasonOf(commitChange(l, s)) = <<>>
        /\ reasonOf(configChange(l, s)) = <<>>
        /\ reasonOf(stackChange(l, bld)) = <<"STACK">>
    BY OnlyStack
  <1>2. <<"STACK">> # <<>>
    OBVIOUS
  <1>3. IsSuccess(l)
    BY <1>1, <1>2, ReasonOfNone DEF stackChange
  <1>4. l # Nil /\ l.done = "ok"
    BY <1>3 DEF IsSuccess
  <1>5. l.status.run # Nil
    <2> DEFINE c == [Change("STACK", l.status.run # bld.run, Low) EXCEPT !.err = l.status.run = Nil]
    <2>1. Processed(l, s, bld)[5] = {c} /\ 5 \in DOMAIN Processed(l, s, bld)
      BY <1>3 DEF Processed, stackChange
    <2>2. c.err = (l.status.run = Nil)
      BY DEF Change
    <2> QED BY <2>1, <2>2 DEF AnyError
  <1>6. lastBuild(l).image = l.status.image
    BY <1>3, <1>4 DEF lastBuild
  <1>7. l.env = s.env /\ l.url = s.url
    <2> DEFINE c == Change("CONFIG", l = Nil \/ l.env # s.env \/ l.url # s.url, High)
    <2>1. configChange(l, s) = {c}
      BY DEF configChange
    <2>2. ~(c.required /\ ~c.err)
      BY <1>1, <2>1, NoReason
    <2>3. c.err = FALSE /\ c.required = (l = Nil \/ l.env # s.env \/ l.url # s.url)
      BY DEF Change
    <2> QED BY <2>2, <2>3
  <1>8. l.rev = s.rev
    <2>1. CASE IsGit(l.url)
      <3> DEFINE c == Change("COMMIT", l.rev # s.rev, High)
      <3>1. commitChange(l, s) = {c}
        BY <1>4, <1>7, <2>1 DEF commitChange
      <3>2. ~(c.required /\ ~c.err)
        BY <1>1, <3>1, NoReason
      <3>3. c.err = FALSE /\ c.required = (l.rev # s.rev)
        BY DEF Change
      <3> QED BY <3>2, <3>3
    <2>2. CASE ~IsGit(l.url)
      <3>1. l.rev = Nil
        BY <1>4, <2>2 DEF Sound
      <3>2. s.rev = Nil
        BY <1>7, <2>2, InputsAssumption DEF IsGit
      <3> QED BY <3>1, <3>2
    <2> QED BY <2>1, <2>2
  <1> QED BY <1>3, <1>4, <1>5, <1>6, <1>7, <1>8 DEF SuccessIsSound

LEMMA RequiredIsSound ==
    ASSUME NEW l, NEW s \in Wants, NEW bld, l # Nil => Sound(l) /\ SuccessIsSound(l),
           Required(l, s, bld) # Nil
    PROVE  Sound(Required(l, s, bld)) /\ Required(l, s, bld).done = "running"
  <1> DEFINE b == NewBuild(l, s, bld)
  <1>1. ~AnyError(Processed(l, s, bld)) /\ Required(l, s, bld) = b
    BY DEF Required
  <1>2. /\ IsBuild(b) /\ b.env = s.env /\ b.url = s.url /\ b.rev = s.rev /\ b.done = "running"
        /\ b.reasons = Reasons(Processed(l, s, bld)) /\ b.lastBuild = lastBuild(l)
    BY DEF NewBuild, IsBuild
  <1> HIDE DEF b
  <1>3. (b.rev = Nil) = ~IsGit(b.url)
    BY <1>2, InputsAssumption DEF IsGit
  <1>4. ASSUME rebasable(b)
        PROVE  ImageOfSpec(b.lastBuild.image, b)
    <2>1. Reasons(Processed(l, s, bld)) = <<"STACK">>
      BY <1>2, <1>4 DEF rebasable
    <2>2. /\ ImageOfSpec(lastBuild(l).image, l)
          /\ l.env = s.env /\ l.url = s.url /\ l.rev = s.rev
      BY <1>1, <2>1, StackRebases
    <2> QED BY <1>2, <2>2 DEF ImageOfSpec
  <1> QED BY <1>1, <1>2, <1>3, <1>4 DEF Sound

-----------------------------------------------------------------------------
(* The steps. *)

LEMMA CompareStep == IInv /\ StartCompare => IInv'
  <1> SUFFICES ASSUME IInv, StartCompare PROVE IInv'
    OBVIOUS
  <1>1. UNCHANGED <<want, builder, last, copy, pod>> /\ held' = [build |-> Required(last, want, builder)]
    BY DEF StartCompare
  <1>2. blank' => last.done # "running"
    BY DEF StartCompare, Compares, IsRunning
  <1>3. held'.build = Required(last, want, builder)
    BY <1>1
  <1>4. held'.build = Nil \/ (Sound(held'.build) /\ held'.build.done = "running")
    BY <1>3, RequiredIsSound DEF IInv
  <1> QED BY <1>1, <1>2, <1>4 DEF IInv

LEMMA DecideStep == IInv /\ Decide => IInv'
  <1> SUFFICES ASSUME IInv, Decide PROVE IInv'
    OBVIOUS
  <1>1. held # Nil /\ blank' = FALSE /\ held' = Nil /\ want' = want
    BY DEF Decide
  <1>2. CASE UNCHANGED <<last, copy, pod>>
    BY <1>1, <1>2 DEF IInv
  <1>3. CASE held.build # Nil /\ last' = held.build /\ pod' = Nil /\ copy' = Nil
    <2>1. Sound(last') /\ last'.done = "running"
      BY <1>1, <1>3 DEF IInv
    <2>2. SuccessIsSound(last')
      BY <2>1 DEF SuccessIsSound, IsSuccess
    <2> QED BY <1>1, <1>3, <2>1, <2>2 DEF IInv
  <1> QED BY <1>2, <1>3 DEF Decide

LEMMA CopyStep == IInv /\ CopyBuild => IInv'
  <1> SUFFICES ASSUME IInv, CopyBuild PROVE IInv'
    OBVIOUS
  <1>1. /\ last # Nil /\ copy' = [last EXCEPT !.rev = IF blank THEN Nil ELSE @]
        /\ UNCHANGED <<want, last, blank, held, pod>>
    BY DEF CopyBuild
  <1>2. IsBuild(last)
    BY <1>1 DEF IInv, Sound
  <1>3. copy'.done = last.done
    BY <1>1, <1>2 DEF IsBuild
  <1>4. ~blank => SameSpec(copy', last)
    BY <1>1, <1>2 DEF IsBuild, SameSpec
  <1>5. copy'.done = "running" => SameSpec(copy', last')
    BY <1>1, <1>3, <1>4 DEF IInv
  <1> QED BY <1>1, <1>5 DEF IInv

LEMMA PodStep == IInv /\ ReconcileCopy => IInv'
  <1> SUFFICES ASSUME IInv, ReconcileCopy PROVE IInv'
    OBVIOUS
  <1>1. copy # Nil /\ copy' = Nil /\ UNCHANGED <<want, last, blank, held>>
    BY DEF ReconcileCopy
  <1>2. CASE UNCHANGED pod
    BY <1>1, <1>2 DEF IInv
  <1>3. CASE /\ copy.done = "running"
             /\ pod' = [env |-> copy.env, url |-> copy.url, rev |-> copy.rev,
                        builder |-> copy.builder, rebase |-> rebasable(copy)]
    <2>1. SameSpec(copy, last)
      BY <1>1, <1>3 DEF IInv
    <2>2. /\ pod'.env = copy.env /\ pod'.url = copy.url /\ pod'.rev = copy.rev
          /\ pod'.rebase = rebasable(copy)
      BY <1>3
    <2>3. rebasable(copy) = rebasable(last)
      BY <2>1 DEF SameSpec, rebasable
    <2>4. /\ pod'.env = last'.env /\ pod'.url = last'.url /\ pod'.rev = last'.rev
          /\ pod'.rebase = rebasable(last')
      BY <1>1, <2>1, <2>2, <2>3 DEF SameSpec
    <2> QED BY <1>1, <2>4 DEF IInv
  <1> QED BY <1>2, <1>3 DEF ReconcileCopy

\* A change of the fields that are not of the spec.
LEMMA SpecKept ==
    ASSUME NEW b, NEW c, Sound(b), IsBuild(c), SameSpec(c, b)
    PROVE  Sound(c) /\ rebasable(c) = rebasable(b)
  <1>1. rebasable(c) = rebasable(b)
    BY DEF SameSpec, rebasable
  <1> QED BY <1>1 DEF Sound, SameSpec, ImageOfSpec

LEMMA SameSpecTransitive ==
    ASSUME NEW a, NEW b, NEW c, SameSpec(a, b), SameSpec(c, b)
    PROVE  SameSpec(a, c)
  BY DEF SameSpec

LEMMA ReplacedStep ==
    ASSUME IInv, last # Nil, IsBuild(last'), SameSpec(last', last), SuccessIsSound(last'),
           blank' = FALSE, UNCHANGED <<want, held, copy, pod>>
    PROVE  IInv'
  <1>1. Sound(last') /\ rebasable(last') = rebasable(last)
    BY SpecKept DEF IInv
  <1>2. copy' # Nil /\ copy'.done = "running" => SameSpec(copy', last')
    BY SameSpecTransitive DEF IInv
  <1>3. pod' # Nil => /\ pod'.env = last'.env /\ pod'.url = last'.url /\ pod'.rev = last'.rev
                      /\ pod'.rebase = rebasable(last')
    BY <1>1 DEF IInv, SameSpec
  <1> QED BY <1>1, <1>2, <1>3 DEF IInv

\* A pod leaves an image of the spec of its Build.
LEMMA ImagesAreOfSpec ==
    ASSUME IInv, last # Nil, pod # Nil, NEW img \in Images
    PROVE  ImageOfSpec(img, last)
  <1>1. CASE pod.rebase
    <2>1. ImageOfSpec(last.lastBuild.image, last)
      BY <1>1 DEF IInv, Sound
    <2>2. img = [last.lastBuild.image EXCEPT !.run = pod.builder.run]
      BY <1>1 DEF Images
    <2> DEFINE old == last.lastBuild.image
    <2>3. IsImage(old) /\ old.env = last.env /\ old.url = last.url /\ old.rev = last.rev
      BY <2>1 DEF ImageOfSpec
    <2>4. img = [old EXCEPT !.run = pod.builder.run]
      BY <2>2
    <2> HIDE DEF old
    <2>5. IsImage(img) /\ img.env = old.env /\ img.url = old.url /\ img.rev = old.rev
      BY <2>3, <2>4 DEF IsImage
    <2> QED BY <2>3, <2>5 DEF ImageOfSpec
  <1>2. CASE ~pod.rebase
    <2>1. PICK bps \in (SUBSET pod.builder.bps) \ {{}} : img = ImageOf(pod, bps)
      BY <1>2 DEF Images
    <2>2. IsImage(img) /\ img.env = pod.env /\ img.url = pod.url /\ img.rev = pod.rev
      BY <2>1 DEF ImageOf, IsImage
    <2> QED BY <2>2 DEF IInv, ImageOfSpec
  <1> QED BY <1>1, <1>2

LEMMA FinishStep == IInv /\ FinishBuild => IInv'
  <1> SUFFICES ASSUME IInv, FinishBuild PROVE IInv'
    OBVIOUS
  <1>1. last # Nil /\ pod # Nil /\ blank' = FALSE /\ UNCHANGED <<want, held, copy, pod>>
    BY DEF FinishBuild, IsRunning
  <1>2. IsBuild(last)
    BY <1>1 DEF IInv, Sound
  <1>3. CASE last' = [last EXCEPT !.done = "failed", !.status = Reported(Nil, FALSE)]
    <2>1. IsBuild(last') /\ SameSpec(last', last) /\ last'.done = "failed"
      BY <1>2, <1>3 DEF IsBuild, SameSpec
    <2>2. SuccessIsSound(last')
      BY <2>1 DEF SuccessIsSound, IsSuccess
    <2> QED BY <1>1, <2>1, <2>2, ReplacedStep
  <1>4. ASSUME NEW img \in Images, NEW labelled \in BOOLEAN,
               last' = [last EXCEPT !.done = "ok", !.image = img,
                                    !.status = Reported(img, labelled)]
        PROVE  IInv'
    <2>1. /\ IsBuild(last') /\ SameSpec(last', last) /\ last'.image = img
          /\ last'.status = Reported(img, labelled)
      BY <1>2, <1>4 DEF IsBuild, SameSpec
    <2>2. Reported(img, labelled).run # Nil => Reported(img, labelled).image = img
      BY <1>4 DEF Reported
    <2>3. ImageOfSpec(img, last)
      BY <1>1, ImagesAreOfSpec
    <2>4. ImageOfSpec(img, last')
      BY <2>1, <2>3 DEF ImageOfSpec, SameSpec
    <2>5. SuccessIsSound(last')
      BY <2>1, <2>2, <2>4 DEF SuccessIsSound
    <2> QED BY <1>1, <2>1, <2>5, ReplacedStep
  <1> QED BY <1>3, <1>4 DEF FinishBuild

LEMMA TriggerStep == IInv /\ Trigger => IInv'
  <1> SUFFICES ASSUME IInv, Trigger PROVE IInv'
    OBVIOUS
  <1>1. /\ last # Nil /\ last' = [last EXCEPT !.triggered = TRUE] /\ blank' = FALSE
        /\ UNCHANGED <<want, held, copy, pod>>
    BY DEF Trigger
  <1>2. IsBuild(last) /\ SuccessIsSound(last)
    BY <1>1 DEF IInv, Sound
  <1>3. /\ IsBuild(last') /\ SameSpec(last', last) /\ last'.image = last.image
        /\ last'.status = last.status /\ last'.done = last.done
    BY <1>1, <1>2 DEF IsBuild, SameSpec
  <1>4. SuccessIsSound(last')
    BY <1>1, <1>2, <1>3 DEF SuccessIsSound, IsSuccess, ImageOfSpec, SameSpec
  <1> QED BY <1>1, <1>3, <1>4, ReplacedStep

LEMMA UserStep == ASSUME IInv, want' \in Wants, UNCHANGED <<last, blank, held, copy, pod>>
                  PROVE  IInv'
  BY DEF IInv

LEMMA InitHolds == Init => IInv
  BY DEF Init, IInv

LEMMA StepHolds == IInv /\ [Next]_vars => IInv'
  <1> SUFFICES ASSUME IInv, [Next]_vars PROVE IInv'
    OBVIOUS
  <1>1. CASE StartCompare \/ Decide \/ CopyBuild \/ ReconcileCopy \/ FinishBuild \/ Trigger
    BY <1>1, CompareStep, DecideStep, CopyStep, PodStep, FinishStep, TriggerStep
  <1>2. ASSUME NEW s \in Wants, Edit(s) PROVE IInv'
    BY <1>2, UserStep DEF Edit
  <1>3. ASSUME NEW b \in Builders, UpdateBuilder(b) PROVE IInv'
    BY <1>3, UserStep DEF UpdateBuilder, IInv
  <1>4. CASE UNCHANGED vars
    BY <1>4, UserStep DEF vars, IInv
  <1> QED BY <1>1, <1>2, <1>3, <1>4 DEF Next

LEMMA Inductive == Spec => []IInv
  BY InitHolds, StepHolds, PTL DEF Spec

-----------------------------------------------------------------------------
(* The theorems. *)

\* configChange.IsBuildRequired blanks the revision of the object in the informer's store
\* while workers of the Build controller copy it: for every interleaving, the pod of a Build
\* has the revision, the source and the environment of the Build.
THEOREM PodsCorrect == Spec => []PodsHaveTheirRevision
  <1>1. IInv => PodsHaveTheirRevision
    BY DEF IInv, PodsHaveTheirRevision
  <1> QED BY <1>1, Inductive, PTL

\* A Build that succeeded, built or rebased, left an image of the environment and source its
\* own spec names, for any sequence of edits, builder changes, triggers, failures and images
\* that cannot be read.
THEOREM ImageCorrect == Spec => []ImageIsOfItsSpec
  <1>1. IInv => ImageIsOfItsSpec
    BY DEF IInv, ImageIsOfItsSpec, SuccessIsSound, ImageOfSpec, IsSuccess
  <1> QED BY <1>1, Inductive, PTL

=============================================================================
