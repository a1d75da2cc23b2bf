---------------------------- MODULE MCBuilderImage ----------------------------
(***************************************************************************)
(* Inputs for BuilderImage: one family that varies what the sources offer  *)
(* and what the order asks for, one that varies stack, lifecycle and the   *)
(* mixins a buildpack needs.  Ids 1 and 2 are buildpacks, 3 is a           *)
(* meta-buildpack whose order names any version of 1 and version 1 of 2.   *)
(***************************************************************************)
EXTENDS BuilderImage

Offer(id, version, diff, from) ==
    [id |-> id, version |-> version, diff |-> diff, size |-> 2, page |-> 1,
     api |-> 5, stacks |-> <<>>, order |-> <<>>, image |-> from]

A1 == Offer(1, 1, "a1", 1)
A2 == Offer(1, 2, "a2", 1)
OtherA1 == Offer(1, 1, "other", 2)
BadA == Offer(1, 9, "bad", 1)
B1 == Offer(2, 1, "a1", 1)
M1 == [Offer(3, 1, "m1", 1) EXCEPT !.size = 1,
          !.order = <<[id |-> 1, version |-> 0], [id |-> 2, version |-> 1]>>]

Object(name, offers) == [name |-> name, offers |-> offers]
Ref(kind, name, id, version) ==
    [kind |-> kind, name |-> name, id |-> id, version |-> version]
ById(id, version) == Ref("", 0, id, version)

Linux == [os |-> "linux", arch |-> "amd64", variant |-> ""]
StackImage(mixins) == [label |-> "stack", user |-> TRUE, mixins |-> mixins]
StackOf(build, run, platform) ==
    [id |-> "stack", build |-> build, run |-> run, platform |-> platform]
LifecycleOf(apis) ==
    [labelled |-> TRUE, platformOf |-> Linux, platform |-> apis,
     buildpack |-> [deprecated |-> {4}, supported |-> {5}]]
Apis(deprecated, supported) == [deprecated |-> deprecated, supported |-> supported]
Plain == LifecycleOf(Apis({}, {8}))

Orders ==
    { <<<<ById(1, 0)>>>>, <<<<ById(1, 1), ById(2, 1)>>>>,
      <<<<ById(1, 1)>>, <<ById(1, 2)>>, <<ById(2, 1)>>>>,
      <<<<Ref("Buildpack", 1, 0, 0)>>>>, <<<<Ref("ClusterBuildpack", 1, 0, 0)>>>>,
      <<<<Ref("Buildpack", 2, 1, 0)>>>>, <<<<Ref("ClusterBuildpack", 1, 1, 2)>>>>,
      <<<<ById(3, 0)>>>>, <<>> }

SourceCases ==
    { [sources |-> [buildpacks |-> <<Object(1, x), Object(2, y)>>,
                    clusterBuildpacks |-> <<Object(1, z)>>, store |-> w],
       order |-> o, stack |-> StackOf(StackImage({}), StackImage({}), Linux), lifecycle |-> Plain] :
        x \in {<<>>, <<A1>>, <<A2>>, <<BadA>>, <<A1, B1, M1>>},
        y \in {<<>>, <<A1>>, <<A2>>, <<OtherA1>>},
        z \in {<<>>, <<A2>>, <<A1, B1>>, <<A1, A2, B1, M1>>},
        w \in {<<>>, <<Object(1, <<A1, OtherA1, A2>>)>>, <<Object(1, <<B1>>)>>},
        o \in Orders }

Mixin(name, stage) == [name |-> name, stage |-> stage]
Staged == {Mixin("x", s) : s \in {"", "build", "run"}}

NeedsOf(mixins, stack) ==
    [A1 EXCEPT !.stacks = <<[id |-> stack, mixins |-> mixins]>>]

StackCase(need, id, stack, lifecycle) ==
    [sources |-> [buildpacks |-> <<>>, clusterBuildpacks |-> <<>>,
                  store |-> <<Object(1, <<NeedsOf(need, id)>>)>>],
     order |-> <<<<ById(1, 1)>>>>, stack |-> stack, lifecycle |-> lifecycle]

MixinCases ==
    { StackCase(need, id, StackOf(StackImage(build), StackImage(run), os), LifecycleOf(apis)) :
        need \in SUBSET Staged, id \in {"stack", "other", "*"},
        build \in SUBSET Staged, run \in SUBSET Staged,
        os \in {Linux, [Linux EXCEPT !.arch = "arm64"], [Linux EXCEPT !.arch = ""],
                [Linux EXCEPT !.os = "windows"]},
        apis \in {Apis({}, {2}), Apis({}, {6}), Apis({6}, {8})} }

LabelCases ==
    { StackCase({}, "stack", StackOf([StackImage({}) EXCEPT !.label = build, !.user = user],
                                     [StackImage({}) EXCEPT !.label = run], Linux),
                [Plain EXCEPT !.labelled = labelled]) :
        build \in {"stack", "other"}, run \in {"stack", "other"},
        user \in BOOLEAN, labelled \in BOOLEAN }

MCCases == SourceCases \cup MixinCases \cup LabelCases
===============================================================================
