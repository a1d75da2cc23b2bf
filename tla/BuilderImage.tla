----------------------------- MODULE BuilderImage -----------------------------
(***************************************************************************)
(* How kpack puts a builder image together (pkg/cnb): the buildpacks that  *)
(* ClusterStores, Buildpacks and ClusterBuildpacks offer, the resolution   *)
(* of a reference to one of them, the layers fetched for it and for the    *)
(* buildpacks of its order, and the image written from them and from the   *)
(* mixins of the stack.                                                    *)
(*                                                                         *)
(* An offer is a buildpack as a store or object lists it: its id, version  *)
(* and homepage, the layer (diffId, size) that holds it, its buildpack     *)
(* API, the stacks it runs on and, for a meta-buildpack, its order.        *)
(* Versions and APIs are numbers; a version in NotSemver has a text that   *)
(* is no semantic version.  A mixin is a name with the stage it is limited *)
(* to, "" for none.                                                        *)
(***************************************************************************)
EXTENDS Integers, FiniteSets, Lists

CONSTANTS
    NotSemver,        \* versions that are not semantic versions
    MaxDepth,         \* depth of the orders of meta-buildpacks
    Cases             \* inputs of CreateBuilder: sources, order, stack, lifecycle

\* Offers as the readers of buildpackages make them: their lists are lists, and what
\* orders or compares them is a number.
AreOffers(offers) ==
    /\ IsList(offers)
    /\ \A o \in Range(offers) :
         /\ {o.id, o.version, o.size, o.image} \subseteq Nat
         /\ IsList(o.order) /\ IsList(o.stacks)
         /\ \A s \in Range(o.stacks) : \A x \in s.mixins : DOMAIN x = {"name", "stage"}

AreObjects(objects) == IsList(objects) /\ \A o \in Range(objects) : AreOffers(o.offers)

\* The API server holds one object of a name.
NamesDiffer(objects) ==
    \A i, j \in DOMAIN objects : objects[i].name = objects[j].name => i = j

\* An image lists its buildpacks in a map from id and version.
ListedOnce(offers) ==
    \A o, p \in Range(offers) :
        o.id = p.id /\ o.version = p.version /\ o.image = p.image => o = p

ASSUME DepthAssumption == MaxDepth \in Nat

ASSUME CasesAssumption ==
    \A c \in Cases :
        /\ DOMAIN c.sources = {"buildpacks", "clusterBuildpacks", "store"}
        /\ AreObjects(c.sources.buildpacks) /\ NamesDiffer(c.sources.buildpacks)
        /\ AreObjects(c.sources.clusterBuildpacks) /\ NamesDiffer(c.sources.clusterBuildpacks)
        /\ AreObjects(c.sources.store)
        /\ \A o \in Range(c.sources.store) : ListedOnce(o.offers)
        /\ IsList(c.order) /\ \A group \in Range(c.order) : IsList(group)

VARIABLES
    case,             \* the input
    done,             \* how many groups of the order have been added
    order,            \* builderBlder.order
    layers,           \* builderBlder.buildpackLayers
    image             \* the image, an error, or what is not yet there

vars == <<case, done, order, layers, image>>

Unversioned == 0
Error == [ok |-> FALSE]
NotYet == [ok |-> FALSE, pending |-> TRUE]

---------------------------------------------------------------------------
(***************************************************************************)
(* What the sources offer.                                                 *)
(***************************************************************************)

\* All that is offered.
Offers(sources) ==
    UNION {Range(o.offers) : o \in Range(sources.buildpacks)
                                     \cup Range(sources.clusterBuildpacks)
                                     \cup Range(sources.store)}

\* The text of an id and a version, and the order of texts.
Text(o) == <<o.id, o.version>>
TextBefore(o, p) == o.id < p.id \/ (o.id = p.id /\ o.version < p.version)

StoreBefore(o, p) == TextBefore(o, p) \/ (Text(o) = Text(p) /\ o.image < p.image)

\* RemoteBuildpackReader.Read: store images are read at once and their offers
\* arrive in any order; what is kept is sorted by text, then by store image.  What
\* neither tells apart, sort.Slice may leave in any order.
StoreReader(arrived) ==
    {list \in {[i \in DOMAIN arrived |-> arrived[p[i]]] : p \in SetToSeqs(DOMAIN arrived)} :
        \A i, j \in DOMAIN list : StoreBefore(list[i], list[j]) => i < j}

\* The offers of the id in a list of objects, each with the source it is from.
Matching(id, objects, source) ==
    FlattenSeq([k \in 1..Len(objects) |->
        LET offers == objects[k].offers
            mine   == Pick(offers, {j \in DOMAIN offers : offers[j].id = id})
        IN  [j \in 1..Len(mine) |-> [ok |-> TRUE, offer |-> mine[j], source |-> source]]])

resolveFromBuildpack(id, objects) == Matching(id, objects, 1)
resolveFromClusterBuildpack(id, objects) == Matching(id, objects, 2)
resolveFromClusterStore(id, store) == Matching(id, store, 3)

\* findBuildpack, findClusterBuildpack: the first object of that name, if any.
Named(objects, name) ==
    LET first == SelectInSeq(objects, LAMBDA o : o.name = name)
    IN  IF first = 0 THEN <<>> ELSE <<objects[first]>>

\* NewTree: the offers that no order of the same object uses.
Roots(offers) ==
    LET used == UNION {{child.id : child \in Range(o.order)} : o \in Range(offers)}
    IN  Pick(offers, {k \in DOMAIN offers : offers[k].id \notin used})

\* resolveFromObjectReference: the one root of the object; with the same id
\* listed twice, the later entry.
resolveFromObjectReference(objects, source) ==
    LET offers == Head(objects).offers
        roots  == Roots(offers)
    IN  IF objects = <<>> \/ Len(roots) # 1 THEN Error
        ELSE [ok |-> TRUE, source |-> source,
              offer |-> offers[SelectLastInSeq(offers, LAMBDA o : o.id = roots[1].id)]]

\* highestVersion: a stable sort by version, of which the last one is taken; a
\* version that is no semantic version makes it fail.
highestVersion(matching) ==
    IF \E k \in 1..Len(matching) : matching[k].offer.version \in NotSemver THEN Error
    ELSE matching[SelectLastInSeq(matching, LAMBDA m :
             \A k \in 1..Len(matching) : matching[k].offer.version <= m.offer.version)]

\* The offers a reference may mean.  A reference names an object, an id, or both.
Candidates(sources, ref) ==
    CASE ref.kind = "Buildpack" /\ ref.id # 0 ->
            resolveFromBuildpack(ref.id, Named(sources.buildpacks, ref.name))
      [] ref.kind = "ClusterBuildpack" /\ ref.id # 0 ->
            resolveFromClusterBuildpack(ref.id, Named(sources.clusterBuildpacks, ref.name))
      [] ref.kind = "Buildpack" /\ ref.id = 0 ->
            <<resolveFromObjectReference(Named(sources.buildpacks, ref.name), 1)>>
      [] ref.kind = "ClusterBuildpack" /\ ref.id = 0 ->
            <<resolveFromObjectReference(Named(sources.clusterBuildpacks, ref.name), 2)>>
      [] ref.kind = "" /\ ref.id # 0 ->
            resolveFromBuildpack(ref.id, sources.buildpacks)
              \o resolveFromClusterBuildpack(ref.id, sources.clusterBuildpacks)
              \o resolveFromClusterStore(ref.id, sources.store)
      [] OTHER -> <<>>

\* What resolve takes of the candidates.
Chosen(matching, version) ==
    LET exact == SelectInSeq(matching, LAMBDA m : m.ok /\ m.offer.version = version)
    IN  IF matching = <<>> \/ ~matching[1].ok THEN Error
        ELSE IF version = Unversioned THEN highestVersion(matching)
        ELSE IF exact = 0 THEN Error ELSE matching[exact]

\* buildpackResolver.resolve
resolve(sources, ref) == Chosen(Candidates(sources, ref), ref.version)

---------------------------------------------------------------------------
(***************************************************************************)
(* Fetching: a buildpack's layers are those of the buildpacks in its       *)
(* order, each resolved by id and version among all sources, then its own. *)
(***************************************************************************)

ChildRef(child) == [kind |-> "", name |-> 0, id |-> child.id, version |-> child.version]

\* What fetching gives for the entry of an order that resolve found.
FetchedChild(found, fetched) == IF found.ok THEN fetched[found.offer] ELSE Error

\* The layers of the entries of an order, if there are all of them, and the buildpack's own.
WithOwnLayer(parts, offer) ==
    IF \E k \in 1..Len(parts) : ~parts[k].ok THEN Error
    ELSE [ok |-> TRUE,
          offers |-> FlattenSeq([k \in 1..Len(parts) |-> parts[k].offers]) \o <<offer>>]

\* layersForOrder, and the layer of the buildpack itself, with what fetching gives
\* for the buildpacks in its order.
layersForOrder(sources, offer, fetched) ==
    WithOwnLayer([k \in 1..Len(offer.order) |->
                     FetchedChild(resolve(sources, ChildRef(offer.order[k])), fetched)], offer)

\* fetch; nothing in the code stops an order that contains itself, so the model
\* gives up when orders are nested deeper than MaxDepth.
fetch(sources, offer) ==
    LET upTo[depth \in 0..MaxDepth + 1] ==
            [o \in Offers(sources) |->
                IF depth = 0 THEN Error ELSE layersForOrder(sources, o, upTo[depth - 1])]
    IN  upTo[MaxDepth + 1][offer]

\* Mutant of ResolveAndFetch: the order of a meta-buildpack is not followed.
ResolveAndFetch_shallow(sources, ref) ==
    LET found == resolve(sources, ref)
    IN  IF ~found.ok THEN Error
        ELSE [ok |-> TRUE, offer |-> found.offer, offers |-> <<found.offer>>]

\* ResolveAndFetch
ResolveAndFetch(sources, ref) ==
    LET found == resolve(sources, ref)
    IN  IF ~found.ok THEN Error
        ELSE LET fetched == fetch(sources, found.offer)
             IN  IF ~fetched.ok THEN Error
                 ELSE [ok |-> TRUE, offer |-> found.offer, offers |-> fetched.offers]

---------------------------------------------------------------------------
(***************************************************************************)
(* Stacks: what a stack image pair provides, and whether a buildpack may   *)
(* run on it.                                                              *)
(***************************************************************************)

InStage(mixins, stage) == {x \in mixins : x.stage = stage}

\* Mutant of StackMixins: mixins of the run image alone count as common.
StackMixins_union(build, run) ==
    IF InStage(build, "run") # {} \/ InStage(run, "build") # {} THEN Error
    ELSE [ok |-> TRUE, mixins |-> build \cup run]

\* mixins, classifyMixins and missingCommonRunMixins of the stack reader.
StackMixins(build, run) ==
    IF \/ InStage(build, "run") # {} \/ InStage(run, "build") # {}
       \/ ~(InStage(build, "") \subseteq InStage(run, ""))
    THEN Error
    ELSE [ok |-> TRUE, mixins |-> InStage(build, "") \cup InStage(build, "build")
                                    \cup InStage(run, "run")]

\* RemoteStackReader.Read: both images must carry the label of the stack, and the
\* build image the user and the group that builds run as.
ReadStack(id, build, run) ==
    IF build.label # id \/ run.label # id \/ ~build.user THEN Error
    ELSE StackMixins(build.mixins, run.mixins)

\* RemoteLifecycleReader.Read: both labels must be there; of the APIs the versions
\* still supported and the deprecated ones are told apart.
ReadLifecycle(img) ==
    IF ~img.labelled THEN Error
    ELSE [ok |-> TRUE, platform |-> img.platform, buildpack |-> img.buildpack]

\* mixinPresent
mixinPresent(provided, x, relaxed) ==
    \/ x \in provided
    \/ relaxed /\ x.stage # "" /\ [x EXCEPT !.stage = ""] \in provided
    \/ /\ relaxed /\ x.stage = ""
       /\ [x EXCEPT !.stage = "build"] \in provided /\ [x EXCEPT !.stage = "run"] \in provided

AnyStack == "*"
AnyStackMinimumVersion == 5

\* BuildpackLayerInfo.supports: the first stack that fits decides.
supports(o, apis, stackId, provided, relaxed) ==
    LET fits == SelectInSeq(o.stacks, LAMBDA s :
                    s.id = stackId \/ (s.id = AnyStack /\ o.api >= AnyStackMinimumVersion))
    IN  \/ o.order # <<>>
        \/ /\ o.api \in apis
           /\ \/ o.stacks = <<>>
              \/ /\ fits # 0
                 /\ \A x \in o.stacks[fits].mixins : mixinPresent(provided, x, relaxed)

SupportedPlatformApis == 3..8
RelaxedMixinMinPlatformAPI == 7

\* validateBuilder, validatePlatformApis and relaxedMixinContract.
validateBuilder(kept, stackId, mixins, lifecycle) ==
    LET all(apis) == apis.deprecated \cup apis.supported
        relaxed   == \E api \in all(lifecycle.platform) : api >= RelaxedMixinMinPlatformAPI
    IN  /\ all(lifecycle.platform) \cap SupportedPlatformApis # {}
        /\ \A key \in DOMAIN kept :
             supports(kept[key], all(lifecycle.buildpack), stackId, mixins, relaxed)

\* platformMatches: an architecture or variant that one side leaves out fits.
platformMatches(want, got) ==
    /\ want.os = got.os
    /\ want.arch # "" /\ got.arch # "" => want.arch = got.arch
    /\ want.variant # "" /\ got.variant # "" => want.variant = got.variant

---------------------------------------------------------------------------
(***************************************************************************)
(* The image.                                                              *)
(***************************************************************************)

\* DescriptiveBuildpackInfo, the key of a layer.
Key(o) == [id |-> o.id, version |-> o.version, page |-> o.page]

\* The layers added by a group: the last layer of a key replaces the others.
AddLayers(kept, offers) ==
    [k \in DOMAIN kept \cup {Key(o) : o \in Range(offers)} |->
        LET last == SelectLastInSeq(offers, LAMBDA o : Key(o) = k)
        IN  IF last = 0 THEN kept[k] ELSE offers[last]]

\* deterministicSortBySize: largest first, then by text from the last to the
\* first.  Keys that differ in neither stay in the order of a map iteration,
\* which is any.
SortsBefore(a, b) == a.size > b.size \/ (a.size = b.size /\ TextBefore(b, a))

\* Mutant of SortedBySize: sizes alone decide.
SortedBySize_sizes(kept) ==
    {s \in SetToSeqs(DOMAIN kept) :
        \A i, j \in 1..Len(s) : kept[s[i]].size > kept[s[j]].size => i < j}

SortedBySize(kept) ==
    {s \in SetToSeqs(DOMAIN kept) :
        \A i, j \in 1..Len(s) : SortsBefore(kept[s[i]], kept[s[j]]) => i < j}

\* deduplicateLayers: the first layer of each diffId.
deduplicateLayers(seq) == Distinct(seq)

\* The layers before and after those of the buildpacks: the default directories
\* and the lifecycle; stack.toml and order.toml.
LayersBefore == <<"dirs", "lifecycle">>
LayersAfter == <<"stack", "order">>

\* The images WriteableImage may write: their layers, and the order and the
\* buildpacks of their labels.
WriteableImages(kept, groups) ==
    {[ok |-> TRUE, order |-> groups, buildpacks |-> s,
      layers |-> deduplicateLayers(LayersBefore \o [k \in 1..Len(s) |-> kept[s[k]].diff]
                                                \o LayersAfter)]
        : s \in SortedBySize(kept)}

Groups == case.order
NoLayers == [k \in {} |-> {}]

Init ==
    /\ case \in Cases
    /\ done = 0 /\ order = <<>> /\ layers = NoLayers
    /\ image = NotYet

Stack == ReadStack(case.stack.id, case.stack.build, case.stack.run)
Lifecycle == ReadLifecycle(case.lifecycle)

\* What is checked before the buildpacks: stack and lifecycle must have been read,
\* AddStack refuses windows and getLifecycleLayer a lifecycle for another platform.
InputsOk ==
    /\ Stack.ok /\ Lifecycle.ok
    /\ case.stack.platform.os # "windows"
    /\ platformMatches(case.stack.platform, case.lifecycle.platformOf)

RefuseInputs ==
    /\ image = NotYet /\ ~InputsOk
    /\ image' = Error
    /\ UNCHANGED <<case, done, order, layers>>

\* One group: its references are resolved and fetched one after the other, and
\* AddGroup takes them all.
AddGroup ==
    /\ image = NotYet /\ InputsOk /\ done < Len(Groups)
    /\ LET group == Groups[done + 1]
           found == [k \in 1..Len(group) |-> ResolveAndFetch(case.sources, group[k])]
       IN  IF \E k \in 1..Len(found) : ~found[k].ok
           THEN image' = Error /\ UNCHANGED <<done, order, layers>>
           ELSE /\ layers' = AddLayers(layers,
                                FlattenSeq([k \in 1..Len(found) |-> found[k].offers]))
                /\ order' = Append(order, [k \in 1..Len(found) |->
                                [id |-> found[k].offer.id, version |-> found[k].offer.version]])
                /\ done' = done + 1
                /\ UNCHANGED image
    /\ UNCHANGED case

WriteImage ==
    /\ image = NotYet /\ InputsOk /\ done = Len(Groups)
    /\ image' \in IF validateBuilder(layers, case.stack.id, Stack.mixins, Lifecycle)
                  THEN WriteableImages(layers, order) ELSE {Error}
    /\ UNCHANGED <<case, done, order, layers>>

Next == RefuseInputs \/ AddGroup \/ WriteImage

Spec == Init /\ [][Next]_vars

---------------------------------------------------------------------------
(***************************************************************************)
(* Properties.                                                             *)
(***************************************************************************)

References(c) == UNION {Range(c.order[k]) : k \in 1..Len(c.order)}

\* No id and version is offered twice with different layers or texts.
Unambiguous(sources) ==
    \A o, p \in Offers(sources) : Text(o) = Text(p) => o.diff = p.diff /\ o.page = p.page

\* The listers hand out objects in any order; as long as no id and version is
\* offered with two contents, what a reference resolves to does not depend on it.
ResolutionIgnoresListingOrder ==
    Unambiguous(case.sources) =>
        \A ref \in References(case),
           listed \in SetToSeqs(Range(case.sources.buildpacks)),
           clusterListed \in SetToSeqs(Range(case.sources.clusterBuildpacks)) :
            LET found == resolve(case.sources, ref)
                other == resolve([case.sources EXCEPT !.buildpacks = listed,
                                                      !.clusterBuildpacks = clusterListed], ref)
            IN  found.ok = other.ok /\ (found.ok => Key(found.offer) = Key(other.offer))

\* docs/builders.md: "kpack will try to find the buildpack (and version) in the
\* following order: [Buildpacks, ClusterBuildpacks, the ClusterStore]".  Of the
\* sources that offer the version chosen, the first is the one it comes from.
ResolvesInDocumentedOrder ==
    \A ref \in References(case) :
        LET found == resolve(case.sources, ref)
        IN  found.ok /\ ref.kind = "" =>
              \A m \in Range(Candidates(case.sources, ref)) :
                  m.offer.version = found.offer.version => found.source <= m.source

\* An image is complete: every buildpack its order names is in it at that very
\* version, and so is a buildpack for every entry of the order of every
\* meta-buildpack in it, whichever objects they came from.
ImageIsClosed ==
    image.ok =>
        /\ \A k \in 1..Len(image.order) : \A r \in Range(image.order[k]) :
             \E key \in DOMAIN layers : key.id = r.id /\ key.version = r.version
        /\ \A key \in DOMAIN layers : \A child \in Range(layers[key].order) :
             \E other \in DOMAIN layers :
                 other.id = child.id /\ (child.version \in {Unversioned, other.version})
        /\ \A key \in DOMAIN layers : Contains(image.layers, layers[key].diff)

\* Each layer is appended once, though several buildpacks may share it.
LayersAreDistinct ==
    image.ok => \A i, j \in 1..Len(image.layers) :
                    image.layers[i] = image.layers[j] => i = j

\* A builder image holds all that its order can reach, each layer of it once.
ImageIsComplete == ImageIsClosed /\ LayersAreDistinct

\* Store images are read at once: the list a ClusterStore reports must not depend
\* on which answered first.
StoreReadIsDeterministic ==
    \A o \in Range(case.sources.store) :
        Cardinality(UNION {StoreReader(arrived) : arrived \in SetToSeqs(Range(o.offers))}) = 1

\* The same inputs, in whatever order they arrive, give the same image, unless an id
\* and version is there twice: the same layers in the same order under any order of
\* the map they are kept in, the same buildpacks (id, version, homepage) resolved
\* from any listing, the same list from any order of answers.  A builder whose digest
\* moved by itself would rebuild every Image that uses it.
ImageIsDeterministic ==
    /\ image.ok /\ Unambiguous(case.sources) => WriteableImages(layers, order) = {image}
    /\ ResolutionIgnoresListingOrder
    /\ StoreReadIsDeterministic

\* An image has the mixins it needs where it needs them: a buildpack in it that
\* asks for a mixin gets it in the build image, in the run image, or in both,
\* as the stage of the mixin says.
MixinsAreThere ==
    image.ok =>
        \A key \in DOMAIN layers : \A k \in 1..Len(layers[key].stacks) :
            layers[key].order = <<>> /\ Len(layers[key].stacks) = 1 =>
                \A x \in layers[key].stacks[k].mixins :
                    LET in(mixins, stage) == \E y \in mixins : y.name = x.name
                                                               /\ y.stage \in {"", stage}
                    IN  /\ x.stage \in {"", "build"} => in(case.stack.build.mixins, "build")
                        /\ x.stage \in {"", "run"} => in(case.stack.run.mixins, "run")
===============================================================================
