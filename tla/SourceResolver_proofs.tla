------------------------ MODULE SourceResolver_proofs ------------------------
(***************************************************************************)
(* The SourceResolver controller for any commits, revisions and sub path   *)
(* trees, any number of pushes, edits and faults, with and without shallow *)
(* clones: type correctness, that polling never stops, that a Ready source *)
(* is of its generation, and that a build pod checks out what the revision *)
(* has named.                                                              *)
(***************************************************************************)
EXTENDS SourceResolver, TLAPS

-----------------------------------------------------------------------------
(* The answers of a resolver. *)

\* A config with a tree is the commit that has this tree at the sub path.
TreeIsOfCommit(s) ==
    s.tree # "" =>
        /\ s.revision \in Commits /\ s.subPath /\ ~IsUnknown(s)
        /\ s.tree = hashOfSubpath(TRUE, s.revision)

\* The revision of the config is one that was asked for and cannot be resolved, or one
\* that the revision asked for means now.
Answers(config, source) ==
    \/ /\ IsUnknown(config) \/ RefsNamed(config.revision) = {}
       /\ config.revision = source.revision
    \/ config.revision \in Heads(source.revision)

LEMMA RefTypes ==
    ASSUME refs \in [Refs -> Commits], NEW name
    PROVE  Heads(name) \subseteq Commits
  BY DEF Heads, RefsNamed

LEMMA HashTypes ==
    ASSUME NEW b \in BOOLEAN, NEW c \in Commits
    PROVE  /\ hashOfSubpath(b, c) \in Commits \cup {"", "tree"}
           /\ hashOfSubpath(b, c) # "" => b /\ hashOfSubpath(b, c) = hashOfSubpath(TRUE, c)
  BY DEF hashOfSubpath

\* A config made of a source has the type of configs.
LEMMA ResolvedType ==
    ASSUME NEW source \in SpecSources, NEW revision \in Revisions \cup Commits \cup {"location"},
           NEW tree \in Commits \cup {"", "tree"},
           NEW type \in {"Unknown", "Branch", "Tag", "Commit", "blob", "registry"}
    PROVE  Resolved(source, revision, tree, type) \in Config
  BY DEF Resolved, Config, SpecSources

LEMMA ListingAnswers ==
    ASSUME refs \in [Refs -> Commits], NEW source \in SpecSources, NEW fails \in BOOLEAN,
           NEW config \in ResolveByListingRemote(source, fails)
    PROVE  /\ config \in Config /\ config.kind = source.kind /\ config.tree = ""
           /\ config.subPath = source.subPath /\ Answers(config, source)
  <1>1. source.revision \in Revisions \cup Commits \cup {"location"}
    BY DEF SpecSources
  <1>2. CASE fails
    <2>1. config = Resolved(source, source.revision, "", "Unknown")
      BY <1>2 DEF ResolveByListingRemote
    <2>8. config \in Config
      BY <1>1, <2>1, ResolvedType
    <2>9. /\ config.kind = source.kind /\ config.revision = source.revision
          /\ config.tree = "" /\ config.type = "Unknown" /\ config.subPath = source.subPath
      BY <2>1 DEF Resolved
    <2> QED BY <2>8, <2>9 DEF Answers, IsUnknown
  <1>3. CASE ~fails /\ RefsNamed(source.revision) = {}
    <2>1. config = Resolved(source, source.revision, "", "Commit")
      BY <1>3 DEF ResolveByListingRemote
    <2>8. config \in Config
      BY <1>1, <2>1, ResolvedType
    <2>9. /\ config.kind = source.kind /\ config.revision = source.revision
          /\ config.tree = "" /\ config.type = "Commit" /\ config.subPath = source.subPath
      BY <2>1 DEF Resolved
    <2> QED BY <1>3, <2>8, <2>9 DEF Answers
  <1>4. CASE ~fails /\ RefsNamed(source.revision) # {}
    <2>1. PICK r \in RefsNamed(source.revision) :
            config = Resolved(source, refs[r], "", sourceType(r))
      BY <1>4 DEF ResolveByListingRemote
    <2>2. r \in Refs /\ r[2] = source.revision
      BY DEF RefsNamed
    <2>3. refs[r] \in Commits /\ sourceType(r) \in {"Branch", "Tag", "Unknown"}
      BY <2>2 DEF sourceType
    <2>4. source.revision \notin Commits
      BY <2>2, CommitsAssumption
    <2>5. refs[r] \in Heads(source.revision)
      BY <2>4 DEF Heads
    <2>8. config \in Config
      BY <2>1, <2>3, ResolvedType
    <2>9. /\ config.kind = source.kind /\ config.revision = refs[r]
          /\ config.tree = "" /\ config.type = sourceType(r) /\ config.subPath = source.subPath
      BY <2>1 DEF Resolved
    <2> QED BY <2>5, <2>8, <2>9 DEF Answers
  <1> QED BY <1>2, <1>3, <1>4

LEMMA CloningAnswers ==
    ASSUME refs \in [Refs -> Commits], NEW source \in SpecSources, NEW fails \in BOOLEAN,
           NEW config \in ResolveByCloning(source, fails)
    PROVE  /\ config \in Config /\ config.kind = source.kind
           /\ config.subPath = source.subPath
           /\ TreeIsOfCommit(config) /\ Answers(config, source)
  <1>0. source.subPath \in BOOLEAN
    BY DEF SpecSources
  <1>1. CASE fails
    <2>1. source.revision \in Commits /\ config = Resolved(source, source.revision, "", "Commit")
      BY <1>1 DEF ResolveByCloning
    <2>2. source.revision \in Heads(source.revision)
      BY <2>1 DEF Heads
    <2>8. config \in Config
      BY <2>1, ResolvedType
    <2>9. /\ config.kind = source.kind /\ config.revision = source.revision
          /\ config.tree = "" /\ config.type = "Commit" /\ config.subPath = source.subPath
      BY <2>1 DEF Resolved
    <2> QED BY <2>2, <2>8, <2>9 DEF TreeIsOfCommit, Answers
  <1>2. CASE ~fails
    <2>1. PICK o \in relevantFetchResolversFor(source.revision) :
            config = Resolved(source, o[1], hashOfSubpath(source.subPath, o[1]), o[2])
      BY <1>2 DEF ResolveByCloning
    <2>2. o[1] \in Heads(source.revision) /\ o[2] \in {"Commit", "Branch", "Tag"}
      <3>1. CASE source.revision \in Commits
        BY <3>1 DEF relevantFetchResolversFor, Heads
      <3>2. CASE source.revision \notin Commits /\ <<"branch", source.revision>> \in Refs
        <4>1. o = <<refs[<<"branch", source.revision>>], "Branch">>
          BY <3>2 DEF relevantFetchResolversFor
        <4>2. <<"branch", source.revision>> \in RefsNamed(source.revision)
          BY <3>2 DEF RefsNamed
        <4> QED BY <3>2, <4>1, <4>2 DEF Heads
      <3>3. CASE source.revision \notin Commits /\ <<"branch", source.revision>> \notin Refs
        <4>1. PICK r \in {<<"tag", source.revision>>} \cap Refs : o = <<refs[r], "Tag">>
          BY <3>3 DEF relevantFetchResolversFor
        <4>2. r \in RefsNamed(source.revision)
          BY DEF RefsNamed
        <4> QED BY <3>3, <4>1, <4>2 DEF Heads
      <3> QED BY <3>1, <3>2, <3>3
    <2>3. o[1] \in Commits
      BY <2>2, RefTypes
    <2>4. /\ hashOfSubpath(source.subPath, o[1]) \in Commits \cup {"", "tree"}
          /\ hashOfSubpath(source.subPath, o[1]) # "" =>
               source.subPath /\ hashOfSubpath(source.subPath, o[1]) = hashOfSubpath(TRUE, o[1])
      BY <1>0, <2>3, HashTypes
    <2>8. config \in Config
      BY <2>1, <2>2, <2>3, <2>4, ResolvedType
    <2>9. /\ config.kind = source.kind /\ config.revision = o[1]
          /\ config.tree = hashOfSubpath(source.subPath, o[1]) /\ config.type = o[2] /\ config.subPath = source.subPath
      BY <2>1 DEF Resolved
    <2> QED BY <2>2, <2>3, <2>4, <2>8, <2>9 DEF TreeIsOfCommit, Answers, IsUnknown
  <1> QED BY <1>1, <1>2

\* Every answer is a config of the source's kind; a config that is polled is of a git
\* source; and the revision of a git source is answered by what it means now.
LEMMA ResolveAnswers ==
    ASSUME refs \in [Refs -> Commits], NEW source \in SpecSources, NEW fails \in BOOLEAN,
           NEW config \in Resolve(source, fails)
    PROVE  /\ config \in Config /\ config.kind = source.kind
           /\ config.subPath = source.subPath /\ TreeIsOfCommit(config)
           /\ IsPollable(config) => source.kind = "git"
           /\ source.kind = "git" => Answers(config, source)
  <1>1. CASE source.kind # "git"
    <2>1. config = Resolved(source, source.revision, "", source.kind)
      BY <1>1 DEF Resolve
    <2>2. source.kind \in {"blob", "registry"} /\ source.revision \in Revisions \cup {"location"}
      BY <1>1, SourceAssumption DEF SpecSources
    <2>8. config \in Config
      BY <2>1, <2>2, ResolvedType
    <2>9. /\ config.kind = source.kind /\ config.revision = source.revision
          /\ config.tree = "" /\ config.type = source.kind /\ config.subPath = source.subPath
      BY <2>1 DEF Resolved
    <2> QED BY <1>1, <2>2, <2>8, <2>9 DEF TreeIsOfCommit, IsPollable
  <1>2. CASE source.kind = "git"
    <2>1. CASE shallow /\ source.subPath
      BY <1>2, <2>1, CloningAnswers DEF Resolve
    <2>2. CASE ~(shallow /\ source.subPath)
      <3>1. config \in ResolveByListingRemote(source, fails)
        BY <1>2, <2>2 DEF Resolve
      <3> QED BY <1>2, <3>1, ListingAnswers DEF TreeIsOfCommit
    <2> QED BY <2>1, <2>2
  <1> QED BY <1>1, <1>2

-----------------------------------------------------------------------------
(* The inductive invariant. *)

\* The generations of a copy o of the object now: a copy of the current generation has
\* the current source, and no status is of a later generation than its object.
Generations(o, now) ==
    /\ o.generation <= now.generation
    /\ o.generation = now.generation => o.source = now.source
    /\ o.status.observed <= o.generation

\* A status that polls is Ready and of a git source; a Ready one is of the source's kind
\* and sub path.
StatusFits(o) ==
    /\ o.status.polling => o.status.ready /\ o.status.source.kind = "git"
    /\ Ready(o) => /\ o.status.source.kind = o.source.kind
                   /\ o.status.source.subPath = o.source.subPath
    /\ TreeIsOfCommit(o.status.source)

\* What the source s of a Ready status may be, when names are the commits the revision
\* asked for has named since the last edit.
IsNamed(s, revision, names, clones) ==
    \/ /\ IsUnknown(s) \/ RefsNamed(s.revision) = {}
       /\ s.revision = revision
    \/ s.revision \in names
    \/ /\ clones /\ s.tree # ""
       /\ \E c \in names : hashOfSubpath(s.subPath, c) = s.tree

\* The Ready status of a copy of the current generation is of that generation.
StatusIsNamed(o, now, names, clones) ==
    o.generation = now.generation /\ Ready(o) /\ o.source.kind = "git"
        => IsNamed(o.status.source, now.source.revision, names, clones)

Fine(o, now, names, clones) ==
    Generations(o, now) /\ StatusFits(o) /\ StatusIsNamed(o, now, names, clones)

\* A copy of the current version is the object, and the status in hand is for the version
\* it was read from.
Versions ==
    /\ cache.version <= sr.version
    /\ cache.version = sr.version => cache = sr
    /\ work.pc = "update" =>
        /\ work.desired.version <= sr.version
        /\ work.desired.version = sr.version => work.desired.generation = sr.generation

\* The reconcile is idle or has a status in hand.
Works == work = Idle \/ work.pc = "update"

\* The counters of generations, and what the revision means now is named.
Counts ==
    /\ sr.generation = edits + 1 /\ fetched.of <= sr.generation
    /\ Heads(sr.source.revision) \subseteq named

IInv ==
    /\ TypeOK /\ Works /\ Counts /\ Versions
    /\ Fine(sr, sr, named, shallow) /\ Fine(cache, sr, named, shallow)
    /\ work.pc = "update" => Fine(work.desired, sr, named, shallow)
    /\ PollingNeverStops /\ FetchedIsNamed

-----------------------------------------------------------------------------
(* Objects: what the steps of the controller make of them. *)

LEMMA NoConfigType == NoConfig \in Config
  BY DEF NoConfig, Config

LEMMA ObjectFields ==
    ASSUME NEW o \in Object
    PROVE  /\ o.source \in SpecSources /\ o.generation \in 1 .. MaxEdits + 1
           /\ o.generation \in Nat /\ o.version \in Nat
           /\ o.status.observed \in Nat /\ o.status.source \in Config
  BY SourceAssumption DEF Object

\* Reconcile's answer: the status of the copy after ResolvedSource and the observed
\* generation.
Answered(o, config) ==
    [ResolvedSource(o, config) EXCEPT !.status.observed = ResolvedSource(o, config).generation]

LEMMA AnsweredFields ==
    ASSUME NEW o \in Object, NEW config \in Config
    PROVE  /\ Answered(o, config) \in Object
           /\ Answered(o, config).source = o.source
           /\ Answered(o, config).generation = o.generation
           /\ Answered(o, config).version = o.version
           /\ Answered(o, config).status.observed = o.generation
           /\ \/ /\ Answered(o, config).status.source = config
                 /\ Answered(o, config).status.ready
                 /\ Answered(o, config).status.polling = IsPollable(config)
              \/ /\ o.status.observed = o.generation
                 /\ Answered(o, config).status.source = o.status.source
                 /\ Answered(o, config).status.ready = o.status.ready
                 /\ Answered(o, config).status.polling = o.status.polling
           /\ PollingReady(ResolvedSource(o, config)) = Answered(o, config).status.polling
  <1> DEFINE r == ResolvedSource(o, config)
             st  == [o.status EXCEPT !.source = config, !.ready = TRUE,
                                     !.polling = IsPollable(config)]
             new == [o EXCEPT !.status = st]
  <1>1. IsPollable(config) \in BOOLEAN
    BY DEF IsPollable
  <1>2. /\ new \in Object /\ new.source = o.source /\ new.generation = o.generation
        /\ new.version = o.version /\ new.status.source = config /\ new.status.ready
        /\ new.status.polling = IsPollable(config)
    <2>1. /\ st \in [source : Config, ready : BOOLEAN, polling : BOOLEAN,
                     observed : 0 .. MaxEdits + 1]
          /\ st.source = config /\ st.ready /\ st.polling = IsPollable(config)
      BY <1>1 DEF Object
    <2> HIDE DEF st
    <2> QED BY <2>1 DEF Object
  <1>3. \/ r = new
        \/ r = o /\ o.status.observed = o.generation
    BY DEF ResolvedSource
  <1>4. r \in Object
    BY <1>2, <1>3
  <1>5. Answered(o, config) = [r EXCEPT !.status.observed = r.generation]
    BY DEF Answered
  <1> HIDE DEF r, new
  <1>6. /\ Answered(o, config) \in Object /\ Answered(o, config).source = r.source
        /\ Answered(o, config).generation = r.generation
        /\ Answered(o, config).version = r.version
        /\ Answered(o, config).status.observed = r.generation
        /\ Answered(o, config).status.source = r.status.source
        /\ Answered(o, config).status.ready = r.status.ready
        /\ Answered(o, config).status.polling = r.status.polling
    BY <1>4, <1>5 DEF Object
  <1>7. PollingReady(ResolvedSource(o, config)) = r.status.polling
    BY DEF PollingReady, r
  <1> QED BY <1>2, <1>3, <1>6, <1>7

\* The status that updateStatus sends.
Sent == IF shallow THEN retainCommitIfTreeUnchanged(cache.status, work.desired.status)
                   ELSE work.desired.status

LEMMA SentFields ==
    ASSUME cache \in Object, work.desired \in Object
    PROVE  LET d == work.desired.status
           IN  /\ Sent \in [source : Config, ready : BOOLEAN, polling : BOOLEAN,
                            observed : 0 .. MaxEdits + 1]
               /\ Sent.ready = d.ready /\ Sent.polling = d.polling /\ Sent.observed = d.observed
               /\ Sent.source.kind = d.source.kind /\ Sent.source.tree = d.source.tree
               /\ Sent.source.type = d.source.type /\ Sent.source.subPath = d.source.subPath
               /\ \/ Sent.source = d.source
                  \/ /\ shallow /\ d.source.tree # "" /\ cache.status.source.tree = d.source.tree
                     /\ Sent.source.revision = cache.status.source.revision
  <1> DEFINE d == work.desired.status
             kept == [d EXCEPT !.source.revision = cache.status.source.revision]
  <1>1. d \in [source : Config, ready : BOOLEAN, polling : BOOLEAN, observed : 0 .. MaxEdits + 1]
    BY DEF Object
  <1>2. cache.status.source.revision \in Revisions \cup Commits \cup {"", "location"}
    BY DEF Object, Config
  <1>3. \/ Sent = d
        \/ /\ Sent = kept /\ shallow /\ cache.status.source.tree # ""
           /\ cache.status.source.tree = d.source.tree
    BY DEF Sent, retainCommitIfTreeUnchanged
  <1> HIDE DEF d
  <1>4. /\ kept \in [source : Config, ready : BOOLEAN, polling : BOOLEAN, observed : 0 .. MaxEdits + 1]
        /\ kept.ready = d.ready /\ kept.polling = d.polling /\ kept.observed = d.observed
        /\ kept.source.kind = d.source.kind /\ kept.source.tree = d.source.tree
        /\ kept.source.type = d.source.type /\ kept.source.subPath = d.source.subPath
        /\ kept.source.revision = cache.status.source.revision
    BY <1>1, <1>2 DEF Config
  <1> HIDE DEF kept
  <1>5. CASE Sent = d
    BY <1>1, <1>5 DEF d
  <1>6. CASE Sent = kept /\ shallow /\ cache.status.source.tree # "" /\ cache.status.source.tree = d.source.tree
    BY <1>4, <1>6 DEF d
  <1> QED BY <1>3, <1>5, <1>6

-----------------------------------------------------------------------------
(* Facts about copies. *)

\* A copy stays fine while the generation lasts and more is named.
LEMMA MoreNames ==
    ASSUME NEW o, NEW now, NEW later, NEW n, NEW m, NEW sh,
           Fine(o, now, n, sh), n \subseteq m,
           later.generation = now.generation, later.source = now.source
    PROVE  Fine(o, later, m, sh)
  BY DEF Fine, Generations, StatusIsNamed, IsNamed

\* A copy stays fine when the object gets a new generation.
LEMMA NewGeneration ==
    ASSUME NEW o \in Object, NEW now \in Object, NEW later, NEW n, NEW m, NEW sh,
           Fine(o, now, n, sh), later.generation = now.generation + 1
    PROVE  Fine(o, later, m, sh)
  <1>1. o.generation \in Nat /\ now.generation \in Nat
    BY ObjectFields
  <1>2. o.generation <= now.generation
    BY DEF Fine, Generations
  <1>3. o.generation < later.generation
    BY <1>1, <1>2
  <1> QED BY <1>1, <1>3 DEF Fine, Generations, StatusIsNamed

\* The answer to a fine copy is fine.
LEMMA AnswerIsFine ==
    ASSUME TypeOK, NEW o \in Object, NEW fails \in BOOLEAN,
           NEW config \in Resolve(o.source, fails),
           Fine(o, sr, named, shallow), Heads(sr.source.revision) \subseteq named
    PROVE  /\ config \in Config
           /\ Fine(Answered(o, config), sr, named, shallow)
  <1> DEFINE a == Answered(o, config)
  <1>1. refs \in [Refs -> Commits] /\ o.source \in SpecSources
    BY ObjectFields DEF TypeOK
  <1>2. /\ config \in Config /\ config.kind = o.source.kind
        /\ config.subPath = o.source.subPath /\ TreeIsOfCommit(config)
        /\ IsPollable(config) => o.source.kind = "git"
        /\ o.source.kind = "git" => Answers(config, o.source)
    BY <1>1, ResolveAnswers
  <1>3. /\ a \in Object /\ a.source = o.source /\ a.generation = o.generation
        /\ a.status.observed = o.generation
        /\ \/ /\ a.status.source = config /\ a.status.ready
              /\ a.status.polling = IsPollable(config)
           \/ /\ o.status.observed = o.generation /\ a.status.source = o.status.source
              /\ a.status.ready = o.status.ready /\ a.status.polling = o.status.polling
    BY <1>2, AnsweredFields
  <1> HIDE DEF a
  <1>4. Generations(a, sr)
    BY <1>3, ObjectFields DEF Fine, Generations
  <1>5. CASE a.status.source = config /\ a.status.ready /\ a.status.polling = IsPollable(config)
    <2>1. StatusFits(a)
      BY <1>2, <1>3, <1>5 DEF StatusFits
    <2>2. ASSUME o.generation = sr.generation, o.source.kind = "git"
          PROVE  IsNamed(config, sr.source.revision, named, shallow)
      <3>1. o.source = sr.source
        BY <2>2 DEF Fine, Generations
      <3> QED BY <1>2, <2>2, <3>1 DEF Answers, IsNamed
    <2>3. StatusIsNamed(a, sr, named, shallow)
      BY <1>3, <1>5, <2>2 DEF StatusIsNamed
    <2> QED BY <1>2, <1>4, <2>1, <2>3 DEF Fine, a
  <1>6. CASE /\ o.status.observed = o.generation /\ a.status.source = o.status.source
             /\ a.status.ready = o.status.ready /\ a.status.polling = o.status.polling
    <2>1. Ready(a) => Ready(o)
      BY <1>3, <1>6 DEF Ready
    <2>2. StatusFits(a)
      BY <1>3, <1>6, <2>1 DEF Fine, StatusFits
    <2>3. StatusIsNamed(a, sr, named, shallow)
      BY <1>3, <1>6, <2>1 DEF Fine, StatusIsNamed
    <2> QED BY <1>2, <1>4, <2>2, <2>3 DEF Fine, a
  <1> QED BY <1>3, <1>5, <1>6

\* The status that is sent is fine for the object of the generation it was made for: a
\* commit retained for its tree has the tree of a commit that is named.
LEMMA SentIsFine ==
    ASSUME IInv, work.pc = "update", work.desired.generation = sr.generation,
           NEW now, now.source = sr.source, now.generation = sr.generation, now.status = Sent
    PROVE  Fine(now, now, named, shallow)
  <1> DEFINE d == work.desired
  <1>1. /\ d \in Object /\ cache \in Object /\ sr \in Object /\ shallow \in BOOLEAN
        /\ named \subseteq Commits
    BY SourceAssumption DEF IInv, TypeOK
  <1>2. /\ Fine(d, sr, named, shallow) /\ Fine(cache, sr, named, shallow)
        /\ Heads(sr.source.revision) \subseteq named
    BY DEF IInv, Counts
  <1>3. /\ Sent.ready = d.status.ready /\ Sent.polling = d.status.polling
        /\ Sent.observed = d.status.observed
        /\ Sent.source.kind = d.status.source.kind /\ Sent.source.tree = d.status.source.tree
        /\ Sent.source.type = d.status.source.type /\ Sent.source.subPath = d.status.source.subPath
        /\ \/ Sent.source = d.status.source
           \/ /\ shallow /\ d.status.source.tree # ""
              /\ cache.status.source.tree = d.status.source.tree
              /\ Sent.source.revision = cache.status.source.revision
    BY <1>1, SentFields
  <1>4. d.source = sr.source /\ d.generation = sr.generation
    BY <1>2 DEF Fine, Generations
  <1> HIDE DEF d
  <1>5. Ready(now) => Ready(d)
    BY <1>3, <1>4 DEF Ready
  <1>6. sr.generation \in Nat
    BY <1>1, ObjectFields
  <1>7. Generations(now, now)
    BY <1>2, <1>3, <1>4, <1>6 DEF Fine, Generations
  <1>8. TreeIsOfCommit(Sent.source)
    <2>1. TreeIsOfCommit(d.status.source) /\ TreeIsOfCommit(cache.status.source)
      BY <1>2 DEF Fine, StatusFits
    <2> QED BY <1>3, <2>1 DEF TreeIsOfCommit, IsUnknown
  <1>9. StatusFits(now)
    BY <1>2, <1>3, <1>4, <1>5, <1>8 DEF Fine, StatusFits
  <1>10. StatusIsNamed(now, now, named, shallow)
    <2> SUFFICES ASSUME Ready(now), sr.source.kind = "git"
                 PROVE  IsNamed(Sent.source, sr.source.revision, named, shallow)
      BY DEF StatusIsNamed
    <2>1. IsNamed(d.status.source, sr.source.revision, named, shallow)
      BY <1>2, <1>4, <1>5 DEF Fine, StatusIsNamed
    <2>2. CASE Sent.source = d.status.source
      BY <2>1, <2>2
    <2>3. CASE /\ shallow /\ d.status.source.tree # ""
               /\ cache.status.source.tree = d.status.source.tree
      <3>1. /\ d.status.source.revision \in Commits /\ d.status.source.subPath
            /\ ~IsUnknown(d.status.source)
            /\ d.status.source.tree = hashOfSubpath(TRUE, d.status.source.revision)
        BY <1>2, <2>3 DEF Fine, StatusFits, TreeIsOfCommit
      <3>2. Sent.source.subPath = TRUE
        <4>1. d.status.source.subPath \in BOOLEAN
          BY <1>1 DEF Object, Config, d
        <4> QED BY <1>3, <3>1, <4>1
      <3>3. \E c \in named : hashOfSubpath(TRUE, c) = d.status.source.tree
        <4>1. CASE d.status.source.revision = sr.source.revision
          <5>1. d.status.source.revision \in Heads(sr.source.revision)
            BY <3>1, <4>1 DEF Heads
          <5> QED BY <1>2, <3>1, <5>1
        <4>2. CASE d.status.source.revision \in named
          BY <3>1, <4>2
        <4>3. CASE \E c \in named : hashOfSubpath(d.status.source.subPath, c) = d.status.source.tree
          BY <1>3, <3>2, <4>3
        <4> QED BY <2>1, <4>1, <4>2, <4>3 DEF IsNamed
      <3> QED BY <1>3, <2>3, <3>2, <3>3 DEF IsNamed
    <2> QED BY <1>3, <2>2, <2>3
  <1> QED BY <1>7, <1>9, <1>10 DEF Fine

-----------------------------------------------------------------------------
(* What the pod fetches. *)

\* The pod lists the remote for the revision of the status: it gets this revision back, or
\* the commit of a ref of that name.
LEMMA FetchFinds ==
    ASSUME NEW s \in Config, NEW fails \in BOOLEAN, NEW c \in Fetch(s, fails), c # "error"
    PROVE  /\ c \in Commits
           /\ \/ c = s.revision
              \/ \E r \in RefsNamed(s.revision) : c = refs[r]
  <1> DEFINE whole == [s EXCEPT !.subPath = FALSE]
  <1>1. whole.revision = s.revision
    BY DEF Config
  <1>2. PICK f \in ResolveByListingRemote(whole, fails) :
          c = IF f.revision \in Commits THEN f.revision ELSE "error"
    BY DEF Fetch
  <1> HIDE DEF whole
  <1>3. c \in Commits /\ c = f.revision
    BY <1>2
  <1>4. \/ f = Resolved(whole, whole.revision, "", "Unknown")
        \/ f = Resolved(whole, whole.revision, "", "Commit")
        \/ \E r \in RefsNamed(whole.revision) : f = Resolved(whole, refs[r], "", sourceType(r))
    BY DEF ResolveByListingRemote
  <1>5. f.revision = s.revision \/ \E r \in RefsNamed(s.revision) : f.revision = refs[r]
    <2>1. \A v, y : Resolved(whole, v, "", y).revision = v
      BY DEF Resolved
    <2>2. CASE \E r \in RefsNamed(whole.revision) :
                  f = Resolved(whole, refs[r], "", sourceType(r))
      <3>1. PICK r \in RefsNamed(whole.revision) :
              f = Resolved(whole, refs[r], "", sourceType(r))
        BY <2>2
      <3>2. f.revision = refs[r]
        BY <2>1, <3>1
      <3> QED BY <1>1, <3>2
    <2>3. CASE \/ f = Resolved(whole, whole.revision, "", "Unknown")
               \/ f = Resolved(whole, whole.revision, "", "Commit")
      BY <1>1, <2>1, <2>3
    <2> QED BY <1>4, <2>2, <2>3
  <1> QED BY <1>3, <1>5

\* A commit it checks out has been named, or has the tree of one that has.
LEMMA FetchIsNamed ==
    ASSUME IInv, Ready(sr), sr.status.source.kind = "git", NEW fails \in BOOLEAN,
           NEW commit \in Fetch(sr.status.source, fails)
    PROVE  \/ commit = "error" \/ commit \in named
           \/ \E c \in named : /\ shallow /\ sr.source.subPath
                               /\ hashOfSubpath(TRUE, c) # ""
                               /\ hashOfSubpath(TRUE, c) = hashOfSubpath(TRUE, commit)
  <1> DEFINE s == sr.status.source
  <1> SUFFICES ASSUME commit # "error"
               PROVE  \/ commit \in named
                      \/ \E c \in named : /\ shallow /\ sr.source.subPath
                                          /\ hashOfSubpath(TRUE, c) # ""
                                          /\ hashOfSubpath(TRUE, c) = hashOfSubpath(TRUE, commit)
    OBVIOUS
  <1>1. sr \in Object /\ named \subseteq Commits /\ s \in Config
    BY ObjectFields DEF IInv, TypeOK
  <1>2. Fine(sr, sr, named, shallow) /\ Heads(sr.source.revision) \subseteq named
    BY DEF IInv, Counts
  <1>3. sr.source.kind = "git" /\ TreeIsOfCommit(s) /\ s.subPath = sr.source.subPath
    BY <1>2 DEF Fine, StatusFits
  <1>4. IsNamed(s, sr.source.revision, named, shallow)
    BY <1>2, <1>3 DEF Fine, StatusIsNamed
  <1>5. commit \in Commits /\ (commit = s.revision \/ \E r \in RefsNamed(s.revision) : commit = refs[r])
    BY <1>1, FetchFinds
  <1>6. (\E c \in named : hashOfSubpath(s.subPath, c) = s.tree) /\ s.tree # ""
           => \E c \in named : hashOfSubpath(TRUE, c) = s.tree
    <2>1. s.subPath \in BOOLEAN
      BY <1>1 DEF Config
    <2> QED BY <1>3, <2>1 DEF TreeIsOfCommit
  <1> HIDE DEF s
  <1>7. CASE commit = s.revision
    <2>1. CASE s.revision = sr.source.revision
      <3>1. commit \in Heads(sr.source.revision)
        BY <1>5, <1>7, <2>1 DEF Heads
      <3> QED BY <1>2, <3>1
    <2>2. CASE s.revision \in named
      BY <1>7, <2>2
    <2>3. CASE shallow /\ s.tree # "" /\ \E c \in named : hashOfSubpath(s.subPath, c) = s.tree
      <3>1. PICK c \in named : hashOfSubpath(TRUE, c) = s.tree
        BY <1>6, <2>3
      <3>2. s.tree = hashOfSubpath(TRUE, commit) /\ sr.source.subPath
        BY <1>3, <1>7, <2>3 DEF TreeIsOfCommit
      <3> QED BY <2>3, <3>1, <3>2
    <2> QED BY <1>4, <2>1, <2>2, <2>3 DEF IsNamed
  <1>8. CASE \E r \in RefsNamed(s.revision) : commit = refs[r]
    <2>1. PICK r \in RefsNamed(s.revision) : commit = refs[r]
      BY <1>8
    <2>2. s.revision \notin Commits
      BY CommitsAssumption DEF RefsNamed
    <2>3. s.revision = sr.source.revision
      BY <1>1, <1>3, <1>4, <2>2 DEF IsNamed, TreeIsOfCommit
    <2>4. commit \in Heads(sr.source.revision)
      BY <2>1, <2>2, <2>3 DEF Heads
    <2> QED BY <1>2, <2>4
  <1> QED BY <1>5, <1>7, <1>8

-----------------------------------------------------------------------------
(* The steps. *)

LEMMA CounterStep ==
    ASSUME NEW max \in Nat, NEW n \in 0 .. max, NEW m, m = n \/ (n < max /\ m = n + 1)
    PROVE  m \in 0 .. max
  OBVIOUS

\* Steps of the controller leave alone what the users, developers and pods change.
Aside == UNCHANGED <<shallow, refs, named, fetched, pushes, edits, fetches>>

LEMMA AsideKeeps ==
    ASSUME IInv, Aside, sr'.generation = sr.generation, sr'.source = sr.source
    PROVE  /\ Counts' /\ FetchedIsNamed'
           /\ \A o : Fine(o, sr, named, shallow) => Fine(o, sr', named', shallow')
  <1>1. Heads(sr.source.revision)' = Heads(sr.source.revision)
    BY DEF Aside, Heads
  <1>2. Counts'
    BY <1>1 DEF IInv, Counts, Aside
  <1>3. FetchedIsNamed'
    BY DEF IInv, FetchedIsNamed, FilteredCommit, Aside
  <1>4. ASSUME NEW o, Fine(o, sr, named, shallow)
        PROVE  Fine(o, sr', named', shallow')
    BY <1>4, MoreNames DEF Aside
  <1> QED BY <1>2, <1>3, <1>4

\* The parts of the type that such a step may touch.
LEMMA AsideTypes ==
    ASSUME IInv, Aside, sr' \in Object, cache' \in Object, queued' \in BOOLEAN,
           timer' \in BOOLEAN, faults' = faults \/ (\E f : Fault(f)),
           work' = Idle \/ (work'.pc = "update" /\ work'.desired \in Object),
           Fine(sr', sr', named', shallow')
    PROVE  TypeOK' /\ Works'
  <1>1. faults' \in 0 .. MaxFaults
    BY CounterStep, SourceAssumption DEF Fault, IInv, TypeOK
  <1>2. sr'.status.polling => sr'.status.ready /\ sr'.status.source.kind = "git"
    BY DEF Fine, StatusFits
  <1>3. work'.pc \in {"idle", "update"} /\ (work'.pc = "update" => work'.desired \in Object)
    BY DEF Idle
  <1>4. Works'
    BY DEF Works, Idle
  <1> QED BY <1>1, <1>2, <1>3, <1>4 DEF IInv, TypeOK, Aside

LEMMA ReconcileStep == IInv /\ Reconcile => IInv'
  <1> SUFFICES ASSUME IInv, Reconcile PROVE IInv'
    OBVIOUS
  <1>1. /\ cache \in Object /\ sr \in Object /\ timer \in BOOLEAN /\ cache.version <= sr.version
        /\ cache.version = sr.version => cache = sr
        /\ Fine(cache, sr, named, shallow) /\ Fine(sr, sr, named, shallow)
        /\ Heads(sr.source.revision) \subseteq named
    BY DEF IInv, TypeOK, Versions, Counts
  <1>2. Aside /\ UNCHANGED <<sr, cache>> /\ (faults' = faults \/ \E f : Fault(f))
    BY DEF Reconcile, Aside
  <1>3. PICK fails \in BOOLEAN :
            \/ Retry /\ UNCHANGED timer
            \/ \E config \in Resolve(cache.source, fails) :
                 LET o == ResolvedSource(cache, config)
                 IN /\ timer' = (timer \/ PollingReady(o))
                    /\ work' = [pc |-> "update", desired |->
                                  [o EXCEPT !.status.observed = o.generation]]
                    /\ queued' = FALSE
    BY DEF Reconcile
  <1>4. /\ Counts' /\ FetchedIsNamed' /\ Fine(cache', sr', named', shallow')
        /\ Fine(sr', sr', named', shallow')
    BY <1>1, <1>2, AsideKeeps
  <1>5. CASE Retry /\ UNCHANGED timer
    <2>1. TypeOK' /\ Works'
      BY <1>1, <1>2, <1>4, <1>5, AsideTypes DEF Retry
    <2>2. Versions' /\ PollingNeverStops' /\ work'.pc # "update"
      BY <1>1, <1>2, <1>5 DEF Retry, Versions, PollingNeverStops, Idle
    <2> QED BY <1>4, <2>1, <2>2 DEF IInv
  <1>6. CASE \E config \in Resolve(cache.source, fails) :
                LET o == ResolvedSource(cache, config)
                IN /\ timer' = (timer \/ PollingReady(o))
                   /\ work' = [pc |-> "update", desired |->
                                 [o EXCEPT !.status.observed = o.generation]]
                   /\ queued' = FALSE
    <2>1. PICK config \in Resolve(cache.source, fails) :
             /\ timer' = (timer \/ PollingReady(ResolvedSource(cache, config)))
             /\ work' = [pc |-> "update", desired |-> Answered(cache, config)]
             /\ queued' = FALSE
      BY <1>6 DEF Answered
    <2> DEFINE a == Answered(cache, config)
    <2>2. config \in Config /\ Fine(a, sr, named, shallow)
      BY <1>1, AnswerIsFine DEF IInv
    <2>3. /\ a \in Object /\ a.generation = cache.generation /\ a.version = cache.version
          /\ PollingReady(ResolvedSource(cache, config)) = a.status.polling
      BY <1>1, <2>2, AnsweredFields
    <2> HIDE DEF a
    <2>4. work'.pc = "update" /\ work'.desired = a /\ work' # Idle
      BY <2>1 DEF Idle, a
    <2>5. timer' \in BOOLEAN /\ (a.status.polling => timer')
      BY <1>1, <2>1, <2>3
    <2>6. TypeOK' /\ Works'
      BY <1>1, <1>2, <1>4, <2>1, <2>3, <2>4, <2>5, AsideTypes
    <2>7. Versions'
      BY <1>1, <1>2, <2>3, <2>4 DEF Versions
    <2>8. PollingNeverStops'
      BY <2>4, <2>5 DEF PollingNeverStops
    <2>9. Fine(work'.desired, sr', named', shallow')
      BY <1>2, <2>2, <2>4 DEF Aside
    <2> QED BY <1>4, <2>6, <2>7, <2>8, <2>9 DEF IInv
  <1> QED BY <1>3, <1>5, <1>6

LEMMA KeychainStep == IInv /\ KeychainFails => IInv'
  <1> SUFFICES ASSUME IInv, KeychainFails PROVE IInv'
    OBVIOUS
  <1>1. /\ cache \in Object /\ sr \in Object /\ timer \in BOOLEAN
        /\ Fine(cache, sr, named, shallow) /\ Fine(sr, sr, named, shallow)
    BY DEF IInv, TypeOK
  <1>2. /\ Aside /\ UNCHANGED <<sr, cache, timer>> /\ (\E f : Fault(f))
        /\ queued' = TRUE /\ work' = Idle
    BY DEF KeychainFails, Aside, Retry
  <1>3. /\ Counts' /\ FetchedIsNamed' /\ Fine(cache', sr', named', shallow')
        /\ Fine(sr', sr', named', shallow')
    BY <1>1, <1>2, AsideKeeps
  <1>4. TypeOK' /\ Works'
    BY <1>1, <1>2, <1>3, AsideTypes
  <1>5. Versions' /\ PollingNeverStops' /\ work'.pc # "update"
    BY <1>2 DEF IInv, Versions, PollingNeverStops, Idle
  <1> QED BY <1>3, <1>4, <1>5 DEF IInv

LEMMA UpdateStep == IInv /\ updateStatus => IInv'
  <1> SUFFICES ASSUME IInv, updateStatus PROVE IInv'
    OBVIOUS
  <1>1. /\ cache \in Object /\ sr \in Object /\ timer \in BOOLEAN /\ queued \in BOOLEAN
        /\ Fine(cache, sr, named, shallow) /\ Fine(sr, sr, named, shallow)
    BY DEF IInv, TypeOK
  <1>2. work.pc = "update" /\ work.desired \in Object
    BY DEF updateStatus, IInv, TypeOK
  <1>3. Aside /\ UNCHANGED <<cache, timer>> /\ work' = Idle
    BY DEF updateStatus, Aside, Retry
  <1>4. \/ Sent = cache.status /\ UNCHANGED <<sr, queued, faults>>
        \/ /\ work.desired.version = sr.version
           /\ sr' = [sr EXCEPT !.status = Sent, !.version = @ + 1]
           /\ UNCHANGED <<queued, faults>>
        \/ queued' = TRUE /\ UNCHANGED sr /\ (faults' = faults \/ \E f : Fault(f))
    BY DEF updateStatus, Sent, Retry
  <1>5. /\ Sent \in [source : Config, ready : BOOLEAN, polling : BOOLEAN,
                     observed : 0 .. MaxEdits + 1]
        /\ Sent.polling = work.desired.status.polling
    BY <1>1, <1>2, SentFields
  <1>6. /\ cache.version <= sr.version /\ (cache.version = sr.version => cache = sr)
        /\ work.desired.version = sr.version => work.desired.generation = sr.generation
        /\ cache.version \in Nat /\ sr.version \in Nat
    BY <1>1, <1>2, ObjectFields DEF IInv, Versions
  <1>7. CASE UNCHANGED sr /\ (faults' = faults \/ \E f : Fault(f))
             /\ queued' \in BOOLEAN /\ PollingNeverStops'
    <2>1. /\ Counts' /\ FetchedIsNamed' /\ Fine(cache', sr', named', shallow')
          /\ Fine(sr', sr', named', shallow')
      BY <1>1, <1>3, <1>7, AsideKeeps
    <2>2. TypeOK' /\ Works'
      BY <1>1, <1>3, <1>7, <2>1, AsideTypes
    <2>3. Versions' /\ work'.pc # "update"
      BY <1>3, <1>6, <1>7 DEF Versions, Idle
    <2> QED BY <1>7, <2>1, <2>2, <2>3 DEF IInv
  <1>8. CASE Sent = cache.status /\ UNCHANGED <<sr, queued, faults>>
    <2>1. PollingNeverStops'
      BY <1>3, <1>5, <1>8 DEF IInv, PollingNeverStops
    <2> QED BY <1>1, <1>7, <1>8, <2>1
  <1>9. CASE /\ work.desired.version = sr.version
             /\ sr' = [sr EXCEPT !.status = Sent, !.version = @ + 1]
             /\ UNCHANGED <<queued, faults>>
    <2>1. /\ sr' \in Object /\ sr'.generation = sr.generation /\ sr'.source = sr.source
          /\ sr'.version = sr.version + 1 /\ sr'.status = Sent
      <3>1. sr.version + 1 \in Nat \ {0}
        BY <1>6
      <3> QED BY <1>1, <1>5, <1>9, <3>1 DEF Object
    <2>2. Fine(sr', sr', named, shallow)
      BY <1>2, <1>6, <1>9, <2>1, SentIsFine
    <2>3. Fine(sr', sr', named', shallow')
      BY <1>3, <2>2 DEF Aside
    <2>4. Counts' /\ FetchedIsNamed' /\ Fine(cache', sr', named', shallow')
      BY <1>1, <1>3, <2>1, AsideKeeps
    <2>5. TypeOK' /\ Works'
      BY <1>1, <1>3, <1>9, <2>1, <2>3, AsideTypes
    <2>6. cache.version < sr'.version
      BY <1>6, <2>1
    <2>7. Versions' /\ PollingNeverStops' /\ work'.pc # "update"
      BY <1>3, <1>6, <2>1, <2>6 DEF Versions, PollingNeverStops, Idle
    <2> QED BY <2>3, <2>4, <2>5, <2>7 DEF IInv
  <1>10. CASE queued' = TRUE /\ UNCHANGED sr /\ (faults' = faults \/ \E f : Fault(f))
    <2>1. PollingNeverStops'
      BY <1>10 DEF PollingNeverStops
    <2> QED BY <1>7, <1>10, <2>1
  <1> QED BY <1>4, <1>8, <1>9, <1>10

\* Poll, Inform, Resync and Crash queue the key.
LEMMA QueueStep == IInv /\ (Poll \/ Inform \/ Resync \/ Crash) => IInv'
  <1> SUFFICES ASSUME IInv, Poll \/ Inform \/ Resync \/ Crash PROVE IInv'
    OBVIOUS
  <1>1. /\ cache \in Object /\ sr \in Object /\ timer \in BOOLEAN
        /\ Fine(cache, sr, named, shallow) /\ Fine(sr, sr, named, shallow)
        /\ work = Idle \/ (work.pc = "update" /\ work.desired \in Object)
    BY DEF IInv, TypeOK, Works
  <1>2. /\ Aside /\ UNCHANGED sr /\ (faults' = faults \/ \E f : Fault(f))
        /\ queued' = TRUE /\ (work' = work \/ work' = Idle)
        /\ (cache' = cache \/ cache' = sr) /\ timer' \in BOOLEAN
    BY <1>1 DEF Poll, Inform, Resync, Crash, Aside
  <1>3. /\ Counts' /\ FetchedIsNamed' /\ Fine(cache', sr', named', shallow')
        /\ Fine(sr', sr', named', shallow')
    BY <1>1, <1>2, AsideKeeps
  <1>4. TypeOK' /\ Works'
    BY <1>1, <1>2, <1>3, AsideTypes
  <1>5. PollingNeverStops'
    BY <1>2 DEF PollingNeverStops
  <1>6. Versions'
    <2>1. sr.version \in Nat
      BY <1>1, ObjectFields
    <2> QED BY <1>1, <1>2, <2>1 DEF IInv, Versions, Idle
  <1>7. work'.pc = "update" => Fine(work'.desired, sr', named', shallow')
    BY <1>2 DEF IInv, Aside, Idle
  <1> QED BY <1>3, <1>4, <1>5, <1>6, <1>7 DEF IInv

LEMMA PushStep == IInv /\ Push => IInv'
  <1> SUFFICES ASSUME IInv, Push PROVE IInv'
    OBVIOUS
  <1>1. /\ pushes < MaxPushes /\ pushes' = pushes + 1
        /\ UNCHANGED <<shallow, sr, cache, queued, timer, work, fetched, edits, faults, fetches>>
    BY DEF Push
  <1>2. PICK r \in Refs, c \in Commits :
          /\ r[2] = sr.source.revision
          /\ refs' = [refs EXCEPT ![r] = c] /\ named' = named \cup {c}
    BY DEF Push
  <1>3. refs \in [Refs -> Commits] /\ pushes' \in 0 .. MaxPushes
    BY <1>1, CounterStep, SourceAssumption DEF IInv, TypeOK
  <1>4. refs' \in [Refs -> Commits] /\ named \subseteq named'
    BY <1>2, <1>3
  <1>5. TypeOK' /\ Works'
    BY <1>1, <1>2, <1>3, <1>4 DEF IInv, TypeOK, Works
  <1>6. Counts'
    <2>1. sr.source.revision \notin Commits
      BY <1>2, CommitsAssumption
    <2>2. \A q \in Refs : refs'[q] \in {refs[q], c}
      BY <1>2, <1>3
    <2>3. \A q \in RefsNamed(sr.source.revision) : refs[q] \in named
      BY <2>1 DEF IInv, Counts, Heads
    <2>4. \A q \in RefsNamed(sr.source.revision) : refs'[q] \in named'
      BY <1>2, <2>2, <2>3 DEF RefsNamed
    <2>5. Heads(sr.source.revision)' \subseteq named'
      BY <1>1, <2>1, <2>4 DEF Heads
    <2> QED BY <1>1, <2>5 DEF IInv, Counts
  <1>7. Versions' /\ PollingNeverStops'
    BY <1>1 DEF IInv, Versions, PollingNeverStops
  <1>8. FetchedIsNamed'
    BY <1>1, <1>4 DEF IInv, FetchedIsNamed, FilteredCommit
  <1>9. \A o : Fine(o, sr, named, shallow) => Fine(o, sr', named', shallow')
    BY <1>1, <1>4, MoreNames
  <1>10. /\ Fine(sr', sr', named', shallow') /\ Fine(cache', sr', named', shallow')
         /\ work'.pc = "update" => Fine(work'.desired, sr', named', shallow')
    BY <1>1, <1>9 DEF IInv
  <1> QED BY <1>5, <1>6, <1>7, <1>8, <1>10 DEF IInv

LEMMA EditStep == IInv /\ Edit => IInv'
  <1> SUFFICES ASSUME IInv, Edit PROVE IInv'
    OBVIOUS
  <1>1. /\ edits < MaxEdits /\ edits' = edits + 1
        /\ UNCHANGED <<shallow, refs, cache, queued, timer, work, fetched, pushes, faults, fetches>>
    BY DEF Edit
  <1>2. PICK s \in SpecSources :
          /\ sr' = [sr EXCEPT !.source = s, !.generation = @ + 1, !.version = @ + 1]
          /\ named' = Heads(s.revision)
    BY DEF Edit
  <1>3. /\ sr \in Object /\ cache \in Object /\ refs \in [Refs -> Commits]
        /\ edits \in 0 .. MaxEdits /\ MaxEdits \in Nat /\ sr.generation = edits + 1
        /\ (work.pc = "update" => work.desired \in Object)
    BY SourceAssumption DEF IInv, TypeOK, Counts
  <1>4. sr.generation + 1 \in 1 .. MaxEdits + 1 /\ edits' \in 0 .. MaxEdits
    BY <1>1, <1>3
  <1>5. sr.version + 1 \in Nat \ {0} /\ sr.version \in Nat
    BY <1>3, ObjectFields
  <1>6. /\ sr' \in Object /\ sr'.source = s /\ sr'.generation = sr.generation + 1
        /\ sr'.version = sr.version + 1 /\ sr'.status = sr.status
    BY <1>2, <1>3, <1>4, <1>5 DEF Object
  <1>7. named' \subseteq Commits /\ Heads(sr.source.revision)' = named'
    <2>1. named' \subseteq Commits
      BY <1>2, <1>3, RefTypes
    <2> QED BY <1>1, <1>2, <1>6, <2>1 DEF Heads
  <1>8. Fine(sr, sr, named, shallow)
    BY DEF IInv
  <1>9. sr'.generation \in Nat /\ sr.generation \in Nat /\ sr.status.observed \in Nat
        /\ fetched.of <= sr.generation /\ fetched.of \in Nat
    BY <1>3, <1>6, ObjectFields DEF IInv, TypeOK, Counts
  <1>10. Fine(sr', sr', named', shallow')
    <2>1. sr'.status.observed <= sr.generation
      BY <1>6, <1>8 DEF Fine, Generations
    <2>2. ~Ready(sr')
      BY <1>6, <1>9, <2>1 DEF Ready
    <2>3. Generations(sr', sr')
      BY <1>6, <1>9, <2>1 DEF Generations
    <2>4. StatusFits(sr') /\ StatusIsNamed(sr', sr', named', shallow')
      BY <1>6, <1>8, <2>2 DEF Fine, StatusFits, StatusIsNamed
    <2> QED BY <2>3, <2>4 DEF Fine
  <1>11. /\ Fine(cache', sr', named', shallow')
         /\ work'.pc = "update" => Fine(work'.desired, sr', named', shallow')
    BY <1>1, <1>3, <1>6, NewGeneration DEF IInv
  <1>12. TypeOK' /\ Works'
    <2>1. sr'.status.polling => sr'.status.ready /\ sr'.status.source.kind = "git"
      BY <1>10 DEF Fine, StatusFits
    <2> QED BY <1>1, <1>4, <1>6, <1>7, <2>1 DEF IInv, TypeOK, Works
  <1>13. fetched'.of # sr'.generation /\ fetched'.of <= sr'.generation
    BY <1>1, <1>6, <1>9
  <1>14. Counts'
    BY <1>1, <1>3, <1>6, <1>7, <1>13 DEF Counts
  <1>15. FetchedIsNamed'
    BY <1>13 DEF FetchedIsNamed
  <1>16. cache.version <= sr.version /\ (work.pc = "update" => work.desired.version <= sr.version)
    BY DEF IInv, Versions
  <1>17. cache.version < sr'.version
    BY <1>3, <1>5, <1>6, <1>16, ObjectFields
  <1>18. work.pc = "update" => work.desired.version < sr'.version /\ work.desired.version \in Nat
    BY <1>3, <1>5, <1>6, <1>16, ObjectFields
  <1>19. Versions'
    BY <1>1, <1>3, <1>5, <1>6, <1>17, <1>18, ObjectFields DEF Versions
  <1>20. PollingNeverStops'
    <2>1. cache' # sr'
      BY <1>1, <1>3, <1>5, <1>6, <1>17, ObjectFields
    <2> QED BY <2>1 DEF PollingNeverStops
  <1> QED BY <1>10, <1>11, <1>12, <1>14, <1>15, <1>19, <1>20 DEF IInv

LEMMA BuildStep == IInv /\ Build => IInv'
  <1> SUFFICES ASSUME IInv, Build PROVE IInv'
    OBVIOUS
  <1>1. /\ fetches < MaxFetches /\ fetches' = fetches + 1
        /\ Ready(sr) /\ sr.status.source.kind = "git"
        /\ UNCHANGED <<shallow, refs, sr, cache, queued, timer, work, named, pushes, edits>>
        /\ faults' = faults \/ \E f : Fault(f)
    BY DEF Build
  <1>20. PICK fails \in BOOLEAN :
          \E c \in Fetch(sr.status.source, fails) :
             fetched' = [of |-> sr.generation, commit |-> c]
    BY DEF Build
  <1>2. PICK c \in Fetch(sr.status.source, fails) :
          fetched' = [of |-> sr.generation, commit |-> c]
    BY <1>20
  <1>3. fetched'.of = sr.generation /\ fetched'.commit = c
    BY <1>2
  <1>4. fetches' \in 0 .. MaxFetches /\ faults' \in 0 .. MaxFaults
    BY <1>1, CounterStep, SourceAssumption DEF IInv, TypeOK, Fault
  <1>5. sr.generation \in 0 .. MaxEdits + 1 /\ sr.generation \in Nat
    BY SourceAssumption DEF IInv, TypeOK, Object
  <1>6. TypeOK' /\ Works'
    BY <1>1, <1>3, <1>4, <1>5 DEF IInv, TypeOK, Works
  <1>7. Heads(sr.source.revision)' = Heads(sr.source.revision)
    BY <1>1 DEF Heads
  <1>8. Counts'
    BY <1>1, <1>3, <1>5, <1>7 DEF IInv, Counts
  <1>9. FetchedIsNamed'
    <2>1. \/ c = "error" \/ c \in named
          \/ \E d \in named : /\ shallow /\ sr.source.subPath
                              /\ hashOfSubpath(TRUE, d) # ""
                              /\ hashOfSubpath(TRUE, d) = hashOfSubpath(TRUE, c)
      BY <1>1, FetchIsNamed
    <2>2. sr.source.kind = "git"
      BY <1>1 DEF IInv, Fine, StatusFits
    <2> QED BY <1>1, <1>3, <2>1, <2>2 DEF FetchedIsNamed, FilteredCommit
  <1>10. Versions' /\ PollingNeverStops'
    BY <1>1 DEF IInv, Versions, PollingNeverStops
  <1>11. /\ Fine(sr', sr', named', shallow') /\ Fine(cache', sr', named', shallow')
         /\ work'.pc = "update" => Fine(work'.desired, sr', named', shallow')
    BY <1>1 DEF IInv
  <1> QED BY <1>6, <1>8, <1>9, <1>10, <1>11 DEF IInv

LEMMA InitHolds == Init => IInv
  <1> SUFFICES ASSUME Init PROVE IInv
    OBVIOUS
  <1>1. PICK s \in SpecSources :
         sr = [source |-> s, generation |-> 1, version |-> 1,
               status |-> [source |-> NoConfig, ready |-> FALSE, polling |-> FALSE, observed |-> 0]]
    BY DEF Init
  <1>2. refs \in [Refs -> Commits]
    BY CommitsAssumption DEF Init
  <1>3. MaxEdits \in Nat /\ MaxPushes \in Nat /\ MaxFaults \in Nat /\ MaxFetches \in Nat
    BY SourceAssumption
  <1>4. sr \in Object
    BY <1>1, <1>3, NoConfigType DEF Object
  <1>5. named \subseteq Commits /\ named = Heads(sr.source.revision)
    BY <1>2, RefTypes DEF Init
  <1>6. /\ sr.generation = 1 /\ sr.version = 1 /\ sr.status.source = NoConfig
        /\ sr.status.ready = FALSE /\ sr.status.polling = FALSE /\ sr.status.observed = 0
    BY <1>1
  <1>7. /\ cache = sr /\ work = Idle /\ work.pc = "idle" /\ fetched.of = 0 /\ edits = 0
        /\ shallow \in ShallowClone
    BY DEF Init, Idle
  <1>8. TypeOK
    <2>1. /\ queued \in BOOLEAN /\ timer \in BOOLEAN /\ fetched.of \in 0 .. MaxEdits + 1
          /\ pushes \in 0 .. MaxPushes /\ edits \in 0 .. MaxEdits
          /\ faults \in 0 .. MaxFaults /\ fetches \in 0 .. MaxFetches
      <3>1. /\ queued = TRUE /\ timer = FALSE /\ pushes = 0 /\ faults = 0 /\ fetches = 0
        BY DEF Init
      <3>2. \A n \in Nat : 0 \in 0 .. n /\ 0 \in 0 .. n + 1
        OBVIOUS
      <3>3. fetched.of = 0 /\ edits = 0
        BY <1>7
      <3> QED BY <1>3, <3>1, <3>2, <3>3
    <2> QED BY <1>2, <1>4, <1>5, <1>6, <1>7, <2>1 DEF TypeOK
  <1>9. Works /\ Counts /\ Versions /\ PollingNeverStops
    BY <1>5, <1>6, <1>7 DEF Works, Counts, Versions, PollingNeverStops
  <1>10. FetchedIsNamed
    <2>1. fetched.of # sr.generation
      BY <1>6, <1>7
    <2> QED BY <2>1 DEF FetchedIsNamed
  <1>11. Fine(sr, sr, named, shallow)
    <2>1. ~Ready(sr) /\ sr.status.observed <= sr.generation /\ sr.generation <= sr.generation
      BY <1>6 DEF Ready
    <2>2. TreeIsOfCommit(sr.status.source)
      <3>1. NoConfig.tree = ""
        BY DEF NoConfig
      <3> QED BY <1>6, <3>1 DEF TreeIsOfCommit
    <2> QED BY <1>6, <2>1, <2>2 DEF Fine, Generations, StatusFits, StatusIsNamed
  <1> QED BY <1>7, <1>8, <1>9, <1>10, <1>11 DEF IInv

LEMMA StepHolds == IInv /\ [Next]_vars => IInv'
  <1> SUFFICES ASSUME IInv, [Next]_vars PROVE IInv'
    OBVIOUS
  <1>1. CASE Next
    BY <1>1, ReconcileStep, KeychainStep, UpdateStep, QueueStep, PushStep, EditStep, BuildStep
       DEF Next
  <1>2. CASE UNCHANGED vars
    BY <1>2 DEF vars, IInv, TypeOK, Works, Counts, Versions, PollingNeverStops, FetchedIsNamed,
              FilteredCommit, Heads
  <1> QED BY <1>1, <1>2

LEMMA Inductive == Spec => []IInv
  BY InitHolds, StepHolds, PTL DEF Spec

-----------------------------------------------------------------------------
(* The theorems. *)

\* Every variable of the controller has its type for every number of pushes, edits and
\* faults; a status that polls is Ready and of a git source.
THEOREM TypeCorrect == Spec => []TypeOK
  <1>1. IInv => TypeOK
    BY DEF IInv
  <1> QED BY <1>1, Inductive, PTL

\* What the status says is polled goes on being polled, whatever fails, conflicts or
\* crashes: the key is queued, a poll is scheduled, a change is on its way to the informer,
\* or the reconcile under way ends the polling.
THEOREM PollingContinues == Spec => []PollingNeverStops
  <1>1. IInv => PollingNeverStops
    BY DEF IInv
  <1> QED BY <1>1, Inductive, PTL

\* A Ready source is of its generation: its commit was named by the revision of that very
\* generation since the edit that made it or, for a branch or a tag, has the sub path tree
\* of one that was; a commit with a sub path is left out (CommitIsBuilt).
THEOREM ReadySourceCorrect == Spec => []ReadySourceIsOfItsGeneration
  <1>1. IInv => ReadySourceIsOfItsGeneration
    <2> SUFFICES ASSUME IInv, Ready(sr), sr.source.kind = "git", ~FilteredCommit
                 PROVE  ReadySourceIsOfItsGeneration
      BY DEF ReadySourceIsOfItsGeneration
    <2>1. /\ IsNamed(sr.status.source, sr.source.revision, named, shallow)
          /\ TreeIsOfCommit(sr.status.source)
          /\ sr.status.source.subPath = sr.source.subPath
      BY DEF IInv, Fine, StatusFits, StatusIsNamed
    <2> QED BY <2>1 DEF IsNamed, TreeIsOfCommit, FilteredCommit, ReadySourceIsOfItsGeneration
  <1> QED BY <1>1, Inductive, PTL

\* A build pod fails or checks out a commit that the revision of its generation has named
\* or, for a branch or a tag, one with the same sub path tree.
THEOREM FetchedCorrect == Spec => []FetchedIsNamed
  <1>1. IInv => FetchedIsNamed
    BY DEF IInv
  <1> QED BY <1>1, Inductive, PTL

=============================================================================
