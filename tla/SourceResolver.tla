--------------------------- MODULE SourceResolver ---------------------------
(***************************************************************************)
(* The SourceResolver of an Image: the controller that turns the source of *)
(* its spec into a resolved one (pkg/reconciler/sourceresolver), the three *)
(* resolvers it asks (pkg/git, pkg/blob, pkg/registry), the rules for its  *)
(* status (apis/build/v1alpha2/source_resolver.go) and the fetch a build   *)
(* pod makes of the resolved source (git.Fetcher).                         *)
(*                                                                         *)
(* A reconcile is cut between the answer of the repository and the status  *)
(* update: developers push, the user edits, a controller dies in between.  *)
(* A commit is a name; of its files only the tree of the sub path matters. *)
(* A tag and the commit it points at are one thing.                        *)
(***************************************************************************)
EXTENDS Integers, FiniteSets

CONSTANTS
    Commits,          \* commits of the repository, in the order they are pushed
    SameTree,         \* those whose sub path has one and the same tree
    NoTree,           \* those in which the sub path does not exist
    Sources,          \* kinds of source a user asks for: git, blob, registry
    Revisions,        \* git revisions a user asks for: names of refs, commits
    ShallowClone,     \* values of the feature flag GitResolverUseShallowClone
    Faults,           \* which of remote, call, crash may happen
    MaxPushes, MaxEdits, MaxFaults, MaxFetches   \* bounds

ASSUME SourceAssumption ==
    /\ SameTree \cup NoTree \subseteq Commits /\ SameTree \cap NoTree = {}
    /\ Sources # {} /\ Sources \subseteq {"git", "blob", "registry"}
    /\ ShallowClone # {} /\ ShallowClone \subseteq BOOLEAN
    /\ Faults \subseteq {"remote", "call", "crash"}
    /\ {MaxPushes, MaxEdits, MaxFaults, MaxFetches} \subseteq Nat

VARIABLES
    shallow,          \* the feature flag of this controller
    refs,             \* the repository: the commit of each of its refs
    sr,               \* the SourceResolver in the API server
    cache,            \* ... as the informer last saw it
    queued,           \* is its key in the work queue?
    timer,            \* is a poll scheduled (EnqueueAfter)?
    work,             \* the reconcile under way, or Idle
    named,            \* commits its revision has named since the last edit
    fetched,          \* what the last build pod fetched, "" for nothing yet
    pushes, edits, faults, fetches   \* bounded counters

vars == <<shallow, refs, sr, cache, queued, timer, work, named, fetched,
          pushes, edits, faults, fetches>>

---------------------------------------------------------------------------
(***************************************************************************)
(* The repository (external: go-git and the server behind it).             *)
(***************************************************************************)

\* A branch, a tag, a name that is both, and HEAD.
Refs == {<<"branch", "main">>, <<"tag", "v1">>, <<"branch", "both">>,
         <<"tag", "both">>, <<"HEAD", "HEAD">>}

\* There is a commit, and the name of a ref is none.
ASSUME CommitsAssumption == Commits # {} /\ \A r \in Refs : r[2] \notin Commits

\* The refs a short name stands for, in the order of nobody's choice.
RefsNamed(name) == {r \in Refs : r[2] = name}

\* What a revision means now.
Heads(name) == IF name \in Commits THEN {name}
                                   ELSE {refs[r] : r \in RefsNamed(name)}

\* hashOfSubpath: the tree of the sub path, "" where there is none.
hashOfSubpath(subPath, commit) ==
    IF ~subPath \/ commit \in NoTree THEN ""
    ELSE IF commit \in SameTree THEN "tree" ELSE commit

---------------------------------------------------------------------------
(***************************************************************************)
(* Resolving a source.                                                     *)
(***************************************************************************)

Resolved(source, revision, tree, type) ==
    [kind |-> source.kind, revision |-> revision, tree |-> tree, type |-> type,
     subPath |-> source.subPath]

\* ResolveByListingRemote: the first ref of that name, a commit when there is
\* none, and an unknown source, without an error, when the listing fails.
sourceType(ref) == CASE ref[1] = "branch" -> "Branch"
                     [] ref[1] = "tag"    -> "Tag"
                     [] OTHER             -> "Unknown"

ResolveByListingRemote(source, fails) ==
    IF fails THEN {Resolved(source, source.revision, "", "Unknown")}
    ELSE IF RefsNamed(source.revision) = {}
         THEN {Resolved(source, source.revision, "", "Commit")}
         ELSE {Resolved(source, refs[r], "", sourceType(r)) :
                   r \in RefsNamed(source.revision)}

\* resolveBranch, resolveTag, resolveRevision, looksLikeACommit, in that order:
\* what the first of them to succeed finds, none of them for a name that is
\* neither a branch, a tag nor a commit.
relevantFetchResolversFor(name) ==
    IF name \in Commits THEN {<<name, "Commit">>}
    ELSE IF <<"branch", name>> \in Refs
         THEN {<<refs[<<"branch", name>>], "Branch">>}
         ELSE {<<refs[r], "Tag">> : r \in {<<"tag", name>>} \cap Refs}

\* ResolveByCloning: an error, unlike a listing, when nothing can be fetched.
\* A commit needs no server: looksLikeACommit takes it as it is.
ResolveByCloning(source, fails) ==
    IF fails
    THEN IF source.revision \in Commits
         THEN {Resolved(source, source.revision, "", "Commit")} ELSE {}
    ELSE {Resolved(source, o[1], hashOfSubpath(source.subPath, o[1]), o[2]) :
              o \in relevantFetchResolversFor(source.revision)}

\* The answers of the resolver of the source: git's, or the spec itself for a
\* blob and an image.
Resolve(source, fails) ==
    IF source.kind # "git"
    THEN {Resolved(source, source.revision, "", source.kind)}
    ELSE IF shallow /\ source.subPath THEN ResolveByCloning(source, fails)
                                      ELSE ResolveByListingRemote(source, fails)

IsUnknown(config) == config.type = "Unknown"

IsPollable(config) == config.type \in {"Branch", "Tag"}

---------------------------------------------------------------------------
(***************************************************************************)
(* The object and its status.                                              *)
(***************************************************************************)

SpecSources == {s \in [kind : Sources, revision : Revisions \cup {"location"},
                       subPath : BOOLEAN] :
                    (s.kind = "git") <=> (s.revision \in Revisions)}

NoConfig == [kind |-> "none", revision |-> "", tree |-> "", type |-> "Unknown",
             subPath |-> FALSE]

Idle == [pc |-> "idle"]

Ready(o) == o.status.ready /\ o.status.observed = o.generation

\* Mutant of PollingReady: a poll is scheduled for a new answer only.
PollingReady_changed(o) == o.status.polling /\ o.status # cache.status

\* SourceResolver.PollingReady.
PollingReady(o) == o.status.polling

\* Mutant of ResolvedSource: an unknown source never replaces the last one.
ResolvedSource_kept(o, config) ==
    IF IsUnknown(config) THEN o
    ELSE [o EXCEPT !.status = [@ EXCEPT !.source = config, !.ready = TRUE,
                                        !.polling = IsPollable(config)]]

\* SourceResolver.ResolvedSource: keeps the last answer of this generation when
\* the source is unknown now, else takes the new one and calls it Ready.
ResolvedSource(o, config) ==
    IF IsUnknown(config) /\ o.status.observed = o.generation THEN o
    ELSE [o EXCEPT !.status = [@ EXCEPT !.source = config, !.ready = TRUE,
                                        !.polling = IsPollable(config)]]

\* retainCommitIfTreeUnchanged: the commit of the last status stands for one with
\* the same tree.
retainCommitIfTreeUnchanged(original, desired) ==
    IF /\ original.source.kind = "git" /\ desired.source.kind = "git"
       /\ original.source.tree # "" /\ original.source.tree = desired.source.tree
    THEN [desired EXCEPT !.source.revision = original.source.revision]
    ELSE desired

---------------------------------------------------------------------------
(***************************************************************************)
(* The controller.                                                         *)
(***************************************************************************)

\* A reconcile that ends with an error: the queue takes the key again.
Retry == queued' = TRUE /\ work' = Idle

Fault(f) == /\ f \in Faults /\ faults < MaxFaults
            /\ faults' = faults + 1

\* Reconcile, up to the answer of the source.  Credentials are looked up for git
\* only; the poll is scheduled before the status is written.
Reconcile ==
    /\ queued /\ work = Idle
    /\ \E fails \in BOOLEAN :
         /\ IF fails THEN Fault("remote") ELSE UNCHANGED faults
         /\ \/ /\ Resolve(cache.source, fails) = {}
               /\ Retry /\ UNCHANGED timer
            \/ \E config \in Resolve(cache.source, fails) :
                 LET o == ResolvedSource(cache, config)
                 IN /\ timer' = (timer \/ PollingReady(o))
                    /\ work' = [pc |-> "update", desired |->
                                  [o EXCEPT !.status.observed = o.generation]]
                    /\ queued' = FALSE
    /\ UNCHANGED <<shallow, refs, sr, cache, named, fetched, pushes, edits, fetches>>

\* The secrets of the service account cannot be read: an error, no poll.
KeychainFails ==
    /\ queued /\ work = Idle /\ cache.source.kind = "git"
    /\ Fault("call") /\ Retry
    /\ UNCHANGED <<shallow, refs, sr, cache, timer, named, fetched, pushes, edits,
                   fetches>>

\* updateStatus: compares with the copy the informer has now; a write fails on a
\* conflict when the object has changed since it was read, or as a lost call.
updateStatus ==
    /\ work.pc = "update"
    /\ LET status == IF shallow
                     THEN retainCommitIfTreeUnchanged(cache.status, work.desired.status)
                     ELSE work.desired.status
       IN \/ /\ status = cache.status
             /\ work' = Idle /\ UNCHANGED <<sr, queued, faults>>
          \/ /\ status # cache.status /\ work.desired.version = sr.version
             /\ sr' = [sr EXCEPT !.status = status, !.version = @ + 1]
             /\ work' = Idle /\ UNCHANGED <<queued, faults>>
          \/ /\ status # cache.status
             /\ IF work.desired.version = sr.version THEN Fault("call") ELSE UNCHANGED faults
             /\ Retry /\ UNCHANGED sr
    /\ UNCHANGED <<shallow, refs, cache, timer, named, fetched, pushes, edits, fetches>>

\* Enqueuer: a minute after the reconcile the key is queued again.
Poll ==
    /\ timer /\ timer' = FALSE /\ queued' = TRUE
    /\ UNCHANGED <<shallow, refs, sr, cache, work, named, fetched, pushes, edits,
                   faults, fetches>>

\* The informer sees a change of the object and queues its key.
Inform ==
    /\ cache # sr /\ cache' = sr /\ queued' = TRUE
    /\ UNCHANGED <<shallow, refs, sr, timer, work, named, fetched, pushes, edits,
                   faults, fetches>>

\* Mutant of Resync: the informers list nothing again.
Resync_never ==
    FALSE /\ UNCHANGED vars

\* Every ten hours the informer queues every key.
Resync ==
    /\ ~queued /\ work = Idle /\ queued' = TRUE
    /\ UNCHANGED <<shallow, refs, sr, cache, timer, work, named, fetched, pushes,
                   edits, faults, fetches>>

\* The controller dies and starts again: queue, timers and the reconcile under
\* way are gone, the first listing queues every key.
Crash ==
    /\ Fault("crash")
    /\ cache' = sr /\ queued' = TRUE /\ timer' = FALSE /\ work' = Idle
    /\ UNCHANGED <<shallow, refs, sr, named, fetched, pushes, edits, fetches>>

---------------------------------------------------------------------------
(***************************************************************************)
(* Developers, users and build pods.                                       *)
(***************************************************************************)

\* A ref is moved to another commit.
Push ==
    /\ pushes < MaxPushes /\ pushes' = pushes + 1
    /\ \E r \in Refs, c \in Commits :
         /\ r[2] = sr.source.revision /\ c # refs[r]
         /\ refs' = [refs EXCEPT ![r] = c]
         /\ named' = named \cup {c}
    /\ UNCHANGED <<shallow, sr, cache, queued, timer, work, fetched, edits, faults,
                   fetches>>

\* The Image reconciler writes the source of a new Image spec.
Edit ==
    /\ edits < MaxEdits /\ edits' = edits + 1
    /\ \E s \in SpecSources \ {sr.source} :
         /\ sr' = [sr EXCEPT !.source = s, !.generation = @ + 1, !.version = @ + 1]
         /\ named' = Heads(s.revision)
    /\ UNCHANGED <<shallow, refs, cache, queued, timer, work, fetched, pushes, faults,
                   fetches>>

\* Mutant of Fetch: the pod trusts a revision it could not resolve.
Fetch_unresolved(config, fails) ==
    {config.revision}

\* git.Fetcher.Fetch: lists the remote again, without the feature flag, fetches
\* the revision it got and checks it out as a hash, which the name of a branch is
\* not.
Fetch(config, fails) ==
    LET found == ResolveByListingRemote([config EXCEPT !.subPath = FALSE], fails)
    IN {IF f.revision \in Commits THEN f.revision ELSE "error" : f \in found}

\* A build of the Ready source runs its prepare step.
Build ==
    /\ fetches < MaxFetches /\ fetches' = fetches + 1
    /\ Ready(sr) /\ sr.status.source.kind = "git"
    /\ \E fails \in BOOLEAN :
         /\ IF fails THEN Fault("remote") ELSE UNCHANGED faults
         /\ \E c \in Fetch(sr.status.source, fails) :
              fetched' = [of |-> sr.generation, commit |-> c]
    /\ UNCHANGED <<shallow, refs, sr, cache, queued, timer, work, named, pushes, edits>>

---------------------------------------------------------------------------
Init ==
    /\ shallow \in ShallowClone
    /\ refs = [r \in Refs |-> CHOOSE c \in Commits : TRUE]
    /\ \E s \in SpecSources :
         sr = [source |-> s, generation |-> 1, version |-> 1,
               status |-> [source |-> NoConfig, ready |-> FALSE, polling |-> FALSE,
                           observed |-> 0]]
    /\ cache = sr /\ queued = TRUE /\ timer = FALSE /\ work = Idle
    /\ named = Heads(sr.source.revision)
    /\ fetched = [of |-> 0, commit |-> ""]
    /\ pushes = 0 /\ edits = 0 /\ faults = 0 /\ fetches = 0

Next == \/ Reconcile \/ KeychainFails \/ updateStatus \/ Poll \/ Inform \/ Resync
        \/ Crash \/ Push \/ Edit \/ Build

Spec == Init /\ [][Next]_vars

\* The controller's goroutines, its timers and its informers go on; users,
\* developers and faults owe nobody anything.
FairSpec ==
    /\ Spec
    /\ WF_vars(Reconcile) /\ WF_vars(updateStatus)
    /\ WF_vars(Poll) /\ WF_vars(Inform) /\ WF_vars(Resync)

---------------------------------------------------------------------------
(***************************************************************************)
(* Properties.                                                             *)
(***************************************************************************)

Config == [kind : Sources \cup {"none"}, revision : Revisions \cup Commits \cup {"", "location"},
           tree : Commits \cup {"", "tree"}, subPath : BOOLEAN,
           type : {"Unknown", "Branch", "Tag", "Commit", "blob", "registry"}]

Object == [source : SpecSources, generation : 1 .. MaxEdits + 1, version : Nat \ {0},
           status : [source : Config, ready : BOOLEAN, polling : BOOLEAN,
                     observed : 0 .. MaxEdits + 1]]

\* Every variable has its type; a status that polls is Ready and of a git source
\* that can move.
TypeOK ==
    /\ shallow \in ShallowClone /\ refs \in [Refs -> Commits]
    /\ sr \in Object /\ cache \in Object
    /\ queued \in BOOLEAN /\ timer \in BOOLEAN
    /\ work.pc \in {"idle", "update"}
    /\ work.pc = "update" => work.desired \in Object
    /\ named \subseteq Commits /\ fetched.of \in 0 .. MaxEdits + 1
    /\ pushes \in 0 .. MaxPushes /\ edits \in 0 .. MaxEdits
    /\ faults \in 0 .. MaxFaults /\ fetches \in 0 .. MaxFetches
    /\ sr.status.polling => sr.status.ready /\ sr.status.source.kind = "git"

\* What a status says is polled is polled: the key is queued, a poll is scheduled,
\* or a reconcile is under way that is to end the polling (Reconcile schedules the
\* poll before the write that can fail, and every failure queues the key).
PollingNeverStops ==
    sr.status.polling => \/ queued \/ timer \/ cache # sr
                         \/ work # Idle /\ ~work.desired.status.polling

\* A commit with a sub path, resolved by cloning.  The commit of the status before
\* may stand for it when both have one tree: see CommitIsBuilt.
FilteredCommit ==
    /\ shallow /\ sr.source.kind = "git" /\ sr.source.subPath
    /\ sr.source.revision \in Commits

\* The commit of a Ready source has been named by the revision of that very
\* generation since the edit that made it: for a branch or a tag it may also be one
\* with the sub path tree of a commit so named.  A revision that is no commit is one
\* nobody could resolve, or one that names nothing (ResolvedSource, updateStatus and
\* the conflict of a stale write).
ReadySourceIsOfItsGeneration ==
    Ready(sr) /\ sr.source.kind = "git" /\ ~FilteredCommit =>
        LET s == sr.status.source
        IN \/ /\ IsUnknown(s) \/ RefsNamed(s.revision) = {}
              /\ s.revision = sr.source.revision
           \/ s.revision \in named
           \/ /\ shallow /\ s.tree # "" /\ sr.source.revision \notin Commits
              /\ \E c \in named : hashOfSubpath(s.subPath, c) = s.tree

\* A build pod fails or checks out a commit the revision of its generation has
\* named or, for a branch or a tag, one with the same tree (git.Fetcher.Fetch
\* resolves once more).
FetchedIsNamed ==
    fetched.of = sr.generation /\ ~FilteredCommit =>
        \/ fetched.commit = "error" \/ fetched.commit \in named
        \/ \E c \in named : /\ shallow /\ sr.source.revision \notin Commits
                            /\ hashOfSubpath(TRUE, c) # ""
                            /\ hashOfSubpath(TRUE, c) = hashOfSubpath(TRUE, fetched.commit)

\* The status describes what the source is now: a commit itself, a branch or a tag
\* the commit it is at or one with the same tree.
Current ==
    /\ Ready(sr)
    /\ sr.source.kind = "git" =>
         \/ sr.status.source.revision \in Heads(sr.source.revision)
         \/ /\ sr.status.source.tree # "" /\ sr.source.revision \notin Commits
            /\ sr.status.source.tree \in
                 {hashOfSubpath(TRUE, c) : c \in Heads(sr.source.revision)}

\* A source that moves no more is in the end resolved to what it is, whatever
\* went wrong before: a branch and a tag because they are polled, a first answer
\* nobody could give because of the resync.  HEAD is left out: its type is
\* Unknown, so that its first answer is kept for the whole generation; and so is a
\* filtered commit.
EventuallyCurrent ==
    <>[](sr.source.revision # "HEAD" /\ ~FilteredCommit) => <>[]Current

\* The commit a user asks for is the one that is built.  docs/subpath_filtering.md:46:
\* "If you use a commit sha as the revision, subpath filtering does not work."
CommitIsBuilt ==
    Ready(sr) /\ sr.source.kind = "git" /\ sr.source.revision \in Commits =>
        sr.status.source.revision = sr.source.revision
=============================================================================
