# kpack in TLA+

kpack turns an `Image` resource (a source, a builder, a tag) into OCI images and
keeps them up to date.  It is a set of Kubernetes controllers: every one of them
reads objects from informer caches, compares them with what they should be, and
writes the difference back with API calls, any of which may fail, conflict or be
overtaken.  This directory models the controllers whose interleavings carry the
system's promises, checks them with TLC on small instances and proves the main
results with TLAPS for all sizes.

## Inventory

| component | state it keeps | operations | talks to |
|---|---|---|---|
| Image reconciler (`pkg/reconciler/image`) | `Image.status`, the Image's Builds, its SourceResolver, its cache claim | schedule a Build, trim the history, create/update/delete claim and resolver, report status | Build, SourceResolver and claim objects; builders through the tracker |
| Build reconciler (`pkg/reconciler/build`, `pkg/buildpod`) | `Build.status`, the build pod | create the pod, fold its containers' states into steps, read metadata when it completes, end sidecars, attest | pods; Image reconciler through `Build.status` |
| Build pod programs (`cmd/build-init`, `build-waiter`, `completion`, `rebase`) | files on a shared volume | run the lifecycle steps in order, stop at the first error | the registry, the pod's termination message |
| SourceResolver reconciler (`pkg/reconciler/sourceresolver`, `pkg/git`, `pkg/blob`, `pkg/registry`) | `SourceResolver.status` | resolve a source, poll Git every minute | Git servers; Image reconciler through the status |
| Builder and ClusterBuilder reconcilers (`pkg/reconciler/builder`, `clusterbuilder`) | builder image, `status` | create the builder image from stack, lifecycle and stores; keep serving the last one on error | stores, stacks, lifecycles through the tracker; Images |
| ClusterStack, ClusterStore, ClusterLifecycle, Buildpack, ClusterBuildpack reconcilers | resolved images in `status` | read images from the registry | builders |
| Tracker (`pkg/tracker`) | leases: which object watches which | track, notify on change | every reconciler |
| Change detection (`pkg/buildchange`) | none, but writes to the last Build it compares | which reasons ask for a build, at which priority; build or rebase | Image reconciler |
| Builder creation (`pkg/cnb`) | none (registry images) | readers, order and dependency resolution, mixins, layers | Builder reconcilers |
| Error classification (`network_error_reconciler.go`) | none | which errors queue a key again | builder and input reconcilers |
| Source fetchers (`pkg/git`, `pkg/blob`, `pkg/registry`, `pkg/archive`) and project descriptor (`pkg/cnb`) | the workspace of a pod | fetch and unpack a source, note its version, include and exclude files, set variables | `build-init` |
| Credentials (`pkg/dockercreds`, `pkg/git`, `pkg/secret`) | none | read secrets from the API server or from mounted files, choose one for a registry or repository | every reader and writer of a registry |
| Signing and attestation (`pkg/cosign`, `pkg/notary`, `pkg/slsa`) | signatures in registries; a variable of the process environment | sign an image with every key, publish tags, attest a build | `completion`, builder and Build reconcilers |
| Build logs (`pkg/logs`) | goroutines of a client | wait for an update of an Image, tail the steps of its Build | watches of Image, Build and pod |
| Webhook (`cmd/webhook`, `*_validation.go`, `*_conversion.go`) | none | validate, default, convert | API server |
| Clients, informers, listers, openapi (`pkg/client`, `pkg/openapi`) | generated code | | |

What is hard in it: reconcilers decide on caches that lag behind the API server,
by any amount and each at its own pace; an object may change between two calls of
one reconcile; the process may stop between two calls; nothing is retried unless an
error or an event queues the key again; several objects (an Image, its resolver,
its Builds, its claim) must agree in the end although no transaction spans them.
`PROJECT.json` lists the hazards with their lines.

## Modules

* **`ImageController`** models `pkg/reconciler/image` for one Image.
  *Builds*: `builds` is the history of the Build collection: every Build ever
  created with the resource versions at which it was created, annotated, finished
  and deleted.  An informer list is then a function of one number, the version it
  has reached (`seen`); a list taken earlier in a reconcile is an older number
  (`view` for `fetchLastBuild`, `trim` for `deleteOldBuilds`).
  *Other objects*: the Image (`image`, with all its specs in `specs`), its
  SourceResolver `sr` and its claim `pvc`, each with the copy its informer holds
  (`imageCache`, `srCache`, `pvcCache`).  A cache jumps to the current object
  (informers may coalesce updates), at any time or never.
  *Reconcile*: `pc` is the next step; `last` and `w` are its local variables.
  A step runs from one API call to the next:
  `StartReconcile` (read Image, builder, last build; return early when the builder
  is missing or a build runs) -> `ReconcileBuildCache` -> `ReconcileSourceResolver`
  -> `SkipBuild` or `CreateBuild` -> `TrimFailed` -> `TrimSuccess` -> `UpdateStatus`.
  An error return (`Failed`) drops the locals and queues the key.  `CallFails` is a
  call that fails; `Crash` a restart of the controller, which lists its caches
  afresh and queues everything.
  *Environment*: `FinishBuild` (the Build controller), `ResolveSource` (the
  SourceResolver controller), `EditSpec`, `Trigger`, `NewCommit`, `ChangeBuilder`.
* **`BuildHistory`** is the abstract specification of the Builds of an Image: a
  history of builds, one running at a time, from which a finished build is dropped
  only after a newer one ended the same way.  `ImageController` implements it
  (`ImplementsBuildHistory`), with the mapping in its definition `History`.
* **`MCImageController`** gives names to the sets the cfgs choose from.
* **`ImageController_proofs`** holds its theorems: types, sources, history, refinement and
  settled states.
* **`BuildController`** models `pkg/reconciler/build` for one Build, the pod it
  creates and the programs in that pod.
  *Objects*: `build` (version and status) and `pod` (state of every step and
  sidecar, ready annotation, deadline, reason, completion's message), each with the
  copy of its informer.  `created` numbers the pods of the Build; a pod's number is
  also the name of the image it pushes, so that images of a first and a repeated
  execution are told apart in `registry` and `attested`.
  *Reconcile*: `StartReconcile` (read Build and pod from the caches; nothing to do
  for a finished Build) -> `CreatePod` or `PermanentError` when the cache has no pod
  -> `SetBuildReady` -> `CleanupIfNeeded` (both with sidecar support only) ->
  `ReadPod` (metadata, attestation, condition) -> `UpdateStatus`.  An API call may
  fail without effect (`CallFails`) or take effect and lose its answer
  (`AnswerLost`); both end the reconcile and queue the key.
  *Pod*: without sidecar support steps are init containers that the kubelet runs one
  by one; with it they are containers, all running `build-waiter`, which waits for
  the previous step's done file (`WaitFile`), runs the command, writes its own done
  file or the shared error file, and watches the latter.  `Phase` is the kubelet's,
  as a function of the containers.  `Deadline` is `activeDeadlineSeconds`: the
  user's, or the one second `cleanupIfNeeded` patches in to get rid of sidecars.
* **`BuildOutcome`** is what a Build promises to the Image: it ends once, and its
  success names an image that was pushed before.  `BuildController` implements it.
* **`BuildController_proofs`** holds its theorems.

* **`BuilderController`** models one Builder or ClusterBuilder, its five kinds of
  input (stack, lifecycle, store, Buildpacks, ClusterBuildpacks) and their
  reconcilers.  `obj` and `cache` are the inputs and the informers' copies, `lease`
  the tracker's memory of who watches what: three resyncs long, lost in a crash,
  dropped at the change it should have announced once it has run out.  The reconcile
  of the builder is cut at its reads, its three registry writes (relocated run image,
  builder image, signature) and its status update, with `got` what it has read so
  far; the reconcile of an input is one step.  `dropped` is the keys whose last
  reconcile ended in an error that `NetworkErrorReconciler` made permanent: only an
  event or the resync (`Resync`) brings them back.  The contents of an input are a
  number that an edit raises, and a builder image is the contents it was made from.
* **`BuilderImage`**, with **`MCBuilderImage`** for its inputs, is `pkg/cnb` as
  operators: what stores and objects offer, which offer a reference resolves to, the
  layers fetched for it and for the order of a meta-buildpack, mixins, platforms and
  APIs, and the set of images that the code may write for one input.  Where the code
  ranges over a map, hears from goroutines or sorts by a key that does not tell all
  elements apart, every order is a member of the set.  `fetch` is a function of the depth
  of orders, since the code follows orders within orders by recursion.
* **`BuilderSigning`**, with **`MCBuilderSigning`**: several workers of one process
  that sign builders and hand cosign the repository in the environment.
* **`SourceResolver`** models the SourceResolver of an Image: the resolution of Git,
  blob and registry sources (both the listing of refs and the shallow clone that
  compares the tree of a sub path), the rules of its status, the timer of the next
  poll, and the fetch of a build pod that resolves once more.  `refs` is what the
  repository answers, `named` is what the revision has named since the last edit,
  against which results are judged.
* **`Credentials`** and **`SourceFetch`** are operators without state: secrets as the
  controllers read them and as programs read them from files, with the set of all
  answers where the code ranges over a map; archives, layers, descriptors and
  variables, with paths as sequences of components.  **`Lists`** has the filters of lists
  that these modules and `BuilderImage` share.
* **`BuildPipeline`**, with **`MCBuildPipeline`** for its Builds, takes one build from
  the generation of its pod through `build-init`, export or rebase, and `completion`
  to the attestation.  `case` is the Build with its secrets and source; `world` is
  what changes around it, the source behind a URL or tag (`MoveSource`) and the
  registry's tags (`PushTag`); the other variables are what one program leaves for the
  next.  Any call to a server may fail (`CallFails`).
* **`BuildChanges`**, with **`MCBuildChanges`**, has the comparison that
  `ImageController` summarises: the six changes, their errors, order and priority, and
  whether the next Build builds or rebases.  The comparison is two steps
  (`StartCompare`, `Decide`), because it blanks the Git revision of the last Build in
  place, on the object that a worker of the Build controller may copy (`CopyBuild`).
* **`BuildLogs`** is a client of `pkg/logs`: the waiter (`wait`), the goroutine that
  watches the pod (`tail`) and the consumer that streams (`stream`, `out`), against
  the Image, its Builds and their pods.
* **`BuilderController_proofs`**, **`BuilderImage_proofs`**, **`SourceResolver_proofs`**,
  **`BuildPipeline_proofs`**, **`BuildChanges_proofs`** and **`BuildLogs_proofs`** hold the
  theorems of the module in their name.

What is abstracted: a source, the rest of `spec.build` (env, resources, services,
bindings) and what a builder offers (run image, buildpacks, lifecycle) are opaque
values that can only be compared, as the code compares them; a revision is a
number or a name; claim sizes are numbers, 0 standing for "no volume cache".  The
status of an Image keeps the reason of the Ready condition, the counter, the
references and `observedGeneration`.  Deleting a claim takes effect at once.  Of a
Build's status the model keeps condition, image, attestation, pod name and completed
steps; of a termination message whether it can be decoded; a container without probe
is ready while it runs; the init container that copies `build-waiter` is taken to
succeed.  Versions and APIs are numbers, a digest is the contents it stands for, and a
credential is known by the secret it came from.  Each module has the detail its
properties need and takes the others' parts as steps of an environment: `FinishBuild`
and `ResolveSource` in `ImageController` stand for `BuildController` and
`SourceResolver`, the commands of a step in `BuildController` for `BuildPipeline`, the
contents of an input in `BuilderController` for `BuilderImage`.

## Runs

Deadlock is not checked: a behaviour ends when the bounds are used up, or the Build is
done, and the controller is quiet.

| run | instance | what it shows |
|---|---|---|
| `image_history` | triggers and edits of the cache size (none or 1), limits 1, 2 changes, 1 fault | builds one at a time (`OneBuildAtATime`), numbered without gaps, started from the newest success, the newest ones kept; once settled, claim, limits and status as the spec asks (`SettledAsSpecified`); `BuildHistory` implemented |
| `image_changes` | a Git and a blob source, two run images; one edit, commit or builder change, one fault; fairness | a Build has the source of its generation and a cause; `UpToDate` is true when settled; the newest inputs are built |
| `build_containers` | 3 steps as init containers, attestations, 2 faults among lost calls, crashes, deleted pods and killed steps, messages cut or not | a Build ends once and for all, as its pod did (`SettledOutcomeIsThePods`); success names a pushed, attested image (`SuccessIsBacked`); `BuildOutcome` implemented |
| `build_sidecars` | 3 steps and a sidecar, no deadline, commands may hang, 1 fault of any kind but deletion (a lost call, a restart, a failing `Generate`, a killed step, a sidecar that ends, a message cut); fairness | steps in order, none before the sidecar runs; the Build ends, unless its pod is `Stuck` |
| `builder_inputs` | both kinds of builder, signed; one change (edit, deletion or creation) of the stack, the store, a Buildpack or the builder; one failed call, network error or crash; fairness | once settled the builder is made from what its inputs hold; what it offers is relocated, pushed and signed; it goes on serving and its image never goes back; it ends up to date |
| `builder_image` | 44,450 cases: 5 x 4 x 4 x 3 sets of offers under 9 orders; needs, mixins, platforms and APIs of a stack | an image is closed under its order, each layer once; it does not depend on the order of listers, goroutines or maps; no buildpack lacks a mixin where it runs |
| `builder_signing_env` | violation | two builders signed at once |
| `source_resolver` | 3 commits (two with the same sub path), a branch, a tag, HEAD and a commit, a blob or an image; 1 push, 1 edit, 2 faults, 1 build, both values of the shallow-clone flag; fairness | polling never stops; a Ready source was named by its own generation; a pod fetches such a commit or fails; the source ends up current |
| `commit_filtered` | violation | a commit with the sub path of the one before is not built |
| `build_pipeline` | 3,022 Builds that differ in secrets, sources, descriptors, signatures, bindings or builders, with names such as `./a`, `a/../b` and `../x` in archives; 1 move of source or tag | reports and attestations are true (`ReportIsTrue`); buildpacks get the source as listed and the Build's environment; the credentials of controller, check, fetch and export agree, with the exceptions the property states; every key has signed |
| `build_changes` | 2 environments, 2 commits and a blob; builders that differ in run image, stack, or buildpack and lifecycle; 2 changes or triggers; fairness | no pod is made from the blanked revision; an image is of the spec of its Build, rebased or not; rebuilds stop; triggers are served |
| `build_logs` | 2 steps that start in any order, 1 edit, 1 fault (a failing status update, a deleted pod, a closed watch, a failing stream), steps and Builds that fail; fairness | logs in order, each once, those of the failing step included; the image of the generation waited for; the wait returns |

Where a property is a conjunction (`SettledAsSpecified`, `ImageIsComplete`,
`ImageIsDeterministic`, `ReportIsTrue`, `BuildpacksGetTheirInputs`,
`CredentialsAgree`, `TailIsFaithful`), its parts are definitions of their own, each
with what it says of the code.

Bounds: `MaxBuilds` is never the limiting bound in these instances (each change causes
at most one Build); `MaxChanges` 2 (`image_history`) gives a first Build and two more,
which is what it takes to exceed a limit of 1, to have a failure between two successes,
and to edit during a running build and again after it; one fault is enough to lose any
single write or to restart at any point.  `image_changes` has one change, since it
checks liveness too; its invariants are proved for any number.  "Settled" states
(nothing queued, caches current) are where the eventual promises are stated as
invariants.  `NumSteps` is 2 or 3 of 7: two steps are a publishing one and completion, a
third adds a step in the middle that waits and is waited for; what happens between more
of them is the same, and `OrderOfSteps` is proved for any number.  Two faults are one to
lose a call or a pod and one to restart or lose the next; pods created are bounded by
the faults that delete them.  A builder with one change and one fault has the change
before, between and after any two reads, and the fault at any call; two changes of
inputs reach nothing that a change during a first, failed reconcile does not.  In
`build_changes` there is no bound on the number of Builds: a comparison that its own
Build does not satisfy would be a cycle, which `EventuallyUpToDate` excludes.  In
`build_pipeline` one move is enough, since a value is read at most twice and moves
matter between two reads.  `source_resolver` has no name that is both a branch and a
tag; the theorems do.

Fairness: the work queue hands out every queued key and retries what it is told to,
informers deliver what the API server holds, and they resync every ten hours: the
reconciles, informers and resyncs of all fair specifications rest on that.  In
`image_changes` the SourceResolver controller and the end of a Build are weakly fair
too; that a Build ends is the question of `build_sidecars`, where the kubelet starts
containers, refreshes the downward volume and enforces the deadline that
`cleanupIfNeeded` sets (the spec sets none there), `build-waiter` looks
at its files every second, and a command ends, except where `StepsMayHang` withdraws
that.  `source_resolver` adds the poll's timer; `build_changes` and `build_logs` that
pods end, and the latter the goroutines of the client.  Users and faults are under no
obligation.

### The violations

`builder_signing_env`: `ImageSigner.SignBuilder` sets `COSIGN_REPOSITORY` for one key
and unsets it after it.  `docs/image.md:218` has a key's signatures go to the repository
its secret is annotated with, but the environment is the process's, and several workers
sign in it: a signature goes to the repository of another builder's key, or of no key;
an error return leaves the variable set for whoever signs next.

`commit_filtered`: `docs/subpath_filtering.md:46` says that sub path filtering "does not
work" for a commit as the revision.  With the shallow clone it does: the clone gives a
commit the tree of its sub path like any other revision, and
`retainCommitIfTreeUnchanged` (`sourceresolver.go:153`) keeps the commit of the status
before when the trees are equal.  A source edited to a commit is then Ready, for the new
generation, with another one.  The properties of `source_resolver` let a commit stand for
another with its tree for branches and tags only, and leave this case (`FilteredCommit`)
to this run.

### Known exceptions

Limits of the code that the passing runs leave out, either by a constant of their cfg
or by a clause of the property.  Those of the first kind are found by TLC when the
constant is changed as said.

* `ImageController`.  `LatestImageReported` (`docs/image.md:333`): build 1 succeeds,
  the reconcile that sees it creates build 2 and its status update conflicts, build 2
  fails; from then on `LatestForImage` (`image_builds.go:127`) returns the old status,
  which never held build 1's image.  `OneBuildAtATime` with `SameSecond = TRUE`:
  `ByCreationTimestamp` calls equal timestamps less both ways, timestamps are whole
  seconds, and with two Builds in one second the older may be the "last build".
* The webhook compares a new cache size with the previous spec only
  (`image_validation.go:137`).  Cache 2 -> none -> 1 while a build runs leaves the
  claim of size 2 in place, and `reconcileBuildCache` asks to shrink it; the API
  server refuses and the reconcile fails until the spec changes.
* `BuildController`.  `SettledOutcomeIsThePods` with `Faults = {"generate"}`:
  `reconcileBuildPod` (`build.go:255`) makes every error of `Generate` permanent; if the
  informer has not seen the pod just created, a second reconcile generates again, and a
  failing read marks the Build failed while its pod completes and pushes.  `BuildEnds`
  has its exceptions in `Stuck`: without a deadline (the default) a Build does not end
  when a command hangs, when a `build-waiter` is killed, since it writes no error file,
  or when a sidecar ends before the pod was seen with all containers ready; and with or
  without one when its message was cut, since `build.go:180` retries a message that
  cannot change (kubelets cut messages of pods with many containers below the 4096 bytes
  that `CompressBuildMetadata` admits).  A rebase that hangs is not ended by the
  deadline of the spec either: `rebasePod` leaves out `ActiveDeadlineSeconds`.
  `StepsWaitForSidecars` with `Faults = {"delete"}`: `setBuildReady` (`build.go:229`)
  patches by name, so that a pod created anew is marked ready for its predecessor's
  containers.  A pod deleted after its Build ended is created again while the Build
  cache is behind, although `docs/build.md:7` speaks of "a single build execution"; the
  outcome does not change (`Refinement`).
* `BuilderController`.  `NetworkErrorsAreRetried` with `Faults = {"dial"}` and
  `MaxFaults = 2`: a connection that cannot be made is not classified as a network error
  (`handleError`).  With `Faults = {"http"}` and `MaxFaults = 2` too: the error of the
  second tag that `Save` puts on an image (`client.go:60`) and those of cosign are not
  marked as network errors.  The event of the status that reports it brings the key back
  once; the second failure writes no new status, and the key waits for the resync.
* `SourceResolver`.  A filtered commit: see `commit_filtered`.  HEAD has the
  type Unknown and is never polled (left out of `EventuallyCurrent`).  The resolved blob
  leaves out `stripComponents` of the spec (`pkg/blob/resolver.go:13`).
* `BuilderImage`.  `ResolvesInDocumentedOrder`: of equal versions the code takes the
  last, which is not the first of the order in `docs/builders.md`.  One id and version
  with two contents makes the result depend on the order of a list.
* `BuildPipeline`.  With two secrets for one registry, controller and pod may choose
  differently (a map is ranged over); a secret annotated for a registry and for Git
  becomes a registry flag only (`build_pod.go:916`); a secret that is both in the
  service account and among the builder's pull secrets has two mounts with one path,
  and the API server refuses the pod.  A key for attestations that does not parse, the
  controller's own included, is an error of every retry.  A cosign key without a
  password is not used for attestations (`signing_secret.go:42`), although
  `docs/image.md:181` allows it.  Where the service account has no credential for the
  registry, write access is checked with the node's (`build-init/main.go:123`); a pull
  secret for that registry joins the credentials afterwards and is what the export uses,
  unchecked (`CheckedCredentialIsUsed` says so).  `completion` asks the node's helpers
  before the secrets (`completion/main.go:105`), the opposite of `build-init` and
  `rebase`, and may read the image with another credential (`CompletionKeychain`); the
  controller has a keychain of its own volume between the account and the node
  (`k8s_keychain.go:59`), which a secret whose key is of a form that matches nothing
  leaves to decide.  An entry of an archive whose `..` lead out of the workspace is
  unpacked outside (`archive.go:44`), where writing may be refused; it is none of the
  workspace's contents.  A service binding may not use a secret that a service account
  lists under `secrets` (`generator.go:95`), but may use one it lists for pulling.
* `BuildChanges`.  An image without a stack label leaves an empty status without an
  error; every later comparison of its run image is an error.  Both liveness properties
  say so.
* `BuildLogs`.  A Build whose creation is followed by a status update that fails is found
  by the next reconcile.  A watch that the API server closes ends the tail without an error
  (`TailIsComplete`); a Build that fails without a pod, or a pod deleted before it was
  watched, leaves the wait hanging (`WaitReturns`).

## Proofs

Every invariant and every action property that a passing run checks is also a theorem;
liveness is not.  All theorems hold for every value of the constants: any number of
Builds, steps, commits, edits and faults, and, for the two algorithms, any archive, set of
secrets, sources and order.  What is assumed of the constants is stated where they are
declared: `SpecAssumption`, `LimitsAssumption` (limits of at least 1, which the webhook
enforces) and `BoundsAssumption`; `StepsAssumption`, `FlagsAssumption` and
`FaultsAssumption`; `BuilderAssumption`; `SourceAssumption` and `CommitsAssumption`
(there is a commit, and the name of a ref is not the hash of one); `InputsAssumption`
(a source has a revision exactly when it is a Git source, a builder has buildpacks and a
run image); `LogsAssumption`; and one `CasesAssumption` in each of `BuildPipeline` and
`BuilderImage`, on the shape of the inputs.  In `BuildPipeline`: what the API server and
the archives list is a list, secrets are keyed by their name and have finitely many keys,
pull secrets exist, and a source has a host and at least one version.  In `BuilderImage`:
the API server holds one object of a name, and a store image lists an id and version once,
its label being a map from them.  TLC evaluates both on the cases of the runs.  Three
theorems have a hypothesis of their own; each is needed, and the known exceptions say what
happens without it.

**Images** (`ImageController_proofs`; `~SameSecond` is assumed for everything but the
first two).

* `TypeCorrect`: `Spec => []TypeOK`, one lemma per action.
* `SourceCorrect`: `SourceOfItsGeneration`.  `SourceInv` adds that a SourceResolver
  resolved at its own generation has resolved its spec, in the API server, in the cache
  and in the hands of a reconcile, which has the source of the generation it works on.
* `HistoryCorrect`: `~SameSecond => (Spec => []IInv)`.  None of the properties of
  the history is inductive: they depend on what a reconcile knows from a stale list.
  `IInv` adds that Builds are numbered and stamped in order (`Numbered`, `Stamped`),
  that each is created after the previous one finished (`Sequential`), that a Build
  is deleted only after it and a newer one with the same outcome were seen
  (`DeletionsJustified`), and that the last build of a reconcile in progress is the
  newest of those created up to the version it listed, is finished, and that every
  deleted Build was in that list (`LastIsNewest`).  The crux is `CreateHistory`: if
  the list missed a newer Build, that Build still exists (it cannot have been
  deleted, having never been seen), so its name is taken and the creation fails.
* `OneBuild`, `NumbersNeverReused`, `NewestKept`, `NewestSuccessReused`,
  `BuildsHaveCauses` follow from `IInv`, and so does `Refinement`: a creation, an end
  and a deletion are the steps of `BuildHistory`, everything else stutters.
* `SettledCorrect` and `UpToDateCorrect`: that no event is lost.  A settled state says
  nothing of how it was reached, so `SettleInv` follows the reconcile: as long as its
  key is not queued again, it works on what the informers still show (`FreshInv`), and
  each step done has reached its aim, provided that the informers have caught up with
  what was written (`ClaimInv`, `ResolverInHand`, `StatusInv`, `TrimInv`, `EndInv`);
  what it wrote itself is an event that will queue the key.  `OrderInv` orders the
  copies of a SourceResolver, so that a cache that equals the object implies that the
  reconcile had it too.

**Builds** (`BuildController_proofs`), for any number of steps (at least 2) and any set
of sidecars, with all faults.

* `TypeCorrect`, `BuildInvariant`, `OrderOfSteps`, `SuccessBacked` and `Refinement`
  (`Spec => ImplementsBuildOutcome`).  The inductive
  invariant `IInv` says what a completed container proves at a distance: a done
  container left a done file and a command runs in a running container (`PodRuns`);
  the publishing step's done file means a pushed image (`Pushed`); hence every
  version of a pod that the controller may look at, current, cached or local, has
  pushed its image if its completion is done (`Completes`), and a Build, cached or
  local, that says True names such an image (`Backed`).  `Versions` is what makes an
  end final: a reconcile that still has the current version works on a Build that
  has not ended, so a stale one is refused.  `PodReading` shows that the two places
  where the code decides on success, `conditionForPod` and `MetadataReady`, agree.
* `SidecarsFirst`: `StepsWaitForSidecars` while the Build has had one pod
  (`created <= 1`).  `CopyInv` orders the controller's copies of a pod (the same pod
  earlier, or an older pod) by what its containers may have done since (`Grows`), so
  that what `setBuildReady` saw in its copy is true of the pod it patches.
* `SettledEnds`: a settled Build whose pod has ended has ended, whatever failed.
  `SettledAsThePod`: with the pod's outcome, where `Generate` does not fail
  (`"generate" \notin Faults`).  `SettleInv` says that a reconcile which no event has
  overtaken has the newest copy of the pod; `OutcomeInv` that a Build that says it has
  ended, in whatever copy, ended as its pod, which ends only once.

**Builders** (`BuilderController_proofs`).

* `TypeCorrect`; `ReportedImageCorrect` and `ServingContinues` from `IInv`: the numbers
  of inputs, copies and reads only grow (`InputsGrow`, `ReadsGrow`, `SpecsCount`), a
  reconcile whose update is accepted worked on the current builder (`CopyIsCurrent`), and
  what it has written so far is in the registry (`Created`).
* `SettledCorrect`: `SettledBuilderIsCurrent`.  `SInv` adds that every input at rest has
  been read (`InputsAreRead`), that a lease lasts from `Track` to the next event or
  reconcile (`Leases`), that a reconcile with no event waiting has read what the caches
  still show (`ReconcileIsFresh`), and that a builder at rest is made from them
  (`RestIsCurrent`).

**Builder images** (`BuilderImage_proofs`), for all sources, orders, stacks and
lifecycles.

* `BuilderInvariant`: `IInv` follows the layers while groups are added.  They are offers
  of the sources under their own keys (`LayersKept`), they hold a buildpack for every entry
  of their own orders (`LayersClosed`) and all that the groups added so far name
  (`GroupsThere`); an image was written from them and passed the validation (`Written`).
  That `AddGroup` keeps `LayersClosed` is the claim about `fetch`: what it gives for an
  offer is closed under orders, by induction over the depth.  `AddLayers` keeps it although
  a later layer may replace one with the same key, because the key has id and version.
* `CompleteCorrect`: `ImageIsComplete`; deduplication drops copies only.
* `MixinsCorrect`: `MixinsAreThere`.  The stack reader admits a mixin without a stage only
  if both images have it, so that neither the strict nor the relaxed contract of
  `mixinPresent` lets a missing one through.
* `DeterminismCorrect`: `ImageIsDeterministic`.  Two lists sorted by an order that tells
  all elements apart are equal, since the first place at which they differ would hold an
  element that the other has later; a sorted list exists, each element at the place that
  the number of those before it gives.  Both are used for the list of a store, whichever
  image answers first, and for the layers.  A reference resolves to the same id, version
  and homepage for every order in which the listers hand out objects.  `Unambiguous` (no
  id and version with two contents) is part of the property, and needed: see the known
  exceptions.

**Sources** (`SourceResolver_proofs`).

* `TypeCorrect`, `PollingContinues`, `ReadySourceCorrect`, `FetchedCorrect`.  The status
  of every version, in the API server, the cache or a reconcile's hands, is judged by
  what the revision has named since the edit (`Fine`), where a commit with the same sub
  path tree stands for another only if the revision is a branch or a tag; `Versions`
  refuses the write of a reconcile that an edit has overtaken, which is why the commit
  of an earlier generation cannot become Ready in a later one.

**Builds compared and run** (`BuildChanges_proofs`, `BuildPipeline_proofs`).

* `PodsCorrect`, `ImageCorrect`: a Build that is still running is never blanked, a copy
  of a running Build has its spec, and a chain of rebases has the environment and source
  of the Build it started from, since a Build whose only reason is STACK has those of the
  last one (`Sound`, `StackRebases`).
* `PipelineInvariant`, `ReportCorrect`, `SigningCorrect`: what was unpacked is handed
  from the metadata to the label and to the provenance (`Recorded`), although the source
  and the tags may have moved on; signatures and targets are those of the keys and tags
  done so far, and all of them when the step is over (`Signing`).
* `GivenInvariant`, `InputsCorrect`, `CredentialsCorrect`: a second invariant `JInv` says
  what a program of the pod was given, at the step at which it uses it: the flags and
  bindings that the generator makes of the secrets (`PodIs`), the credentials read from
  them and the check made with them (`CredsAre`), the workspace as it was unpacked and the
  environment as it was written (`VolumesAre`), from a version the source had at some time
  (`WorldIs`).  `BuildpacksGetTheirInputs` is then a claim about unpacking: after each
  entry the disk is that of the entries so far at the paths their names resolve to, a later
  entry winning over an earlier one (`HoldsTo`), for an archive and for the layers of an
  image in turn; the workspace is what lies inside its directory.
  `CredentialsAgree` is one about joining (`Joins`): whichever order the map of
  credentials is built in, a registry has the credential of a secret for it, the pull
  secrets never replace a credential of the service account, so that only where it has
  none may the export use another than was checked, and where one secret names the registry
  in a known form controller and pod find the same.

**Logs** (`BuildLogs_proofs`).

* `WaitCorrect`: every event the waiter may still receive shows an Image whose status is
  consistent with the Builds and specs of then (`ImageFits`), and they only grow; a Build
  made by a reconcile whose status update fails is of the generation that was read
  (`ReadGen`).
* `TailCorrect`: what is streamed and what is queued for it are the steps 1, 2, ... in
  turn, and a tail that is about to end has been shown the end of the pod (`TailOK`), at
  which every step that worked (`Worked`), the failing one too, had started.

Only model-checked:

* the liveness properties (`EventuallyBuilt`, `BuildEnds`, both `EventuallyUpToDate`,
  `EventuallyCurrent`, `TriggersAreServed`, `WaitReturns`): the prover does not reason
  about fairness, and these need it;
* `SignaturesGoToTheirRepository` and `CommitIsBuilt`, which the code violates.

Induction over data needs a word, since the library's induction theorems take the claim as
a parameter, which the provers cannot instantiate.  Loops over files, variables, secrets
and layers are folds, and orders within orders a recursive function; for each, a lemma
states the sequence of intermediate values (`fold[0]`, `fold[1]`, ...), and a claim about
all of them is proved by the least counterexample: the set of places where it fails would
have a least member (`Least`, `Upto`), whose predecessor satisfies it.

## Not modelled

* Deletion of an Image or of Builds by users, several controller replicas, the registry
  cache, additional tags of an Image, and the `BuilderReady` and `BuilderUpToDate`
  conditions.
* Of a Build: its deletion, the wording of its conditions, resources and scheduling of
  its pod, names of volumes.
* Cycles in the orders of meta-buildpacks, on which `fetch` does not return (the TODO at
  `remote_buildpack_fetcher.go:87`), and the dependency tree printed in a status.
* The cloud providers' credential helpers, go-git, the lifecycle, cosign and notary
  themselves: external, modelled by how the code uses them.
* `TailImage`, which never ends, and `GetImageLogs`, a single list, beyond the steps they
  share with `Wait`; the texts that `change_logger.go` and `progress_logger.go` print.
* Validation and conversion beyond the rules a reconciler relies on: functions of one
  object, field by field.
* Generated code (`pkg/client`, `pkg/openapi`, deep copies) and logging.

## Plan

1. `ImageController`, `BuildHistory`, proofs of the history (done).
2. `BuildController`, `BuildOutcome`: the Build reconciler, its pod and
   `build-waiter`; invariant, order of steps and refinement proved (done).
3. `SourceResolver`: resolution, polling, unknown results (done).
4. `BuilderController` with the tracker, the inputs' reconcilers and the classification
   of errors; `BuilderImage` and `BuilderSigning` (done).
5. `BuildChanges`: change detection, rebase or build (done).
6. `BuildPipeline` with `Credentials` and `SourceFetch`: what the programs of a build
   hand to each other (done); `BuildLogs` (done).
7. Proofs for the newer modules: `BuilderController`, `SourceResolver`, `BuildChanges`,
   `BuildLogs` and the safety of `BuildPipeline` (done).
8. Proofs for the older ones: the refinement of `BuildHistory`, `SourceOfItsGeneration`,
   the settled states of Images and Builds, `StepsWaitForSidecars` (done).
9. Proofs about the algorithms: `BuildpacksGetTheirInputs` and `CredentialsAgree` of
   `BuildPipeline`, and the invariants of `BuilderImage` (done).
10. Left: a composition of Image and Build reconcilers, with `BuildOutcome` in place of
    `FinishBuild`.
