---------------------------- MODULE BuildPipeline ----------------------------
(***************************************************************************)
(* One build from its pod to its attestation: the pod generator            *)
(* (pkg/buildpod) chooses what the containers get to see, build-init       *)
(* fetches the source, the lifecycle (external) or the rebase program      *)
(* exports an image, completion signs it and reports it, and the Build     *)
(* reconciler attests it (pkg/slsa).  BuildController has the order and    *)
(* the failures of the containers; this module has what they hand to each  *)
(* other while the world around the build moves on: the source behind a    *)
(* URL or a tag changes, and others push to the tags of the image.         *)
(***************************************************************************)
EXTENDS Credentials, SourceFetch

CONSTANTS
    Cases,          \* the Builds and clusters to look at
    MaxMoves        \* bound: how often the world moves during a build

\* The entries of an archive.
AreEntries(s) ==
    /\ IsList(s)
    /\ \A i \in DOMAIN s : /\ DOMAIN s[i] = {"path", "kind", "data", "mode", "fat"}
                           /\ s[i].kind \in {"dir", "file", "link"} /\ IsList(s[i].path)

\* The layers of a source image; a file in them may be an archive itself.
AreLayers(s) ==
    /\ IsList(s)
    /\ \A i \in DOMAIN s :
         /\ AreEntries(s[i])
         /\ \A e \in Range(s[i]) : e.kind = "file" /\ e.data.format \in {"zip", "tar", "tar.gz"} =>
                                       AreEntries(e.data.entries)

\* A reference to a secret that names none.
NoName == -2

\* Secrets go by their names, of which none is that of no credential, and hold finitely
\* many keys; what the API and the archives list is a list; the pull secrets that are named
\* exist, as a pod with a volume for one that does not is never started; a source has a host
\* and is there in at least one version; validation lets no negative stripComponents pass.
ASSUME CasesAssumption ==
    \A c \in Cases :
        /\ \A n \in DOMAIN c.cluster :
             /\ n \in Nat \ {Anonymous} /\ c.cluster[n].name = n
             /\ IsFiniteSet(c.cluster[n].keys) /\ IsFiniteSet(c.cluster[n].docker)
        /\ IsList(c.tags) /\ IsList(c.secrets) /\ IsList(c.pullSecrets)
        /\ IsList(c.builderPullSecrets) /\ IsList(c.env)
        /\ Range(c.pullSecrets) \subseteq DOMAIN c.cluster \cup {NoName}
        /\ Range(c.builderPullSecrets) \subseteq DOMAIN c.cluster
        /\ c.source.url.host # "" /\ c.source.strip \in Nat
        /\ IsList(c.source.content) /\ c.source.content # <<>>
        /\ \A v \in DOMAIN c.source.content :
             /\ c.source.type = "blob" => AreEntries(c.source.content[v].entries)
             /\ c.source.type \notin {"git", "blob"} => AreLayers(c.source.content[v].layers)

VARIABLES
    case,       \* the Build and its cluster; does not change
    world,      \* what the source URL and the first tag stand for, and the moves so far
    pc,         \* the step that is next
    pod,        \* what the generator gave the containers
    creds,      \* the registry credentials of the running program
    checked,    \* the credentials the check for write access could have used
    out,        \* volumes of the pod: the workspace, its metadata and environment, docker config
    image,      \* the exported image, its tags in the report and its label
    signed,     \* signatures, notary targets and the environment of completion
    report      \* the termination message, and the attestation made from it

vars == <<case, world, pc, pod, creds, checked, out, image, signed, report>>

---------------------------------------------------------------------------
(***************************************************************************)
(* The pod generator.                                                      *)
(***************************************************************************)

SecretNamed(name) == case.cluster[name]

\* bindingUsesForbiddenSecret: a secret of any service account of the namespace.
bindingUsesForbiddenSecret(name) == name \in Range(case.secrets) \cup case.otherSecrets

\* fetchServiceBindings: services, else the bindings of the CNB specification.
fetchServiceBindings == IF case.services # {} THEN case.services ELSE case.cnbBindings

\* fetchBuildSecrets: each secret once, and a pull secret only where it is not one
\* of the secrets.
fetchBuildSecrets ==
    LET pull == Distinct(case.pullSecrets)
    IN [secrets |-> Distinct(case.secrets),
        pull |-> Pick(pull, {i \in DOMAIN pull : pull[i] \notin Range(case.secrets)})]

\* ... every secret must exist, and a pull secret have a name.
SecretsMissing ==
    \/ \E n \in Range(case.secrets) : n \notin DOMAIN case.cluster
    \/ NoName \in Range(case.pullSecrets)

\* resolveBuilder and fetchBuilderConfig: the builder must be of a known kind and be found,
\* its image have the stack label, the builder label and numbers for user and group, and not
\* be one for Windows.
BuilderUnusable ==
    \/ case.builder.kind \notin {"", "Builder", "ClusterBuilder"} \/ ~case.builder.found
    \/ ~({"stack", "metadata", "uid", "gid"} \subseteq case.builder.has)
    \/ case.builder.os = "windows"

\* Generate: bindings, secrets and builder, where the first that is wrong is an error.
GenerateFails ==
    \/ \E n \in fetchServiceBindings : bindingUsesForbiddenSecret(n)
    \/ SecretsMissing
    \/ BuilderUnusable

\* The filters buildSecrets and, in a rebase, dockerSecrets.
SecretIsUsed(s) ==
    \/ s.docker # {} \/ IsDockerConfig(s)
    \/ ~case.rebase /\ (s.git # "" \/ (case.source.auth = "secret" /\ s.blob # ""))

\* The flag a secret becomes in setupSecretVolumesAndArgs, "" where it is ignored.
SecretFlag(s) ==
    IF ~SecretIsUsed(s) THEN ""
    ELSE IF s.type = "basic-auth" /\ s.docker # {} THEN "basic-docker"
    ELSE IF s.type = "dockerconfigjson" THEN "dockerconfig"
    ELSE IF s.type = "dockercfg" THEN "dockercfg"
    ELSE IF s.type = "basic-auth" /\ s.git # "" THEN "basic-git"
    ELSE IF s.type = "ssh-auth" THEN "ssh-git"
    ELSE IF s.blob # "" THEN "blob" ELSE ""

\* setupSecretVolumesAndArgs: a flag for each of the secrets that is not ignored.
SecretArgs(secrets) ==
    LET flags == [i \in DOMAIN secrets |-> <<SecretFlag(secrets[i]), secrets[i]>>]
    IN Pick(flags, {i \in DOMAIN flags : flags[i][1] # ""})

\* setupImagePullVolumes: the pull secrets of the account, then those of the
\* builder, each once.
PullArgs(pull) ==
    LET names == Distinct(pull \o case.builderPullSecrets)
    IN [i \in DOMAIN names |-> <<"imagepull", SecretNamed(names[i])>>]

\* setupCosignVolumes: the secrets with a cosign.key, a directory for each name.
CosignSecrets(names) == {SecretNamed(n) : n \in {m \in names : SecretNamed(m).key}}

\* Generate and BuildPod.
Generate ==
    /\ pc = "generate"
    /\ IF GenerateFails
       THEN pc' = "rejected" /\ pod' = pod
       ELSE LET fetched == fetchBuildSecrets
                secrets == [i \in DOMAIN fetched.secrets |-> SecretNamed(fetched.secrets[i])]
            IN /\ pc' = IF case.rebase THEN "rebase" ELSE "credentials"
               /\ pod' = [args |-> SecretArgs(secrets), pullArgs |-> PullArgs(fetched.pull),
                          cosign |-> CosignSecrets(Range(case.secrets)), bindings |-> fetchServiceBindings]
    /\ UNCHANGED <<case, world, creds, checked, out, image, signed, report>>

---------------------------------------------------------------------------
(***************************************************************************)
(* build-init.                                                             *)
(***************************************************************************)

\* A program ends with an error: the build has failed.
Fatal == pc' = "failed" /\ UNCHANGED <<case, world, pod, creds, checked, out, image, signed, report>>

\* The credentials of the service account.
LoadCredentials ==
    /\ pc = "credentials"
    /\ pc' = "write"
    /\ creds' \in LoadCreds(pod.args)
    /\ UNCHANGED <<case, world, pod, checked, out, image, signed, report>>

\* The keychain of a program: the credentials, then the helpers of the node.
Keychain(host) == MultiKeychain(<<{creds}, {case.node}>>, host)

\* VerifyWriteAccess to the first tag.
VerifyWriteAccess ==
    /\ pc = "write"
    /\ \E c \in Keychain(case.tags[1].host) :
         IF c \in case.writers
         THEN /\ pc' = "pull" /\ checked' = Keychain(case.tags[1].host)
              /\ UNCHANGED <<case, world, pod, creds, out, image, signed, report>>
         ELSE Fatal

\* The pull secrets join the credentials after the check for write access.
LoadPullSecrets ==
    /\ pc = "pull"
    /\ pc' = "read"
    /\ creds' \in LoadPullCreds({creds}, pod.pullArgs)
    /\ UNCHANGED <<case, world, pod, checked, out, image, signed, report>>

\* VerifyReadAccess to the run image.
VerifyReadAccess ==
    /\ pc = "read"
    /\ \E c \in Keychain(case.runImage.host) :
         IF c \in case.runImage.readers
         THEN /\ pc' = "fetch"
              /\ UNCHANGED <<case, world, pod, creds, checked, out, image, signed, report>>
         ELSE Fatal

\* The credential that a fetcher uses.
SourceCredential ==
    CASE case.source.type = "git" -> {GitResolve(MountedGitCreds(pod.args), case.source.url)}
      [] case.source.type = "blob" ->
           {IF case.source.auth = "" THEN Anonymous
            ELSE IF Flagged(pod.args, {"blob"}) = <<>> THEN HelperResolve(case.helpers)
            ELSE BlobResolve(pod.args, case.source.url.host)}
      [] OTHER -> MultiKeychain(<<{case.sourcePull}, {creds}, {case.node}>>, case.source.url.host)

\* What is downloaded, in the version the URL, tag or commit stands for now.
Download(version) ==
    LET content == case.source.content[version]
    IN CASE case.source.type = "git" -> content
         [] case.source.type = "blob" -> BlobFetch(Disk, content, case.source.strip)
         [] OTHER -> RegistryFetch(Disk, content)

\* The fetchers of pkg/git, pkg/blob and pkg/registry unpack the source ...
FetchSource ==
    /\ pc = "fetch"
    /\ \E c \in SourceCredential :
         IF c = BlobError \/ Download(world.source) = Failed THEN Fatal
         ELSE /\ pc' = "describe"
              /\ out' = [out EXCEPT !.tree = Download(world.source), !.fetched = world.source]
              /\ UNCHANGED <<case, world, pod, creds, checked, image, signed, report>>

\* The commit, checksum or digest of what was unpacked.
SourceVersion == out.fetched

\* ... and then write project-metadata.toml.
DescribeSource ==
    /\ pc = "describe"
    /\ pc' = "descriptor"
    /\ out' = [out EXCEPT !.meta = SourceVersion]
    /\ UNCHANGED <<case, world, pod, creds, checked, image, signed, report>>

\* SetupPlatformEnvVars after the descriptor: the Build has the last word.
BuildpackEnv(described) == SetupPlatformEnvVars(serializeEnvVars(out.env, described), case.env)

\* ProcessProjectDescriptor and SetupPlatformEnvVars.
PrepareWorkspace ==
    /\ pc = "descriptor"
    /\ LET d == ProcessProjectDescriptor(out.tree, Clean(WorkDir \o case.source.subPath), case.source.descriptor)
       IN IF d.tree = Failed THEN Fatal
          ELSE /\ pc' = "save"
               /\ out' = [out EXCEPT !.tree = d.tree, !.env = BuildpackEnv(d.vars)]
               /\ UNCHANGED <<case, world, pod, creds, checked, image, signed, report>>

\* DockerCreds.Save: build-init ends.
SaveCredentials ==
    /\ pc = "save"
    /\ pc' = "export"
    /\ out' = [out EXCEPT !.saved = creds]
    /\ UNCHANGED <<case, world, pod, creds, checked, image, signed, report>>

---------------------------------------------------------------------------
(***************************************************************************)
(* The lifecycle, or the rebase program.                                   *)
(***************************************************************************)

\* The image this build exports; the world has images 2, 3, ... pushed to its tag.
Built == 1

\* The lifecycle (external): exports to every tag with the credential it finds in
\* the docker config or on the node, labelled with the project metadata.
Export ==
    /\ pc = "export"
    /\ \E c \in MultiKeychain(<<{out.saved}, {case.node}>>, case.tags[1].host) :
         IF c \notin case.writers THEN Fatal
         ELSE /\ pc' = "completion"
              /\ image' = [digest |-> Built, label |-> out.meta, tags |-> case.tags]
              /\ world' = [world EXCEPT !.tag = Built]
              /\ UNCHANGED <<case, pod, creds, checked, out, signed, report>>

\* rebase: the last image on a new run image, with the labels it had.
Rebase ==
    /\ pc = "rebase"
    /\ \E all \in LoadPullCreds(LoadCreds(pod.args), pod.pullArgs) :
       \E c \in MultiKeychain(<<{all}, {case.node}>>, case.tags[1].host) :
         IF c \notin case.writers THEN Fatal
         ELSE /\ pc' = "completion"
              /\ image' = [digest |-> Built, label |-> case.lastLabel, tags |-> case.tags]
              /\ world' = [world EXCEPT !.tag = Built]
              /\ UNCHANGED <<case, pod, creds, checked, out, signed, report>>

---------------------------------------------------------------------------
(***************************************************************************)
(* completion.                                                             *)
(***************************************************************************)

\* hasCosign: signImage signs with cosign first, then with the notary.
hasCosign == pod.cosign # {}

\* The credentials of the service account again, without the pull secrets.
CompletionCredentials ==
    /\ pc = "completion"
    /\ pc' = IF hasCosign THEN "cosign" ELSE "notary"
    /\ creds' \in LoadCreds(pod.args)
    /\ UNCHANGED <<case, world, pod, checked, out, image, signed, report>>

\* The keychain of completion asks the helpers of the node first, other than that of
\* build-init and of rebase: it may read the image, for the notary and for the metadata,
\* with a credential of its own.
CompletionKeychain(host) == MultiKeychain(<<{case.node}, {creds}>>, host)

\* Mutant of sign: COSIGN_REPOSITORY stays set for the next key.
sign_keeps(secret) ==
    LET repository == IF secret.repo # "" THEN secret.repo ELSE signed.repositoryEnv
    IN [signed EXCEPT !.signatures = @ \cup {<<secret.name, image.digest, repository>>},
                      !.repositoryEnv = repository]

\* sign of cosign.ImageSigner: COSIGN_REPOSITORY is set for the key that has a
\* repository of its own, and unset again when the function returns.
sign(secret) ==
    LET repository == IF secret.repo # "" THEN secret.repo ELSE signed.repositoryEnv
    IN [signed EXCEPT !.signatures = @ \cup {<<secret.name, image.digest, repository>>},
                      !.repositoryEnv = ""]

\* Sign of cosign.ImageSigner: a signature per key, in the order of the directory;
\* the first that fails ends the build with the others in the registry.
CosignSign ==
    /\ pc = "cosign"
    /\ LET left == {s \in pod.cosign : ~\E sig \in signed.signatures : sig[1] = s.name}
       IN IF left = {}
          THEN pc' = "notary" /\ signed' = signed
          ELSE pc' = pc /\ signed' = sign(CHOOSE s \in left : \A t \in left : s.name <= t.name)
    /\ UNCHANGED <<case, world, pod, creds, checked, out, image, report>>

\* makeGUNAndTargets: the tags must be of one repository.
OneRepository == \A i \in DOMAIN image.tags : image.tags[i].repo = image.tags[1].repo

\* makeCryptoService: the private key in the secret of the notary.
makeCryptoService == case.notary = "key"

\* getRoles: where there are delegations, those below targets that have the key and
\* a path for the tag.
NotaryRoles(tag) ==
    IF case.delegations = {} THEN {"targets"}
    ELSE {d.name : d \in {e \in case.delegations : e.direct /\ e.mine /\ tag.tag \in e.paths}}

\* PublishTarget: the digest under the name of the tag.
PublishTarget(tag) == [signed EXCEPT !.targets = @ \cup {<<tag, image.digest>>}]

\* Sign of notary.ImageSigner, where the Build has a notary: a publication per tag, of
\* which the first ones stay when a later one fails.
NotarySign ==
    /\ pc = "notary"
    /\ LET done == Cardinality(signed.targets)
       IN IF case.notary = "" \/ done = Len(image.tags)
          THEN /\ pc' = "metadata"
               /\ UNCHANGED <<case, world, pod, creds, checked, out, image, signed, report>>
          ELSE \E c \in CompletionKeychain(image.tags[1].host) :
               IF \/ ~OneRepository \/ c \notin case.readers \/ ~makeCryptoService
                  \/ NotaryRoles(image.tags[done + 1]) = {}
               THEN Fatal
               ELSE /\ signed' = PublishTarget(image.tags[done + 1])
                    /\ UNCHANGED <<case, world, pc, pod, creds, checked, out, image, report>>

\* Mutant of BuiltImageRef: the tag without the digest.
BuiltImageRef_tag == world.tag

\* The reference that completion reports: the first tag at the digest of the report.
BuiltImageRef == image.digest

\* GetBuildMetadata, CompressBuildMetadata: the termination message; completion ends.
WriteMessage ==
    /\ pc = "metadata"
    /\ \E c \in CompletionKeychain(image.tags[1].host) :
         IF c \notin case.readers THEN Fatal
         ELSE /\ pc' = "attest"
              /\ report' = [report EXCEPT !.image = BuiltImageRef]
              /\ UNCHANGED <<case, world, pod, creds, checked, out, image, signed>>

---------------------------------------------------------------------------
(***************************************************************************)
(* The attestation, made by the Build reconciler.                          *)
(***************************************************************************)

\* FilterAndExtractSLSASecrets: the keys with the annotation kpack.io/slsa; a
\* cosign key must have a password here.  A secret may hold a key of each kind.
SLSAKeys(secrets) ==
    LET found == {s \in secrets : s.slsa}
    IN {<<"cosign", s>> : s \in {t \in found : t.key /\ t.password}}
       \cup {<<"pkcs8", s>> : s \in {t \in found : t.pkcs8 # ""}}

\* The secrets of the controller's own service account, then those of the Build's.
AttestationSecrets ==
    Range(case.system) \cup Range(SecretsForServiceAccount(case.secrets, case.cluster))

\* NewCosignSigner: the password must open the key.
NewCosignSigner(s) == s.valid

\* NewPKCS8Signer: a key of another algorithm is an error.
NewPKCS8Signer(s) == s.pkcs8 \in {"rsa", "ecdsa", "ed25519"}

\* A key that is not one keeps the Build from being attested, and its reconcile is
\* tried for ever.
SignersReady ==
    \A k \in SLSAKeys(AttestationSecrets) :
        IF k[1] = "cosign" THEN NewCosignSigner(k[2]) ELSE NewPKCS8Signer(k[2])

\* Read and extractSourceFromLabel: the source that the label of the image names; the
\* images others pushed have none.
extractSourceFromLabel(digest) == IF digest = Built THEN image.label ELSE 0

\* AttestBuild: the statement about the image that completion reported.
Statement ==
    [subject |-> report.image, source |-> extractSourceFromLabel(report.image),
     buildId |-> IF SLSAKeys(AttestationSecrets) = {} THEN "unsigned" ELSE "signed"]

\* Sign: one envelope with the signatures of all keys.
Envelope == [statement |-> Statement,
             keys |-> {<<k[1], k[2].name>> : k \in SLSAKeys(AttestationSecrets)}]

\* attestBuild and Write: the envelope takes the place of any other for the image.
\* Where a call fails the reconciler tries again.
AttestBuild ==
    /\ pc = "attest"
    /\ SignersReady
    /\ pc' = "done"
    /\ report' = [report EXCEPT !.attested = Envelope]
    /\ UNCHANGED <<case, world, pod, creds, checked, out, image, signed>>

---------------------------------------------------------------------------
(***************************************************************************)
(* The world, and faults.                                                  *)
(***************************************************************************)

Running == {"credentials", "write", "pull", "read", "fetch", "describe", "descriptor", "save", "export",
            "rebase", "completion", "cosign", "notary", "metadata"}

\* The source changes behind its URL or tag; a commit does not.
MoveSource ==
    /\ pc \in Running \cup {"attest"} /\ world.moves < MaxMoves
    /\ case.source.type # "git" /\ world.source < Len(case.source.content)
    /\ world' = [world EXCEPT !.source = @ + 1, !.moves = @ + 1]
    /\ UNCHANGED <<case, pc, pod, creds, checked, out, image, signed, report>>

\* Someone else pushes another image to the first tag.
PushTag ==
    /\ pc \in Running \cup {"attest"} /\ world.moves < MaxMoves
    /\ world' = [world EXCEPT !.tag = @ + 1, !.moves = @ + 1]
    /\ UNCHANGED <<case, pc, pod, creds, checked, out, image, signed, report>>

\* A call to a registry, a server or the disk fails.
CallFails == pc \in Running /\ Fatal

Init ==
    /\ case \in Cases
    /\ world = [source |-> 1, tag |-> 0, moves |-> 0]
    /\ pc = "generate"
    /\ pod = [args |-> <<>>, pullArgs |-> <<>>, cosign |-> {}, bindings |-> {}]
    /\ creds = NoCreds
    /\ checked = {}
    /\ out = [tree |-> Disk, fetched |-> 0, meta |-> 0, env |-> [n \in {} |-> ""], saved |-> NoCreds]
    /\ image = [digest |-> 0, label |-> 0, tags |-> <<>>]
    /\ signed = [signatures |-> {}, targets |-> {}, repositoryEnv |-> ""]
    /\ report = [image |-> 0, attested |-> <<>>]

Next ==
    \/ Generate \/ LoadCredentials \/ VerifyWriteAccess \/ LoadPullSecrets
    \/ VerifyReadAccess \/ FetchSource \/ DescribeSource \/ PrepareWorkspace \/ SaveCredentials
    \/ Export \/ Rebase \/ CompletionCredentials \/ CosignSign \/ NotarySign
    \/ WriteMessage \/ AttestBuild \/ MoveSource \/ PushTag \/ CallFails

Spec == Init /\ [][Next]_vars

---------------------------------------------------------------------------
(***************************************************************************)
(* Properties.                                                             *)
(***************************************************************************)

Reported == pc \in {"attest", "done"}

\* The attestation names the source that the buildpacks were given, whatever the
\* URL or the tag stands for by then: a checksum, digest or commit taken when the
\* source was unpacked is what reaches the label and the provenance.
SourceIsRecorded == pc = "done" /\ ~case.rebase => report.attested.statement.source = out.fetched

\* The image that the build reports, and that is attested, is the one it exported,
\* also when someone else has pushed to its tag since.
ReportedImageIsTheBuilt ==
    /\ Reported => report.image = image.digest
    /\ pc = "done" => report.attested.statement.subject = image.digest

\* What a Build reports and attests is true: the source that was built, the image
\* that was exported.
ReportIsTrue == SourceIsRecorded /\ ReportedImageIsTheBuilt

\* The exporter authenticates to the registry of the image as the check for write
\* access did: credentials that join later (pull secrets) do not take the place of
\* those of the service account.  Where the account has none for the registry, the check
\* was of what the node has, and a pull secret for the registry takes its place unchecked.
CheckedCredentialIsUsed ==
    pc = "export" =>
        LET host == case.tags[1].host
            used == MultiKeychain(<<{out.saved}, {case.node}>>, host)
            pull == {a \in Range(pod.pullArgs) : \E k \in a[2].keys : Match(k, host)}
        IN \/ used = checked
           \/ /\ \A c \in LoadCreds(pod.args) : Resolve(c, host) = {Anonymous}
              /\ checked = Resolve(case.node, host)
              /\ used \subseteq {a[2].name : a \in pull}

\* A build is reported only when every cosign key has signed the image in the
\* repository its secret names, else beside the image, and notary has every tag.
SignedByEveryKey ==
    Reported =>
        /\ \A s \in pod.cosign : <<s.name, image.digest, s.repo>> \in signed.signatures
        /\ case.notary # "" => signed.targets = {<<t, image.digest>> : t \in Range(image.tags)}

\* What was unpacked, entry by entry, and where to.
Written ==
    LET content == case.source.content[out.fetched]
        file == getSourceFile(FetchOneLayer(Disk, content))
        layer == TarEntries(content.layers[1], TempDir, 0)
    IN CASE case.source.type = "blob" /\ content.format = "zip" ->
              ZipEntries(content.entries, WorkDir, case.source.strip)
         [] case.source.type = "blob" /\ content.format # "zip" ->
              TarEntries(content.entries, WorkDir, case.source.strip)
         [] case.source.type # "blob" /\ content.label \in {"zip", "jar", "war"} ->
              layer \o ZipEntries(file.entries, WorkDir, 0)
         [] case.source.type # "blob" /\ content.label \in {"tar", "tar.gz"} ->
              layer \o TarEntries(file.entries, WorkDir, 0)
         [] OTHER -> FlattenSeq([i \in DOMAIN content.layers |-> TarEntries(content.layers[i], WorkDir, 0)])

Inside(path) == Len(path) > 1 /\ path[1] = "workspace"

\* The workspace is what the archive or the layers list for it: every directory on a way,
\* and for each file what the last entry that resolves to its path holds, in every format.
\* A link is left out, but for a zip file, of which it becomes a file.  Entries whose ".."
\* leads out of the workspace are unpacked there, and are none of its contents.
WorkspaceIsTheArchive ==
    pc = "describe" /\ case.source.type # "git" =>
        LET W == Written
            listed == {i \in DOMAIN W : W[i].kind \in {"dir", "file"}}
            ways == UNION {{SubSeq(W[i].path, 1, n) : n \in 1 .. Len(W[i].path)} : i \in listed}
        IN /\ {q \in DOMAIN out.tree : Inside(q)} = {q \in ways : Inside(q)}
           /\ \A i \in listed :
                /\ W[i].kind = "file" /\ Inside(W[i].path)
                /\ \A j \in listed : W[j].path = W[i].path => j <= i
                => out.tree[W[i].path].data = W[i].data

\* A variable of the Build has the value the Build gives it, whatever the project
\* descriptor in the source says.
BuildEnvWins ==
    pc = "save" => \A i \in DOMAIN case.env :
        (\A j \in DOMAIN case.env : case.env[j][1] = case.env[i][1] => j <= i)
            => out.env[case.env[i][1]] = case.env[i][2]

\* Buildpacks are given the source as it was listed and the environment of the Build.
BuildpacksGetTheirInputs == WorkspaceIsTheArchive /\ BuildEnvWins

\* The commit a Git source was resolved to is fetched with the secret it was resolved
\* with, unless a secret is for Git and for a registry at once.
GitCredentialsAgree ==
    pc = "credentials" /\ (\A n \in Range(case.secrets) : SecretNamed(n).git = "" \/ SecretNamed(n).docker = {})
        => GitResolve(K8sGitCreds(SecretsForServiceAccount(case.secrets, case.cluster)), case.source.url)
             = GitResolve(MountedGitCreds(pod.args), case.source.url)

\* Where one secret of the service account names a registry, and in a form that is known,
\* the controller and the pod both find it, whatever the controller mounts, the pull secrets
\* hold and the node's helpers know.
RegistryCredentialsAgree ==
    LET list == SecretsForServiceAccount(case.secrets, case.cluster)
        pull == SecretsForServiceAccount(case.pullSecrets, case.cluster)
        host == case.tags[1].host
        naming == {n \in Range(case.secrets) :
                     \E k \in SecretNamed(n).keys \cup SecretNamed(n).docker : k.host = host}
    IN /\ pc = "write" /\ Cardinality(naming) = 1
       /\ \E n \in naming : \E k \in DOMAIN SecretCreds(SecretNamed(n)) : Match(k, host)
       => MultiKeychain(KeychainForSecretRef(list, case.volume, pull, case.node), host) = Keychain(host)

\* The places that read the secrets of a Build agree on who it is: the controller that
\* resolves, the check for write access, the fetch and the export.  Completion, which asks
\* the node first, is not among them.
CredentialsAgree == CheckedCredentialIsUsed /\ GitCredentialsAgree /\ RegistryCredentialsAgree
=============================================================================
