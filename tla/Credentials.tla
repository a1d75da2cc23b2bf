---------------------------- MODULE Credentials ----------------------------
(***************************************************************************)
(* Credentials.  kpack reads the secrets of a service account twice: its   *)
(* controllers read them from the API server and make a keychain of them   *)
(* (pkg/dockercreds/k8sdockercreds, pkg/git); the programs in a build pod  *)
(* read them from the files they are mounted as, by the flags the pod      *)
(* gives them (pkg/dockercreds, pkg/git, pkg/blob).                        *)
(*                                                                         *)
(* A secret has a name (a number: secrets are ordered by name), a type,    *)
(* the annotations that say what it is for and, by its type, the registry  *)
(* keys its docker config names or the kinds of blob authorization it      *)
(* holds.  A credential is known by the secret it came from.               *)
(***************************************************************************)
EXTENDS FiniteSets, Lists

\* authn.Anonymous, and a Git repository read without authentication.
Anonymous == 0

---------------------------------------------------------------------------
(***************************************************************************)
(* Registries.                                                             *)
(***************************************************************************)

\* A key of a docker config: the host it names and its form, one of naked (or
\* with a scheme), v1 (a scheme and an API version) and path (any other path).
Key(host, form) == [host |-> host, form |-> form]

\* RegistryMatcher.Match: the registry in any of the known forms.  Docker Hub goes
\* by the one key docker itself writes.
Match(key, host) ==
    /\ key.host = host
    /\ key.form \in IF host = "hub" THEN {"v1"} ELSE {"naked", "v1"}

NoCreds == [k \in {} |-> Anonymous]

With(creds, key, cred) ==
    [k \in DOMAIN creds \cup {key} |-> IF k = key THEN cred ELSE creds[k]]

\* DockerCreds.Resolve: a map is ranged over in any order, so every entry that
\* matches may be the one.
Resolve(creds, host) ==
    LET matching == {k \in DOMAIN creds : Match(k, host)}
    IN IF matching = {} THEN {Anonymous} ELSE {creds[k] : k \in matching}

\* DockerCreds.contains: is the host of the key in the map already?
contains(creds, key) == \E k \in DOMAIN creds : Match(k, key.host)

\* Mutant of Append: what comes later wins.
Append_replaces(creds, more) ==
    {[k \in DOMAIN creds \cup DOMAIN more |->
        IF k \in DOMAIN more THEN more[k] ELSE creds[k]]}

\* DockerCreds.Append: adds the keys whose host is not there yet, in any order.
AppendKeys(creds, more, order) ==
    FoldLeft(LAMBDA c, k : IF contains(c, k) THEN c ELSE With(c, k, more[k]), creds, order)

Append_(creds, more) == {AppendKeys(creds, more, order) : order \in SetToSeqs(DOMAIN more)}

\* Append to each of several possible maps, and append a list of maps in turn.
AppendAll(possible, more) == UNION {Append_(c, more) : c \in possible}

AppendEach(possible, list) == FoldLeft(AppendAll, possible, list)

\* The entries of a secret of type dockercfg or dockerconfigjson.
DockerConfig(secret) == [k \in secret.keys |-> secret.name]

IsDockerConfig(secret) == secret.type \in {"dockercfg", "dockerconfigjson"}

---------------------------------------------------------------------------
(***************************************************************************)
(* In the controller.                                                      *)
(***************************************************************************)

\* Fetcher.SecretsForServiceAccount: secrets that do not exist are passed over.
SecretsForServiceAccount(names, secrets) ==
    LET found == Pick(names, {i \in DOMAIN names : names[i] \in DOMAIN secrets})
    IN [i \in DOMAIN found |-> secrets[found[i]]]

\* What a secret adds to the keychain: nothing, where it is not for registries.
SecretCreds(s) ==
    IF s.type = "basic-auth" THEN [k \in s.docker |-> s.name]
    ELSE IF IsDockerConfig(s) THEN DockerConfig(s) ELSE NoCreds

\* keychainFromServiceAccount: the secrets in the order of the service account,
\* the first for a registry wins.
keychainFromServiceAccount(list) ==
    AppendEach({NoCreds}, [i \in DOMAIN list |-> SecretCreds(list[i])])

\* KeychainForSecretRef: the secrets of the service account, then what the
\* controller itself mounts, then the pull secrets and the cloud's helpers.
KeychainForSecretRef(list, volume, pullSecrets, helpers) ==
    <<keychainFromServiceAccount(list), {volume},
      AppendEach({NoCreds}, [i \in DOMAIN pullSecrets |->
          IF IsDockerConfig(pullSecrets[i]) THEN DockerConfig(pullSecrets[i]) ELSE NoCreds]),
      {helpers}>>

\* authn.NewMultiKeychain (external): the first keychain that knows the registry.
MultiKeychain(keychains, host) ==
    LET knows(i) == \E c \in keychains[i] : Resolve(c, host) # {Anonymous}
        first == {i \in DOMAIN keychains : knows(i) /\ \A j \in 1 .. i - 1 : ~knows(j)}
    IN IF first = {} THEN {Anonymous}
       ELSE UNION {Resolve(c, host) : c \in keychains[CHOOSE i \in first : TRUE]}

---------------------------------------------------------------------------
(***************************************************************************)
(* In the build pod.  Flags are <<flag, secret>> in the order the pod has  *)
(* them; the value of a flag is the annotation of its secret.              *)
(***************************************************************************)

Flagged(args, flags) == Pick(args, {i \in DOMAIN args : args[i][1] \in flags})

\* ParseBasicAuthSecrets: an assignment per flag, the last for a key wins.
ParseBasicAuthSecrets(args) ==
    FoldLeft(LAMBDA c, a : [k \in DOMAIN c \cup a[2].docker |->
                              IF k \in a[2].docker THEN a[2].name ELSE c[k]],
             NoCreds, args)

\* ParseDockerConfigSecret for each of the mounted secrets, appended in order.
ParseDockerConfigSecrets(possible, args) ==
    AppendEach(possible, [i \in DOMAIN args |-> DockerConfig(args[i][2])])

\* The credentials build-init, completion and rebase load from their flags: basic
\* ones, dockercfg before dockerconfig.
LoadCreds(args) ==
    ParseDockerConfigSecrets({ParseBasicAuthSecrets(Flagged(args, {"basic-docker"}))},
        Flagged(args, {"dockercfg"}) \o Flagged(args, {"dockerconfig"}))

\* ... and the pull secrets on top of them.
LoadPullCreds(possible, args) ==
    ParseDockerConfigSecrets(possible, Flagged(args, {"imagepull"}))

---------------------------------------------------------------------------
(***************************************************************************)
(* Git and blobs.                                                          *)
(***************************************************************************)

\* match of gitSshAuthCred and gitBasicAuthCred: the kind goes with the scheme of
\* the URL, and the domain is its host.
GitMatch(c, url) ==
    /\ c.domain = url.host
    /\ c.kind = IF url.scheme = "ssh" THEN "ssh" ELSE "basic"

\* secretGitKeychain.Resolve: the first secret by name that matches.
GitResolve(creds, url) ==
    LET match == {c \in creds : GitMatch(c, url)}
    IN IF match = {} THEN Anonymous
       ELSE (CHOOSE c \in match : \A d \in match : c.name <= d.name).name

\* k8sGitKeychain.Resolve: basic-auth and ssh secrets of the service account, with
\* an annotation or not.
K8sGitCreds(list) ==
    {[name |-> s.name, domain |-> s.git,
      kind |-> IF s.type = "basic-auth" THEN "basic" ELSE "ssh"] :
        s \in {list[i] : i \in {j \in DOMAIN list :
                                  list[j].type \in {"basic-auth", "ssh-auth"}}}}

\* NewMountedSecretGitKeychain: the secrets of the basic-git and ssh-git flags.
MountedGitCreds(args) ==
    {[name |-> a[2].name, domain |-> a[2].git,
      kind |-> IF a[1] = "basic-git" THEN "basic" ELSE "ssh"] :
        a \in Range(Flagged(args, {"basic-git", "ssh-git"}))}

\* fileCreds.Resolve: the first blob secret of the host, which must hold exactly
\* one authorization; an error where there is none.
BlobError == -1

BlobResolve(args, host) ==
    LET flags == Flagged(args, {"blob"})
        mine == Pick(flags, {i \in DOMAIN flags : flags[i][2].blob = host})
    IN IF mine = <<>> \/ Cardinality(mine[1][2].auths) # 1 THEN BlobError
       ELSE mine[1][2].name

\* multiKeychain.Resolve: the first cloud helper with a token, else an error.
HelperResolve(tokens) ==
    IF \E i \in DOMAIN tokens : tokens[i] # BlobError
    THEN tokens[CHOOSE i \in DOMAIN tokens : /\ tokens[i] # BlobError
                                             /\ \A j \in 1 .. i - 1 : tokens[j] = BlobError]
    ELSE BlobError
=============================================================================
