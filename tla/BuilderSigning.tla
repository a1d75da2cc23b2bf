--------------------------- MODULE BuilderSigning ---------------------------
(***************************************************************************)
(* Signing of builder images with cosign (ImageSigner.SignBuilder).  The   *)
(* repository a key's signatures go to is handed to cosign in the process  *)
(* environment, COSIGN_REPOSITORY.  The Builder and the ClusterBuilder     *)
(* controllers are one process with several workers each, so signers run   *)
(* side by side; COSIGN_DOCKER_MEDIA_TYPES is set and unset at the same    *)
(* places and is left out.                                                 *)
(***************************************************************************)
EXTENDS Naturals, Sequences

CONSTANTS
    Workers,      \* workers that sign a builder image
    Keys,         \* Keys[w]: the signing secrets of w's service account, in order
    Annotation,   \* Annotation[k]: kpack.io/cosign.repository of secret k, or Own
    Own,          \* no annotation: the repository of the builder image itself
    MaxErrors     \* bound on failed signings

VARIABLES
    env,          \* COSIGN_REPOSITORY of the controller's process, Own when unset
    pc,           \* pc[w]: the next step of w's SignBuilder
    key,          \* key[w]: index of the secret w is at
    pushed,       \* signatures pushed: worker, secret and repository
    paths,        \* paths[w]: the signaturePaths w collected
    errors        \* failed signings so far

vars == <<env, pc, key, pushed, paths, errors>>

Secret(w) == Keys[w][key[w]]

\* An annotation sets the variable; without one it stays as it is.
SetEnv(w) ==
    /\ pc[w] = "loop" /\ key[w] <= Len(Keys[w])
    /\ env' = IF Annotation[Secret(w)] # Own THEN Annotation[Secret(w)] ELSE env
    /\ pc' = [pc EXCEPT ![w] = "sign"]
    /\ UNCHANGED <<key, pushed, paths, errors>>

\* signFunc: cosign pushes the signature to the repository the environment names.
Sign(w) ==
    /\ pc[w] = "sign"
    /\ pushed' = pushed \cup {<<w, Secret(w), env>>}
    /\ pc' = [pc EXCEPT ![w] = "fetch"]
    /\ UNCHANGED <<env, key, paths, errors>>

\* An error return of SignBuilder: nothing is unset, and a later
\* reconcile signs again.
SignFails(w) ==
    /\ pc[w] \in {"sign", "fetch"}
    /\ errors < MaxErrors
    /\ errors' = errors + 1
    /\ pc' = [pc EXCEPT ![w] = "loop"]
    /\ key' = [key EXCEPT ![w] = 1]
    /\ paths' = [paths EXCEPT ![w] = <<>>]
    /\ UNCHANGED <<env, pushed>>

\* fetchSignatureFunc and remote.Image: the tag is made with the repository of the
\* environment as it is now, and must hold a signature of the image.
FetchSignature(w) ==
    /\ pc[w] = "fetch"
    /\ \E s \in pushed : s[1] = w /\ s[3] = env
    /\ paths' = [paths EXCEPT ![w] = Append(@, <<Secret(w), env>>)]
    /\ pc' = [pc EXCEPT ![w] = "unset"]
    /\ UNCHANGED <<env, key, pushed, errors>>

\* LookupEnv, Unsetenv, and on to the next secret.
UnsetEnv(w) ==
    /\ pc[w] = "unset"
    /\ env' = Own
    /\ key' = [key EXCEPT ![w] = @ + 1]
    /\ pc' = [pc EXCEPT ![w] = "loop"]
    /\ UNCHANGED <<pushed, paths, errors>>

Init ==
    /\ env = Own
    /\ pc = [w \in Workers |-> "loop"] /\ key = [w \in Workers |-> 1]
    /\ pushed = {} /\ paths = [w \in Workers |-> <<>>] /\ errors = 0

Next == \E w \in Workers :
          SetEnv(w) \/ Sign(w) \/ SignFails(w) \/ FetchSignature(w) \/ UnsetEnv(w)

Spec == Init /\ [][Next]_vars

\* docs/image.md, "Push Cosign Signature to a Different Location": the annotation of
\* a secret says where its signatures are pushed.  Every signature is pushed to the
\* repository of its own secret.
SignaturesGoToTheirRepository == \A s \in pushed : s[3] = Annotation[s[2]]

=============================================================================
