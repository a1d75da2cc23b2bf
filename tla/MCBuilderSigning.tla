-------------------------- MODULE MCBuilderSigning --------------------------
(***************************************************************************)
(* A Builder and a ClusterBuilder, each signed with one key: the first key *)
(* is annotated with a repository, the second is not.                      *)
(***************************************************************************)
EXTENDS BuilderSigning

MCKeys == [w \in Workers |-> IF w = "builder" THEN <<"k1">> ELSE <<"k2">>]

MCAnnotation == [k \in {"k1", "k2"} |-> IF k = "k1" THEN "elsewhere" ELSE Own]
=============================================================================
