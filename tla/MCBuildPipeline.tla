--------------------------- MODULE MCBuildPipeline ---------------------------
(***************************************************************************)
(* Builds for TLC: families of cases that vary the secrets of the service  *)
(* account, the source, the signatures and the bindings.                   *)
(***************************************************************************)
EXTENDS BuildPipeline

---------------------------------------------------------------------------
(* Secrets. *)

Plain(name, type) ==
    [name |-> name, type |-> type, docker |-> {}, git |-> "", blob |-> "", keys |-> {}, auths |-> {},
     key |-> FALSE, password |-> FALSE, repo |-> "", slsa |-> FALSE, pkcs8 |-> "", valid |-> TRUE]

Cluster ==
    <<[Plain(1, "basic-auth") EXCEPT !.docker = {Key("reg", "naked")}],
      [Plain(2, "dockerconfigjson") EXCEPT !.keys = {Key("reg", "v1"), Key("run", "naked")}],
      [Plain(3, "basic-auth") EXCEPT !.git = "github"],
      [Plain(4, "ssh-auth") EXCEPT !.git = "github"],
      [Plain(5, "opaque") EXCEPT !.key = TRUE, !.password = TRUE, !.repo = "signatures"],
      [Plain(6, "opaque") EXCEPT !.key = TRUE, !.slsa = TRUE],
      [Plain(7, "basic-auth") EXCEPT !.git = "github", !.docker = {Key("reg", "v1")}],
      [Plain(8, "opaque") EXCEPT !.blob = "files", !.auths = {"basic"}],
      [Plain(9, "dockercfg") EXCEPT !.keys = {Key("reg", "naked")}],
      [Plain(10, "opaque") EXCEPT !.pkcs8 = "rsa", !.slsa = TRUE]>>

\* Keys of the controller's service account.
SystemKeys ==
    {<<>>, <<[Plain(12, "opaque") EXCEPT !.pkcs8 = "dsa", !.slsa = TRUE]>>,
     <<[Plain(12, "opaque") EXCEPT !.key = TRUE, !.password = TRUE, !.slsa = TRUE]>>}

---------------------------------------------------------------------------
(* Sources. *)

Text(n) == [format |-> "text", text |-> n]
Entry(path, kind, data) == [path |-> path, kind |-> kind, data |-> data, mode |-> "-", fat |-> FALSE]
Descriptor(schema, include, exclude, buildEnv, envBuild) ==
    [format |-> "text", schema |-> schema, include |-> include, exclude |-> exclude,
     buildEnv |-> buildEnv, envBuild |-> envBuild]

Archives ==
    {<<Entry(<<"app", "">>, "dir", <<>>), Entry(<<"app", "a">>, "file", Text(1)),
       Entry(<<"app", "lib", "b">>, "file", Text(2)), Entry(<<"app", "l">>, "link", Text(3))>>,
     <<Entry(<<".", "lib", "b">>, "file", Text(2)), Entry(<<"lib", "b">>, "file", Text(4)),
       Entry(<<"a">>, "file", Text(1))>>,
     <<Entry(<<"a">>, "file", Text(1)), Entry(<<"a", "b">>, "file", Text(2))>>,
     <<Entry(<<"app", "..", "b">>, "file", Text(1)), Entry(<<"..", "x">>, "file", Text(2)),
       Entry(<<"..", "workspace", "app", "c">>, "file", Text(3)), Entry(<<"", "b">>, "file", Text(4))>>,
     <<Entry(<<"..", "..", "..", "workspace", "b">>, "file", Text(1)), Entry(<<"b", ".">>, "file", Text(2)),
       Entry(<<".", "">>, "dir", <<>>)>>,
     <<Entry(<<"lib", "..">>, "dir", <<>>), Entry(<<"lib", "..", ".">>, "file", Text(1))>>}

Descriptors ==
    {Descriptor("0.2", Nil, {{<<"lib">>}}, {<<<<"X", "b">>, <<"X", "c">>>>}, {<<<<"Y", "d">>>>}),
     Descriptor("0.2", {{<<"lib">>}}, Nil, Nil, {<<<<"X", "d">>, <<"Y", "d">>>>}),
     Descriptor("", {{}}, {{}}, Nil, Nil), Descriptor("", Nil, Nil, {<<<<"Y", "e">>>>}, Nil),
     Descriptor("9", {{<<"lib">>}}, Nil, {<<<<"X", "b">>>>}, Nil)}

GitTree(descriptor) ==
    [p \in {WorkDir} \cup {WorkDir \o q : q \in {<<"a">>, <<"lib">>, <<"lib", "b">>, <<"project.toml">>}} |->
        CASE p \in {WorkDir, Append(WorkDir, "lib")} -> Node("dir", <<>>, "x")
          [] p = Append(WorkDir, "project.toml") -> Node("file", descriptor, "-")
          [] OTHER -> Node("file", Text(1), "-")]

Source(type, host, content) ==
    [type |-> type, url |-> [scheme |-> "https", host |-> host], auth |-> "", strip |-> 0,
     subPath |-> <<>>, descriptor |-> <<>>, content |-> content]

GitSource == Source("git", "github", <<GitTree(CHOOSE d \in Descriptors : d.schema = "0.2")>>)

\* Two versions of an archive: the second has one more file.
Versions(format, entries) ==
    <<[format |-> format, entries |-> entries],
      [format |-> format, entries |-> Append(entries, Entry(<<"new">>, "file", Text(9)))]>>

\* A source image: its layers, or the one file its label speaks of.
SourceImage(label, blob) ==
    [label |-> label,
     layers |-> IF label = "" THEN <<blob.entries, <<Entry(<<"top">>, "file", Text(8))>>>>
                ELSE <<<<Entry(<<"src">>, "file", blob)>>>>]

---------------------------------------------------------------------------
(* Cases. *)

Delegation(name, direct, mine) == [name |-> name, direct |-> direct, mine |-> mine, paths |-> {"latest"}]

Tag(repo, tag) == [host |-> "reg", repo |-> repo, tag |-> tag]

Base ==
    [cluster |-> Cluster, secrets |-> <<1>>, otherSecrets |-> {}, pullSecrets |-> <<>>,
     builderPullSecrets |-> <<>>, services |-> {}, cnbBindings |-> {}, rebase |-> FALSE,
     source |-> GitSource, env |-> <<>>, node |-> NoCreds, helpers |-> <<>>, sourcePull |-> NoCreds,
     tags |-> <<Tag("app", "latest")>>, writers |-> {1, 2, 7, 9, 20}, readers |-> {1, 2, 7, 9}, lastLabel |-> 1,
     runImage |-> [host |-> "run", readers |-> {Anonymous, 2}], notary |-> "", delegations |-> {},
     system |-> <<>>, volume |-> NoCreds,
     builder |-> [kind |-> "Builder", found |-> TRUE, has |-> {"stack", "metadata", "uid", "gid"}, os |-> "linux"]]

SecretLists == {<<>>} \cup {<<n>> : n \in 1 .. 9} \cup {<<n, k>> : n \in 1 .. 9, k \in {1, 2, 3, 4, 7, 9, 11}}

\* What the node's helpers and the controller itself may know.
NodeCreds == {NoCreds, [k \in {Key("reg", "naked")} |-> 20]}

SecretCases ==
    {[Base EXCEPT !.secrets = list, !.pullSecrets = pull, !.builderPullSecrets = builder,
                  !.node = node, !.source.url.scheme = scheme] :
        list \in SecretLists, pull \in {<<>>, <<2>>}, builder \in {<<>>, <<1>>, <<9>>},
        node \in NodeCreds, scheme \in {"https", "ssh"}}

VolumeCases ==
    {[Base EXCEPT !.secrets = list, !.node = node, !.volume = [k \in {Key("reg", "naked")} |-> 21]] :
        list \in SecretLists, node \in NodeCreds}

SourceCases ==
    {[Base EXCEPT !.source = [Source("blob", "files", Versions(format, entries)) EXCEPT
                                  !.strip = strip, !.auth = auth],
                  !.secrets = <<1, 8>>, !.helpers = helpers] :
        format \in {"zip", "tar", "tar.gz", "text"}, entries \in Archives, strip \in {0, 1},
        auth \in {"", "helper", "secret"}, helpers \in {<<>>, <<BlobError, 30>>}}
    \cup
    {[Base EXCEPT !.source = Source("registry", "reg", [v \in 1 .. 2 |->
                                  SourceImage(label, Versions(format, entries)[v])])] :
        label \in {"", "jar", "tar", "tar.gz"}, format \in {"zip", "tar", "tar.gz"}, entries \in Archives}
    \cup
    {[Base EXCEPT !.source = [Source("git", "github", <<GitTree(d)>>) EXCEPT
                                  !.subPath = subPath, !.descriptor = path],
                  !.env = env] :
        d \in Descriptors, subPath \in {<<>>, <<"lib">>}, path \in {<<>>, <<"project.toml">>},
        env \in {<<>>, <<<<"X", "1">>, <<"Z", "2">>>>, <<<<"Y", "1">>, <<"Y", "2">>>>}}

SigningCases ==
    {[Base EXCEPT !.secrets = list, !.rebase = rebase, !.notary = notary, !.tags = tags,
                  !.delegations = delegations, !.system = system, !.builderPullSecrets = <<9>>] :
        list \in {<<1>>, <<1, 5, 6>>, <<6, 5, 1>>, <<1, 10, 6>>}, rebase \in BOOLEAN, notary \in {"", "empty", "key"},
        system \in SystemKeys,
        tags \in {<<Tag("app", "latest")>>, <<Tag("app", "latest"), Tag("app", "b1")>>,
                  <<Tag("app", "latest"), Tag("copy", "latest")>>},
        delegations \in {{}, {Delegation("targets/kpack", TRUE, TRUE), Delegation("targets/a/b", FALSE, TRUE)},
                         {Delegation("targets/other", TRUE, FALSE)}}}

BindingCases ==
    {[Base EXCEPT !.secrets = <<1, 5>>, !.otherSecrets = {6}, !.services = services,
                  !.cnbBindings = bindings, !.pullSecrets = <<2>>] :
        services \in SUBSET {1, 2, 6}, bindings \in SUBSET {2, 5, 8}}

GeneratorCases ==
    {[Base EXCEPT !.builder = builder] :
        builder \in {[Base.builder EXCEPT !.kind = "Stack"], [Base.builder EXCEPT !.found = FALSE],
                     [Base.builder EXCEPT !.has = @ \ {"uid"}], [Base.builder EXCEPT !.os = "windows"]}}
    \cup {[Base EXCEPT !.pullSecrets = <<2, NoName>>], [Base EXCEPT !.secrets = <<1, NoName>>]}

MCCases == SecretCases \cup VolumeCases \cup SourceCases \cup SigningCases \cup BindingCases \cup GeneratorCases
=============================================================================
