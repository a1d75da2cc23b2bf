----------------------------- MODULE SourceFetch -----------------------------
(***************************************************************************)
(* What build-init makes of a source: the archive of a blob, the layers of *)
(* a source image, the project descriptor in it and the environment of the *)
(* buildpacks (pkg/blob, pkg/registry, pkg/archive, pkg/cnb).              *)
(*                                                                         *)
(* A path is the sequence of its components, a tree maps the absolute      *)
(* paths of a disk to what is there, and an operator that fails returns    *)
(* Failed.                                                                 *)
(* An archive has a format and a sequence of entries; an entry is a dir, a *)
(* file or a link, with a mode and, in a zip file, the system it was made  *)
(* on.                                                                     *)
(***************************************************************************)
EXTENDS FiniteSets, Lists

Node(kind, data, mode) == [kind |-> kind, data |-> data, mode |-> mode]

\* appDir, which the pod mounts, and a directory that os.MkdirTemp makes.
WorkDir == <<"workspace">>
TempDir == <<"tmp", "source">>

\* The directories there are before a source is fetched.
Disk == [p \in {WorkDir, <<"tmp">>} |-> Node("dir", <<>>, "x")]
Failed == [p \in {<<>>} |-> Node("error", <<>>, "x")]

\* os.MkdirAll: every directory on the way; an error where a file is in the way.
MkdirAll(tree, path, mode) ==
    LET missing == {q \in {SubSeq(path, 1, n) : n \in 1 .. Len(path)} :
                      q \notin DOMAIN tree}
    IN IF \E n \in 1 .. Len(path) : /\ SubSeq(path, 1, n) \in DOMAIN tree
                                    /\ tree[SubSeq(path, 1, n)].kind # "dir"
       THEN Failed
       ELSE [q \in DOMAIN tree \cup missing |->
               IF q \in DOMAIN tree THEN tree[q] ELSE Node("dir", <<>>, mode)]

\* os.OpenFile with O_CREATE and O_TRUNC: the mode is that of whoever made it.
WriteFile(tree, path, data, mode) ==
    IF tree = Failed \/ (path \in DOMAIN tree /\ tree[path].kind = "dir")
    THEN Failed
    ELSE [q \in DOMAIN tree \cup {path} |->
            IF q # path THEN tree[q]
            ELSE Node("file", data, IF q \in DOMAIN tree THEN tree[q].mode ELSE mode)]

\* os.RemoveAll: the directory with all that is in it.
RemoveAll(tree, dir) ==
    IF tree = Failed THEN tree ELSE [p \in {q \in DOMAIN tree : ~IsPrefix(dir, q)} |-> tree[p]]

\* filepath.Clean of an absolute path: "." and "" go, and ".." goes with the name before it,
\* if there is one.  A name stays unless some ".." after it has no later name to take.
Clean(path) ==
    LET names(i, j) == {k \in i .. j : path[k] \notin {"", ".", ".."}}
        ups(i, j) == {k \in i .. j : path[k] = ".."}
    IN Pick(path, {i \in names(1, Len(path)) : \A j \in i + 1 .. Len(path) :
                     Cardinality(ups(i + 1, j)) <= Cardinality(names(i + 1, j))})

\* stripPath: the components are those of the text, so the "." of "./app" and what
\* follows the slash of "app/" count; they are cleaned where they are placed.
stripPath(path, n) == SubSeq(path, n + 1, Len(path))

\* Where an entry goes: filepath.Join of the directory and what is left of its name, which
\* with enough ".." is not in the directory.  One of whose name nothing is left is passed over.
Placed(e, dir, strip) ==
    LET rest == stripPath(e.path, strip)
    IN [e EXCEPT !.path = Clean(dir \o rest),
                 !.kind = IF \A i \in DOMAIN rest : rest[i] = "" THEN "none" ELSE @]

\* Mutant of Unpack: passes over a file that is there already.
Unpack_first(tree, e) ==
    IF tree = Failed \/ e.path \in DOMAIN tree THEN tree
    ELSE CASE e.kind = "dir" -> MkdirAll(tree, e.path, e.mode)
           [] e.kind = "file" ->
                IF e.path = <<>> THEN Failed
                ELSE WriteFile(MkdirAll(tree, Front(e.path), "x"), e.path, e.data, e.mode)
           [] OTHER -> tree

\* An entry is put into the tree: a directory, or a file and the directories above
\* it; any other kind is passed over.
Unpack(tree, e) ==
    IF tree = Failed THEN tree
    ELSE CASE e.kind = "dir" -> MkdirAll(tree, e.path, e.mode)
           [] e.kind = "file" ->
                IF e.path = <<>> THEN Failed
                ELSE WriteFile(MkdirAll(tree, Front(e.path), "x"), e.path, e.data, e.mode)
           [] OTHER -> tree

\* The entries of an archive one after the other, until one fails.
UnpackEach(tree, entries) == FoldLeft(Unpack, tree, entries)

\* ExtractTar: directories and regular files; every other kind is passed over.
TarEntries(entries, dir, strip) == [i \in DOMAIN entries |-> Placed(entries[i], dir, strip)]

ExtractTar(tree, dir, entries, strip) == UnpackEach(tree, TarEntries(entries, dir, strip))

\* ExtractZip: what is not a directory is written as a file, a link as its target;
\* the modes of FAT files mean nothing and become 0777.
ZipEntries(entries, dir, strip) ==
    [i \in DOMAIN entries |->
        [Placed(entries[i], dir, strip) EXCEPT !.kind = IF @ = "link" THEN "file" ELSE @,
                                               !.mode = IF entries[i].fat THEN "x" ELSE @]]

ExtractZip(tree, dir, entries, strip) == UnpackEach(tree, ZipEntries(entries, dir, strip))

---------------------------------------------------------------------------
(***************************************************************************)
(* Fetchers.                                                               *)
(***************************************************************************)

\* Fetch of pkg/blob: the bytes say what the archive is (classifyFile, IsTar);
\* nothing is unpacked of a file that is none.
BlobFetch(tree, blob, strip) ==
    CASE blob.format = "zip" -> ExtractZip(tree, WorkDir, blob.entries, strip)
      [] blob.format \in {"tar", "tar.gz"} -> ExtractTar(tree, WorkDir, blob.entries, strip)
      [] OTHER -> Failed

\* fetchLayer of the one layer there may be, into the temporary directory.
FetchOneLayer(tree, image) ==
    IF Len(image.layers) = 1
    THEN ExtractTar(MkdirAll(tree, TempDir, "x"), TempDir, image.layers[1], 0) ELSE Failed

\* getSourceFile: the one file in the temporary directory.
getSourceFile(tree) ==
    LET top == {p \in DOMAIN tree : IsPrefix(TempDir, p) /\ Len(p) = Len(TempDir) + 1}
    IN IF tree = Failed \/ Cardinality(top) # 1 THEN [format |-> "none"]
       ELSE LET node == tree[CHOOSE p \in top : TRUE]
            IN IF node.kind = "file" THEN node.data ELSE [format |-> "none"]

\* handleZip, handleTar, handleTarGZ: the label says what the file must be.
HandleArchive(tree, image, format) ==
    LET layer == FetchOneLayer(tree, image)
        file == getSourceFile(layer)
    IN IF file.format # format THEN Failed
       ELSE RemoveAll(IF format = "zip" THEN ExtractZip(layer, WorkDir, file.entries, 0)
                      ELSE ExtractTar(layer, WorkDir, file.entries, 0), TempDir)

\* handleSource: the layers one over the other; a layer removes nothing.
HandleSource(tree, image) ==
    FoldLeft(LAMBDA t, layer : IF t = Failed THEN t ELSE ExtractTar(t, WorkDir, layer, 0),
             tree, image.layers)

\* Fetch of pkg/registry, by the label source.contenttype.kpack.io.
RegistryFetch(tree, image) ==
    CASE image.label \in {"zip", "jar", "war"} -> HandleArchive(tree, image, "zip")
      [] image.label \in {"tar", "tar.gz"} -> HandleArchive(tree, image, image.label)
      [] OTHER -> HandleSource(tree, image)

---------------------------------------------------------------------------
(***************************************************************************)
(* The project descriptor and the environment.                             *)
(***************************************************************************)

\* A field of a descriptor that may be missing is a set of at most one value.
Nil == {}

\* MatchesPath of the ignore library (external): the pattern names a file or a
\* directory above it.
MatchesPath(patterns, path) == \E p \in patterns : IsPrefix(p, path)

\* getFileFilter: an empty list is no filter.
Keeps(d, path) ==
    IF UNION d.exclude # {} THEN ~MatchesPath(UNION d.exclude, path)
    ELSE UNION d.include # {} => MatchesPath(UNION d.include, path)

\* processFiles: at most one of the lists may be there; directories stay.
ProcessFiles(tree, appDir, d) ==
    IF d.exclude # Nil /\ d.include # Nil THEN Failed
    ELSE [p \in {q \in DOMAIN tree :
                   \/ tree[q].kind = "dir" \/ ~IsPrefix(appDir, q)
                   \/ Keeps(d, SubSeq(q, Len(appDir) + 1, Len(q)))} |-> tree[p]]

\* descriptorV2.env: [[io.buildpacks.build.env]], else [[io.buildpacks.env.build]];
\* a v1 descriptor has one list (v1ToV2).
DescriptorEnv(d) ==
    LET lists == IF d.buildEnv # Nil \/ d.schema # "0.2" THEN d.buildEnv ELSE d.envBuild
    IN IF lists = Nil THEN <<>> ELSE CHOOSE e \in lists : TRUE

\* serializeEnvVars: a file per variable, the last of a name stays.
serializeEnvVars(env, vars) ==
    FoldLeft(LAMBDA e, v : [n \in DOMAIN e \cup {v[1]} |-> IF n = v[1] THEN v[2] ELSE e[n]],
             env, vars)

\* parseProjectDescriptor: what is in a file that parses; a schema that is not
\* known is passed over.
Parsed(node) ==
    IF node.data.schema \in {"", "0.2"} THEN node.data
    ELSE [schema |-> "", include |-> Nil, exclude |-> Nil, buildEnv |-> Nil, envBuild |-> Nil]

\* ProcessProjectDescriptor: the tree afterwards, and the variables to set.
ProcessProjectDescriptor(tree, appDir, descriptorPath) ==
    LET file == Clean(appDir \o (IF descriptorPath = <<>> THEN <<"project.toml">> ELSE descriptorPath))
    IN CASE file \notin DOMAIN tree ->
              [tree |-> IF descriptorPath # <<>> THEN Failed ELSE tree, vars |-> <<>>]
         [] OTHER ->
              LET d == Parsed(tree[file])
              IN [tree |-> ProcessFiles(tree, appDir, d), vars |-> DescriptorEnv(d)]

\* SetupPlatformEnvVars: the variables of the Build, which the pod passes on with
\* a prefix, in the order of the process environment.
SetupPlatformEnvVars(env, vars) == serializeEnvVars(env, vars)
=============================================================================
