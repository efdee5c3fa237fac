-------------------------------- MODULE Paths --------------------------------
(***************************************************************************)
(* How the server gets from what a client writes to a file: the mounts of  *)
(* the corpus, the ids of documents, the paths that hover accepts, and the *)
(* files of the workspace (src/src/search/runtime.rs,                      *)
(* src/src/search/indexing.rs, src/src/resources.rs).                      *)
(*                                                                         *)
(* A path is the sequence of its parts between slashes: an absolute one    *)
(* starts with an empty part.  The file system is a tree of directories    *)
(* and files, by their real paths, and links to real paths.                *)
(***************************************************************************)
EXTENDS SourceFilters, Integers, FiniteSetsExt, SequencesExt

CONSTANTS
  Indexable,    \* the names with an extension that is_allowed_extension allows
  Markdown,     \* the names that end in .md
  WithMd,       \* a name, and ".md" after it unless it ends so
  Skipped,      \* names no local mount is walked into
  Dotted,       \* the names with ".." in them
  CorpusDir,    \* SPARK_MCP_CORPUS_DIR
  WorkspaceRoot,\* SPARK_MCP_WORKSPACE_ROOT, "none" if not set
  Included,     \* the directories of the workspace that are mounts, in order
  LabelOf,      \* and their labels
  Cwd           \* the working directory of the server

Root    == <<>>
Missing == <<"">>
IsTree(tree) ==
  /\ Root \in tree.dirs
  /\ \A p \in tree.dirs \cup DOMAIN tree.files :
       p \in Seq(STRING) /\ \A i \in DOMAIN p : p[i] \notin {"", ".", ".."}
  /\ \A p \in tree.dirs \cup DOMAIN tree.files \cup DOMAIN tree.links :
       p # Root => Front(p) \in tree.dirs
  /\ DOMAIN tree.files \cap tree.dirs = {}
  /\ DOMAIN tree.links \cap (tree.dirs \cup DOMAIN tree.files) = {}

ASSUME PathsAssumption ==
  /\ ".." \in Dotted
  /\ {CorpusDir, Included, Cwd} \subseteq Seq(STRING) /\ {"", "spec", WorkspaceRoot} \subseteq STRING
  /\ LocalNames \subseteq STRING \ {""}
  /\ DOMAIN LabelOf = ToSet(Included) /\ \A d \in DOMAIN LabelOf : LabelOf[d] \in LocalNames
  /\ \A d, e \in ToSet(Included) : LabelOf[d] = LabelOf[e] => d = e

-----------------------------------------------------------------------------
(* The file system *)

Exists(tree, path) == path \in tree.dirs \cup DOMAIN tree.files
IsFile(tree, path) == path \in DOMAIN tree.files

\* One part further; links are followed, and only directories have parts.
Enter(tree, at, part) ==
  LET next == Append(at, part)
      real == IF next \in DOMAIN tree.links THEN tree.links[next] ELSE next
  IN CASE at \notin tree.dirs -> Missing
       [] at \in tree.dirs /\ part \in {"", "."} -> at
       [] at \in tree.dirs /\ part = ".." -> IF at = Root THEN Root ELSE Front(at)
       [] OTHER -> IF Exists(tree, real) THEN real ELSE Missing

IsAbsolute(path) == Len(path) > 1 /\ Head(path) = ""

\* Path::join: an absolute path replaces what it is joined to.
Join(base, path) == IF IsAbsolute(path) THEN path ELSE base \o path

\* canonicalize, Missing if there is no such file.
Canonical(tree, path) ==
  LET at[i \in 0..Len(path)] == IF i = 0 THEN Root ELSE Enter(tree, at[i - 1], path[i])
  IN at[Len(path)]

Below(root, path) == IsPrefix(root, path)

-----------------------------------------------------------------------------
(* Mounts *)

\* Mutant: a directory of the workspace is its own label.
BuildMountsUnnamed(tree) ==
  <<[label |-> "", root |-> Canonical(tree, CorpusDir)]>>
    \o [i \in DOMAIN Included |->
         [label |-> Included[i], root |-> Canonical(tree, <<"", WorkspaceRoot, Included[i]>>)]]

\* workspace_mounts and build_mounts: the corpus without a label, and what
\* exists of the directories of the workspace.
BuildMounts(tree) ==
  LET corpus == [label |-> "", root |-> Canonical(tree, CorpusDir)]
      candidates ==
        IF WorkspaceRoot = "none" THEN <<>>
        ELSE [i \in DOMAIN Included |->
                [label |-> LabelOf[Included[i]],
                 root  |-> Canonical(tree, <<"", WorkspaceRoot, Included[i]>>)]]
      Usable(mount) == mount.root \in tree.dirs /\ mount.root # corpus.root
  IN <<corpus>>
       \o FlattenSeq([i \in DOMAIN candidates |->
                        IF Usable(candidates[i]) THEN <<candidates[i]>> ELSE <<>>])

LocalMount(mount) == mount.label \in LocalNames

\* workspace_root: the directory the first local mount is in.
HasWorkspace(mounts)  == \E i \in DOMAIN mounts : LocalMount(mounts[i])
WorkspaceOf(mounts) ==
  Front(mounts[Min({i \in DOMAIN mounts : LocalMount(mounts[i])})].root)

\* Mutant: the label is left out.
IdWithoutLabel(mount, file) == SubSeq(file, Len(mount.root) + 1, Len(file))

\* document_meta: the id, which is the path in the mount after its label.
IdOf(mount, file) ==
  (IF mount.label = "" THEN <<>> ELSE <<mount.label>>)
    \o SubSeq(file, Len(mount.root) + 1, Len(file))

\* The source is the label, or the first part of the path in the corpus.
SourceIn(mount, file) == IdOf(mount, file)[1]

\* The mount, with what its root leads to now.
Followed(tree, mount) == [mount EXCEPT !.root = Canonical(tree, mount.root)]

\* The files a walk of a mount reads (for_each_corpus_file).  The walk starts where
\* the root leads to, and follows no other link; IdOf(Followed(tree, mount), file) is the
\* id of such a file.
Walked(tree, mount) ==
  LET start == Canonical(tree, mount.root) IN
  {f \in DOMAIN tree.files :
     /\ Below(start, f)
     /\ Last(IF f = start THEN mount.root ELSE f) \in Indexable
     /\ tree.files[f].kind # "big"
     /\ LocalMount(mount) =>
          \A i \in (Len(start) + 1)..Len(f) : f[i] \notin Skipped}

\* scan_sources
ScanSources(tree, mounts) ==
  {SourceIn(Followed(tree, mounts[p[1]]), p[2]) :
     p \in UNION {{i} \X Walked(tree, mounts[i]) : i \in DOMAIN mounts}}

-----------------------------------------------------------------------------
(* Documents *)

None    == [how |-> "none"]
Escapes == [how |-> "escapes"]
InMount(mounts, i, file) == [how |-> "found", mount |-> mounts[i], file |-> file]

\* resolve_doc_path: the first part is a label, or the whole is a path in the
\* corpus; what lies elsewhere is an error.
ResolveDoc(tree, mounts, doc) ==
  LET labelled == {i \in DOMAIN mounts : doc # <<>> /\ mounts[i].label # ""
                                           /\ mounts[i].label = doc[1]}
      i    == IF labelled = {} THEN 1 ELSE Min(labelled)
      rest == IF labelled = {} THEN doc ELSE Tail(doc)
      file == Canonical(tree, Join(mounts[i].root, rest))
      empty == {<<>>, <<"">>}
  IN IF doc \in empty \/ rest \in empty \/ file = Missing THEN None
     ELSE IF Below(mounts[i].root, file) THEN InMount(mounts, i, file)
     ELSE Escapes

\* hover_file_candidates: from the working directory, the workspace and the
\* mounts, in that order.
Candidates(mounts, path) ==
  IF IsAbsolute(path) THEN <<path>>
  ELSE <<Join(Cwd, path)>>
       \o (IF HasWorkspace(mounts) THEN <<Join(WorkspaceOf(mounts), path)>> ELSE <<>>)
       \o [i \in DOMAIN mounts |-> Join(mounts[i].root, path)]

\* resolve_existing_file_candidates: the first candidate that is in a mount.
ResolveCandidates(tree, mounts, candidates) ==
  LET real == [i \in DOMAIN candidates |-> Canonical(tree, candidates[i])]
      Mounts(i) == {m \in DOMAIN mounts : real[i] # Missing /\ Below(mounts[m].root, real[i])}
      inside == {i \in DOMAIN candidates : Mounts(i) # {}}
  IN CASE inside # {} -> InMount(mounts, Min(Mounts(Min(inside))), real[Min(inside)])
       [] inside = {} /\ \E i \in DOMAIN candidates : real[i] # Missing -> [how |-> "outside"]
       [] OTHER -> None

\* Mutant: an id is looked up like a path.
ResolveFileAsPath(tree, mounts, path) ==
  ResolveCandidates(tree, mounts, Candidates(mounts, path))

\* resolve_tool_file_doc_id: a path that is not absolute is an id first.
ResolveFile(tree, mounts, path) ==
  LET asId == ResolveDoc(tree, mounts, path) IN
  IF path = <<"">> THEN None
  ELSE IF ~IsAbsolute(path) /\ asId.how # "none" THEN asId
  ELSE ResolveCandidates(tree, mounts, Candidates(mounts, path))

-----------------------------------------------------------------------------
(* The workspace *)

\* Mutant: links are not looked through.
UnderWorkspaceAsWritten(tree, workspace, path) ==
  LET file == Canonical(tree, workspace \o path) IN
  IF /\ \A i \in DOMAIN path : path[i] \notin Dotted
     /\ path # <<>>
     /\ Last(path) \in Markdown
  THEN file ELSE Missing

TrimFront(path) ==
  LET named == {i \in DOMAIN path : path[i] # ""} IN
  IF named = {} THEN <<>> ELSE SubSeq(path, Min(named), Len(path))
TrimSlashes(path) == Reverse(TrimFront(Reverse(TrimFront(path))))

\* resolve_under_workspace: a markdown file of the workspace, or Missing.
UnderWorkspace(tree, workspace, path) ==
  LET rel  == TrimFront(path)
      file == Canonical(tree, workspace \o rel)
  IN IF /\ \A i \in DOMAIN path : path[i] \notin Dotted
        /\ rel # <<>>
        /\ file # Missing
        /\ Below(workspace, file)
        /\ file # Root /\ Last(file) \in Markdown
     THEN file ELSE Missing

\* resolve_workspace_resource of a spec: spec/<doc>.md
SpecPath(path) ==
  <<"spec">> \o Front(path) \o <<WithMd[Last(path)]>>

Guidance == {<<"README.md">>, <<"spark", "AGENTS.md">>, <<"spark", "README.md">>}

\* local_guidance_files and resource_for_file: what is listed of the workspace.
Listed(tree, workspace) ==
  {p \in Guidance : Canonical(tree, workspace \o p) # Missing}
  \cup {<<"spec", name>> : name \in
          {n \in Markdown : IsFile(tree, Canonical(tree, workspace \o <<"spec", n>>))}}

\* normalize_workspace_paths and validate_workspace_paths: relative, without
\* "..", there, and inside of the workspace.
AcceptsShape(path) == ~IsAbsolute(path) /\ \A i \in DOMAIN path : path[i] # ".."

InsideWorkspace(tree, mounts, path) ==
  /\ HasWorkspace(mounts)
  /\ LET real == Canonical(tree, WorkspaceOf(mounts) \o path) IN
     /\ real # Missing
     /\ Below(Canonical(tree, WorkspaceOf(mounts)), real)
=============================================================================
