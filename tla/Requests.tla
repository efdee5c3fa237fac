------------------------------- MODULE Requests -------------------------------
(***************************************************************************)
(* The tools that answer about files and the resources                     *)
(* (src/src/tools.rs, src/src/resources.rs, src/src/search/runtime.rs):    *)
(* get_doc, get_chunk, hover, locate, reindex, and the reading and listing *)
(* of resources.  Files, directories and links may change at any time: the *)
(* path of a document is resolved and checked in one step, the file is     *)
(* measured in another and read in a third, by the path that was checked;  *)
(* hover resolves what it is given to an id in a step before.              *)
(***************************************************************************)
EXTENDS Paths, Lines

CONSTANTS
  Trees,       \* file systems the server may find
  Becomes(_),  \* and what one of them may change into
  Calls(_),    \* the calls clients make on one of them
  Number,      \* the number that a part of a URI denotes
  Alias,       \* what follows "local-" in the name of a source
  Hyphened,    \* the names with a "-" in them
  FullAllowed  \* what SPARK_MCP_REINDEX_ALLOW_FULL may be when it is read

ASSUME RequestsAssumption ==
  /\ \A t \in Trees : IsTree(t) /\ \A changed \in Becomes(t) : changed \in Trees
  /\ \A r \in {Canonical(t, CorpusDir) : t \in Trees} : \A t \in Trees :
       LET start == Canonical(t, r) IN
       \A f \in DOMAIN t.files :
         /\ f # start
         /\ Below(start, f) /\ Last(f) \in Indexable => f[Len(start) + 1] \in Sources
  /\ \A t \in Trees : \A c \in Calls(t) :
       /\ c.tool \in {"get_doc", "get_chunk", "read_resource"} => c.path \in Seq(STRING) \ {<<>>}
       /\ c.tool = "read_resource" /\ c.scheme = "spec" /\ c.path # <<"">> => WithMd[Last(c.path)] \in STRING
       /\ c.tool = "hover" => c.path \in Seq(STRING) \ {<<>>} /\ {c.line, c.column} \subseteq Nat
                              /\ c.symbol \in Seq(DOMAIN Lowered)
       /\ c.tool = "locate" => c.symbol \in Seq(DOMAIN Lowered) \ {<<>>} /\ c.limit \in Nat
  /\ \A t \in Trees : /\ IsFiniteSet(DOMAIN t.files)
                       /\ \A f \in DOMAIN t.files : t.files[f].text \in Seq(DOMAIN Lowered)
  /\ DOMAIN Alias = LocalNames /\ LocalNames \subseteq Hyphened
  /\ \A s \in LocalNames : Lower[s] \in LocalNames
  /\ FullAllowed \subseteq BOOLEAN

VARIABLES
  tree,     \* the file system
  mounts,   \* the mounts, as they were resolved at the start
  sources,  \* the names list_sources gives, as of the last index
  call,     \* what is asked for
  id,       \* the id that a hover has resolved and not looked up yet
  opened,   \* the path that was checked and is not read yet
  reply,    \* what was answered last
  moved,    \* history: whether the files have changed since the call began
  swapped   \* history: whether they have changed between the check and the read

vars == <<tree, mounts, sources, call, id, opened, reply, moved, swapped>>

Idle     == [tool |-> "none"]
NoReply  == [outcome |-> "none"]
NoId     == <<"">>
NoFile   == [how |-> "none"]
Readers  == {"get_doc", "get_chunk", "read_resource", "hover"}
Outcomes == {"none", "answered", "failed", "not_found", "invalid", "error", "panicked"}

TypeOK ==
  /\ IsTree(tree)
  /\ \A i \in DOMAIN mounts : mounts[i].label \in LocalNames \cup {""}
  /\ sources \subseteq Sources
  /\ reply.outcome \in Outcomes
  /\ moved \in BOOLEAN /\ swapped \in BOOLEAN
  /\ id # NoId => call.tool = "hover" /\ opened = NoFile
  /\ opened # NoFile => call.tool \in Readers
  /\ id # NoId \/ opened # NoFile => reply = NoReply

Init ==
  /\ tree \in Trees
  /\ mounts = BuildMounts(tree)
  /\ sources = ScanSources(tree, mounts)
  /\ call = Idle
  /\ id = NoId
  /\ opened = NoFile
  /\ reply = NoReply
  /\ moved = FALSE /\ swapped = FALSE

\* Somebody edits, moves or links files.
Edit ==
  /\ tree' \in Becomes(tree) \ {tree}
  /\ moved' = TRUE
  /\ swapped' = (swapped \/ opened # NoFile)
  /\ UNCHANGED <<mounts, sources, call, id, opened, reply>>

\* The answer is on its way, and the next call may come.
Done ==
  /\ reply # NoReply
  /\ call' = Idle
  /\ reply' = NoReply
  /\ moved' = FALSE /\ swapped' = FALSE
  /\ UNCHANGED <<tree, mounts, sources, id, opened>>

Begins(c) ==
  /\ call = Idle
  /\ call' = c
  /\ moved' = FALSE

\* Answered in one step.
Answers(c, answer) ==
  /\ Begins(c)
  /\ reply' = answer
  /\ UNCHANGED <<tree, mounts, id, opened, swapped>>

Ends(answer) == opened' = NoFile /\ reply' = answer
Opens(file)  == opened' = file /\ reply' = NoReply

-----------------------------------------------------------------------------
(* What hover says when it fails *)

SourceExists(label) == \E s \in sources : Lower[s] = Lower[label]
Labelled(path) == Len(path) > 1 /\ path[1] # "" /\ Tail(path) # <<"">>

\* classify_hover_none_reason
NoneReason(path) ==
  IF /\ Labelled(path)
     /\ ~IsLocal(path[1]) /\ ~SourceExists(path[1]) /\ path[1] \in Hyphened
  THEN "unmapped_source" ELSE "not_found"

\* suggest_hover_doc_id: the label as written, the source it is short for, or the
\* source a directory on the way is short for.
Suggestions(path) ==
  LET locals == sources \cap LocalNames
      short(part) == {s \in locals : part # Blank /\ Lower[part] = Alias[s]}
      On(i) == i < Len(path) /\ short(path[i]) # {}
  IN IF Labelled(path) /\ SourceExists(path[1]) THEN {path}
     ELSE IF Labelled(path) /\ short(path[1]) # {}
     THEN {<<s>> \o Tail(path) : s \in short(path[1])}
     ELSE IF IsAbsolute(path)
     THEN UNION {{<<s>> \o SubSeq(path, i + 1, Len(path)) : s \in short(path[i])} :
                   i \in {j \in 2..Len(path) : On(j)}}
     ELSE {}

Failed(path, reason) ==
  [tool |-> "hover", outcome |-> "failed", reason |-> reason,
   suggested |-> Suggestions(path)]

-----------------------------------------------------------------------------
(* Documents *)

TooLarge(file) == IsFile(tree, file) /\ tree.files[file].kind = "big"

\* read_text, and trim.
TextOf(file) ==
  IF IsFile(tree, file) /\ tree.files[file].kind = "text"
  THEN Trim(tree.files[file].text) ELSE <<>>

\* How each tool reports that there is no document; a resource says "not found"
\* whatever the failure is.
NotFound == [tool |-> "resource", outcome |-> "not_found"]
Refusal(c, why) ==
  CASE c.tool = "read_resource"            -> NotFound
    [] c.tool = "hover" /\ why = "not_found" -> Failed(c.path, NoneReason(c.path))
    [] c.tool = "hover" /\ why = "invalid"   -> Failed(c.path, "invalid_input")
    [] OTHER                               -> [tool |-> c.tool, outcome |-> why]

\* The look-up of an id, by resolve_doc_path.
LooksUp(c, doc) ==
  LET found == ResolveDoc(tree, mounts, doc) IN
  IF found.how = "found" THEN Opens(found)
  ELSE Ends(Refusal(c, IF found.how = "none" THEN "not_found" ELSE "invalid"))

\* get_doc and get_chunk
StartGet(c) ==
  /\ c.tool \in {"get_doc", "get_chunk"}
  /\ Begins(c)
  /\ LooksUp(c, c.path)
  /\ UNCHANGED <<tree, mounts, sources, id, swapped>>

\* The size of what the checked path leads to by now.
Measure ==
  /\ opened.how = "found"
  /\ LET file == Canonical(tree, opened.file) IN
     CASE file = Missing  -> Ends(Refusal(call, "error"))
       [] TooLarge(file)  -> Ends(Refusal(call, "invalid"))
       [] OTHER           -> Opens([opened EXCEPT !.how = "measured"])
  /\ UNCHANGED <<tree, mounts, sources, call, id, moved, swapped>>

\* The number of the chunk that is asked for, of the URI for a resource.
WantsChunk(c) == c.tool = "get_chunk" \/ (c.tool = "read_resource" /\ c.scheme = "chunk")
ChunkOf(c) == IF c.tool = "get_chunk" THEN c.chunk ELSE Number[Last(TrimSlashes(c.path))]

\* The text is read, and answered with the path that was checked and its id.
ReadDoc ==
  /\ opened.how = "measured" /\ call.tool # "hover"
  /\ LET text == TextOf(Canonical(tree, opened.file)) IN
     IF text = <<>> \/ (WantsChunk(call) /\ ChunkOf(call) >= Len(ChunkText(text)))
     THEN Ends(Refusal(call, "not_found"))
     ELSE Ends([tool |-> "doc", outcome |-> "answered", file |-> opened.file,
                read |-> Canonical(tree, opened.file),
                id |-> IdOf(opened.mount, opened.file)])
  /\ UNCHANGED <<tree, mounts, sources, call, id, moved, swapped>>

-----------------------------------------------------------------------------
(* Resources *)

\* A document, a chunk of one, or a file of the workspace.
StartResource(c) ==
  LET part      == TrimSlashes(c.path)
      workspace == WorkspaceOf(mounts)
      file == CASE c.scheme = "workspace" -> UnderWorkspace(tree, workspace, c.path)
                [] c.scheme = "spec" /\ c.path # <<"">> ->
                     UnderWorkspace(tree, workspace, SpecPath(c.path))
                [] OTHER -> Missing
  IN /\ c.tool = "read_resource"
     /\ Begins(c)
     /\ CASE c.scheme = "doc" /\ part # <<>> -> LooksUp(c, part)
          [] c.scheme = "chunk" /\ Len(part) > 1 /\ Last(part) \in DOMAIN Number ->
               LooksUp(c, Front(part))
          [] c.scheme \in {"workspace", "spec"} /\ HasWorkspace(mounts) /\ file # Missing ->
               Opens([how |-> "workspace", file |-> file])
          [] OTHER -> Ends(NotFound)
     /\ UNCHANGED <<tree, mounts, sources, id, swapped>>

\* A file of the workspace is read without a limit.
ReadFile ==
  /\ opened.how = "workspace" /\ call.tool = "read_resource"
  /\ LET file == Canonical(tree, opened.file) IN
     IF IsFile(tree, file) /\ tree.files[file].kind # "binary"
     THEN Ends([tool |-> "resource", outcome |-> "answered", file |-> opened.file,
                   read |-> file])
     ELSE Ends(NotFound)
  /\ UNCHANGED <<tree, mounts, sources, call, id, moved, swapped>>

ListResources(c) ==
  /\ c.tool = "list_resources"
  /\ Answers(c, [tool |-> "list_resources", outcome |-> "answered",
                 listed |-> IF HasWorkspace(mounts)
                            THEN Listed(tree, WorkspaceOf(mounts)) ELSE {}])
  /\ UNCHANGED sources

-----------------------------------------------------------------------------
(* Hover *)

\* The first step of a hover: the file is resolved to the id of a document.
StartHover(c) ==
  /\ c.tool = "hover"
  /\ Begins(c)
  /\ LET found == ResolveFile(tree, mounts, c.path) IN
     IF found.how = "found"
     THEN id' = IdOf(found.mount, found.file) /\ reply' = NoReply
     ELSE /\ id' = NoId
          /\ reply' =
               IF c.path = <<"">> THEN [tool |-> "hover", outcome |-> "invalid"]
               ELSE Failed(c.path, CASE found.how = "none"    -> NoneReason(c.path)
                                     [] found.how = "outside" -> "outside_root"
                                     [] OTHER                 -> "invalid_input")
  /\ UNCHANGED <<tree, mounts, sources, opened, swapped>>

\* Mutant: a file of the corpus goes before the one of the label.
LookUpCorpusFirst ==
  /\ id # NoId
  /\ LooksUp(call, IF Canonical(tree, mounts[1].root \o id) # Missing THEN <<".">> \o id ELSE id)
  /\ id' = NoId
  /\ UNCHANGED <<tree, mounts, sources, call, moved, swapped>>

\* The second step: the document is looked up by its id.
LookUp ==
  /\ id # NoId
  /\ LooksUp(call, id)
  /\ id' = NoId
  /\ UNCHANGED <<tree, mounts, sources, call, moved, swapped>>

\* What hover reads at a position of a text.
Hovered(text, line, column, symbol) ==
  LET lines  == LinesOf(text)
      starts == LineStarts(text)
      row    == Max({1, Min({line, Len(lines)})})
      col    == Max({1, column})
      offset == OffsetForPosition(lines, starts, row, col)
      chunk  == ChunkForOffset(ChunkText(text), offset)
      name   == IF symbol # <<>> THEN symbol ELSE InferSymbol(lines[row], col)
      named  == IF name = <<>> THEN <<>> ELSE Naming(chunk.text, name)
  IN [row |-> row, offset |-> offset, chunk |-> chunk, symbol |-> name,
      match |-> IF named = <<>> THEN "none" ELSE named[1].kind,
      context |-> LineContext(lines, starts, offset, offset + 1, 1),
      snippet |-> Snippet(chunk.text, IF name = <<>> THEN lines[row] ELSE name)]

\* The last step: the document is read.  A snippet that starts behind its end is a
\* panic.
EndHover ==
  /\ opened.how = "measured" /\ call.tool = "hover"
  /\ LET text == TextOf(Canonical(tree, opened.file))
         at   == Hovered(text, call.line, call.column, call.symbol)
     IN IF text = <<>> THEN Ends(Refusal(call, "not_found"))
        ELSE Ends([tool |-> "hover",
                   outcome |-> IF at.snippet[1] > at.snippet[2] THEN "panicked" ELSE "answered",
                   file |-> opened.file, read |-> Canonical(tree, opened.file),
                   id |-> IdOf(opened.mount, opened.file), at |-> at])
  /\ UNCHANGED <<tree, mounts, sources, call, id, moved, swapped>>

-----------------------------------------------------------------------------
(* Symbols *)

\* matches_source_filter of an argument as it is given: one without a name
\* selects nothing.
Selects(filter, source) ==
  \/ filter = {}
  \/ \E n \in Given(filter) :
       IF IsLocal(n) THEN source \in LocalNames ELSE source = n

Wanted(kind, want) == want = "both" \/ kind = want

\* collect_symbol_matches; a walk has some order of its own.
Located(symbol, want, filter, limit) ==
  LET In(i) ==
        FlattenSeq([k \in DOMAIN SetToSeq(Walked(tree, mounts[i])) |->
          LET file == SetToSeq(Walked(tree, mounts[i]))[k]
              mount == Followed(tree, mounts[i])
              named == IF TextOf(file) # <<>> /\ Selects(filter, SourceIn(mount, file))
                       THEN Naming(tree.files[file].text, symbol) ELSE <<>>
              kept  == InOrder({n \in DOMAIN named : Wanted(named[n].kind, want)})
          IN [n \in DOMAIN kept |->
                [file |-> file, id |-> IdOf(mount, file),
                 line |-> named[kept[n]].line, kind |-> named[kept[n]].kind]]])
      all == FlattenSeq([i \in DOMAIN mounts |-> In(i)])
  IN SubSeq(all, 1, Min({limit, Len(all)}))

\* spark_locate and spark_refs
Locate(c) ==
  /\ c.tool = "locate"
  /\ Answers(c, [tool |-> "locate", outcome |-> "answered",
                 hits |-> Located(c.symbol, c.want, c.filter, c.limit)])
  /\ UNCHANGED sources

-----------------------------------------------------------------------------
(* Reindex *)

\* is_local_scope, of a name in lower case
LocalScope(name) == name = Local \/ name \in LocalNames

\* Mutant: the names of a scope are not looked at.
RequestedAnyScope(c, allowed) == {Lower[n] : n \in Given(c.sources)}

\* What spark_reindex asks for, {} if it refuses.
Requested(c, allowed) ==
  LET names == {Lower[n] : n \in Given(c.sources)} IN
  IF c.full THEN (IF ~allowed THEN {} ELSE IF names = {} THEN sources ELSE names)
  ELSE IF names = {} THEN {Local}
  ELSE IF \A n \in names : LocalScope(n) THEN names ELSE {}

\* resolve_reindex_sources: {} if a name is unknown, or nothing is selected.
EffectiveSources(requested) ==
  LET locals == sources \cap LocalNames
      Named(n) == {s \in sources : Lower[s] = Lower[n]}
  IN IF \E n \in requested : ~IsLocal(n) /\ Named(n) = {} THEN {}
     ELSE UNION {IF IsLocal(n) THEN locals ELSE {CHOOSE s \in Named(n) : TRUE} :
                   n \in requested}

\* A reindex that is served alone (see AutoReindex for several).
Reindex(c) ==
  /\ c.tool = "reindex"
  /\ \E allowed \in FullAllowed :
     LET effective == EffectiveSources(Requested(c, allowed))
         paths == c.paths \ {<<"">>}
     IN IF /\ effective # {}
           /\ \A p \in paths : AcceptsShape(p) /\ InsideWorkspace(tree, mounts, p)
        THEN /\ Answers(c, [tool |-> "reindex", outcome |-> "answered",
                            effective |-> effective, paths |-> paths,
                            allowed |-> allowed])
             /\ sources' = ScanSources(tree, mounts)
        ELSE /\ Answers(c, [tool |-> "reindex", outcome |-> "invalid"])
             /\ UNCHANGED sources

-----------------------------------------------------------------------------
Next ==
  \/ /\ call = Idle
     /\ \E c \in Calls(tree) :
          \/ StartGet(c) \/ StartResource(c) \/ StartHover(c)
          \/ ListResources(c)
          \/ Locate(c)
          \/ Reindex(c)
  \/ LookUp \/ Measure
  \/ ReadDoc \/ ReadFile \/ EndHover
  \/ Done
  \/ Edit

Spec == Init /\ [][Next]_vars
-----------------------------------------------------------------------------
(* Properties *)

Answered(tool) == call.tool = tool /\ reply.outcome = "answered"

\* A directory of the corpus that has the name of a label is hidden by it.
Shadowed(mount, file) ==
  /\ mount.label = ""
  /\ Below(mount.root, file) /\ file # mount.root
  /\ \E i \in DOMAIN mounts : mounts[i].label = IdOf(mount, file)[1]

\* Whatever links there are and however a path is written: the path that is opened
\* lies in the mount its id names, or is a markdown file of the workspace; and what is
\* read is that very file, if nothing changes between the check and the read, however
\* much has changed between the steps before (resolve_doc_path, resolve_under_workspace).
\* The read is by the path that was checked and checks nothing again: if files do
\* change in between, it takes what the path leads to by then.
ServedIsInside ==
  "file" \in DOMAIN reply =>
    /\ ~swapped => reply.read = reply.file
    /\ IF reply.tool = "resource"
       THEN Below(WorkspaceOf(mounts), reply.file) /\ Last(reply.file) \in Markdown
       ELSE \E i \in DOMAIN mounts : /\ Below(mounts[i].root, reply.file)
                                    /\ reply.id = IdOf(mounts[i], reply.file)

\* The id under which a walk indexes a file leads back to that file, if the root of
\* the mount is a directory still and no label hides it.  If the root has become a link
\* since the server has started, the walk follows it, and every id it indexes there is
\* refused or leads to no file (for_each_corpus_file, document_meta, resolve_doc_path).
IdLeadsBack ==
  \A i \in DOMAIN mounts : \A f \in Walked(tree, mounts[i]) :
    LET mount == Followed(tree, mounts[i])
        found == ResolveDoc(tree, mounts, IdOf(mount, f))
    IN ~Shadowed(mount, f) =>
         IF mounts[i].root \in tree.dirs THEN found.how = "found" /\ found.file = f
         ELSE found.how \in {"escapes", "none"}

\* Hover resolves a path to an id and the id to a file: that is the file the path
\* leads to from one of the places it may start at (resolve_tool_file_doc_id).
HoverIsOfTheFile ==
  Answered("hover") /\ ~moved =>
    LET bases == {mounts[i].root : i \in DOMAIN mounts} \cup {Cwd}
                   \cup (IF HasWorkspace(mounts) THEN {WorkspaceOf(mounts)} ELSE {})
        led == {Canonical(tree, Join(b, call.path)) : b \in bases}
        own == {m \in DOMAIN mounts : Labelled(call.path) /\ mounts[m].label = call.path[1]}
        labelled == {Canonical(tree, Join(mounts[m].root, Tail(call.path))) : m \in own}
                      \ {Missing}
    IN \/ reply.read \in IF labelled # {} THEN labelled ELSE led
       \/ \E f \in led : /\ Shadowed(mounts[1], f) /\ labelled = {}
                         /\ reply.read = ResolveDoc(tree, mounts, IdOf(mounts[1], f)).file

\* The reason of a failed hover is true: "outside" if the path leads out of every
\* mount, "not found" if the file it leads to, as an id or from a place it may start
\* at, has no text, "unmapped" if no source has the label; and what is suggested is
\* never unmapped (classify_hover_*).  Not so if a directory of the corpus has the
\* name of a label, or a mount has become a file.
ReasonIsTrue ==
  call.tool = "hover" /\ reply.outcome = "failed" /\ ~moved =>
    LET real == {Canonical(tree, p) : p \in ToSet(Candidates(mounts, call.path))} \ {Missing}
        inside == {f \in real : \E i \in DOMAIN mounts : Below(mounts[i].root, f)}
        byId   == ResolveDoc(tree, mounts, call.path)
        byPath == ResolveCandidates(tree, mounts, Candidates(mounts, call.path))
        Textless(way) == way.how = "found" => TextOf(way.file) = <<>>
    IN /\ reply.reason = "outside_root" => real # {} /\ inside = {}
       /\ reply.reason \in {"not_found", "unmapped_source"} =>
            \/ \E f \in inside : Shadowed(mounts[1], f)
            \/ \E i \in DOMAIN mounts : IsFile(tree, mounts[i].root)
            \/ IF ~IsAbsolute(call.path) /\ byId.how = "found" THEN Textless(byId) ELSE Textless(byPath)
       /\ reply.reason = "unmapped_source" => \A s \in sources : s # call.path[1]
       /\ \A p \in reply.suggested : NoneReason(p) # "unmapped_source"

\* A reindex that is not a full one reports local sources only, at least one, and
\* paths that are inside of the workspace, whatever case and blanks the names
\* have (spark_reindex, resolve_reindex_sources, validate_workspace_paths).
ReindexScope ==
  Answered("reindex") =>
    /\ reply.effective # {}
    /\ ~call.full => \A s \in reply.effective : Lower[s] \in LocalNames
    /\ call.full => reply.allowed
    /\ ~moved => \A p \in reply.paths :
         Below(Canonical(tree, WorkspaceOf(mounts)), Canonical(tree, WorkspaceOf(mounts) \o p))

\* A symbol that hover takes from a line is found in that line again by those who
\* look for it, unless it is in a comment or a string (infer_symbol_from_line,
\* line_contains_symbol, sanitize_line).
InferredIsFound ==
  Answered("hover") /\ ~moved /\ call.symbol = <<>> /\ reply.at.symbol # <<>> =>
    LET line  == LinesOf(TextOf(reply.read))[reply.at.row]
        place == SymbolPlace(line, Max({1, call.column}))
        clean == SanitizedLines(TextOf(reply.read))[reply.at.row]
        shown == SubSeq(clean, place[1], Min({place[2], Len(clean)}))
                   = SubSeq(line, place[1], place[2])
    IN /\ ContainsSymbol(line, reply.at.symbol)
       /\ shown => ContainsSymbol(clean, reply.at.symbol)

\* What is left of a line has no comments and no strings: scanned again, it stays
\* as it is (sanitize_line).
SanitizedIsClean ==
  call.tool = "locate" =>
    \A f \in DOMAIN tree.files : \A line \in ToSet(SanitizedLines(tree.files[f].text)) :
      /\ "\"" \notin ToSet(line)
      /\ Masked(line, Mask(line, 0)) = line

\* The line that locate has found for a name is a line with that name for hover, too,
\* if the text starts the file (collect_symbol_matches, load_cached_doc).
HoverAtLocated ==
  Answered("locate") /\ ~moved /\ (\A c \in ToSet(call.symbol) : IsSymbolChar(c)) =>
    \A h \in ToSet(reply.hits) :
      At(tree.files[h.file].text, 1) \notin White =>
        ContainsSymbol(LinesOf(TextOf(h.file))[h.line], call.symbol)

\* For every file: hover takes the "1-based line number" of the file it is
\* given (HoverArgs, collect_symbol_matches, load_cached_doc).
LineIsOfTheFile ==
  Answered("hover") /\ ~moved =>
    LET raw == LinesOf(tree.files[reply.read].text) IN
    call.line <= Len(raw) /\ ~OnlyWhite(raw[call.line]) =>
      Trim(raw[call.line]) = Trim(LinesOf(TextOf(reply.read))[reply.at.row])

\* A snippet is a window of at most its size into the chunk, that shows the match of
\* one word; it is cut out without a panic unless the text is longer in lower case
\* (make_snippet).
SnippetShowsMatch ==
  LET Grows(text) == Len(LowerText(text)) # Len(text) IN
  /\ reply.outcome = "panicked" /\ ~moved => Grows(TextOf(reply.read))
  /\ Answered("hover") /\ reply.at.match # "none" /\ ~Grows(reply.at.chunk.text)
       /\ ToSet(reply.at.symbol) \cap White = {} =>
       LET from == reply.at.snippet[1]
           to   == reply.at.snippet[2]
       IN /\ to - from <= Max({1, SnippetChars})
          /\ \E i \in Places(LowerText(reply.at.chunk.text), LowerText(reply.at.symbol)) :
               from < i /\ i <= to
=============================================================================
