---------------------------- MODULE SourceFilters ----------------------------
(***************************************************************************)
(* Which documents a source filter selects.  The code has four readings of *)
(* it: the names a tool call accepts (resolve_source_filter in             *)
(* src/src/tools.rs), the clause of a lexical query, the test on a         *)
(* semantic record (src/src/search/runtime.rs, query.rs) and the test of a *)
(* file that is walked (query.rs).                                         *)
(*                                                                         *)
(* A source is the label of a mount or a directory of the default corpus.  *)
(* A filter is the set of names the joined string holds, {} for no filter. *)
(***************************************************************************)
EXTENDS FiniteSets, Sequences

CONSTANTS
  Sources,     \* sources the corpus can have
  Local,       \* the name "local", which may also be the name of a directory
  LocalNames,  \* the sources whose name starts with "local-"
  Labels,      \* the sources that are labels of mounts
  Names,       \* names a caller may write, as he writes them
  Blank,       \* a value with no name in it
  Lower        \* a name in lower case

ASSUME SourceFiltersAssumption ==
  /\ IsFiniteSet(Sources)
  /\ LocalNames \subseteq Sources \ {Local}
  /\ Labels \subseteq Sources
  /\ Sources \cup {Local} \subseteq Names
  /\ Blank \notin Names
  /\ Lower \in [Names -> Names]
  /\ Lower[Local] = Local

-----------------------------------------------------------------------------
(* Names a call accepts *)

Given(values) == {v \in values : v # Blank}

IsLocal(name)  == Lower[name] = Local
HasLocal(available) ==
  \E s \in available : IsLocal(s) \/ s \in LocalNames

\* The list in `sources` is what counts, unless it holds nothing.
RequestedNames(sources, source) ==
  IF Given(sources) # {} THEN Given(sources) ELSE Given(source)

Known(name, available) ==
  IF IsLocal(name) THEN HasLocal(available)
  ELSE \E s \in available : Lower[s] = Lower[name]

UnknownSources(sources, source, available) ==
  {n \in RequestedNames(sources, source) : ~Known(n, available)}

\* Sources that differ in case only are one to it: the first of them.
ResolveSourceFilter(sources, source, available) ==
  {IF IsLocal(n) THEN Local
   ELSE CHOOSE s \in available : Lower[s] = Lower[n] :
     n \in RequestedNames(sources, source)}

-----------------------------------------------------------------------------
(* Documents a filter selects *)

LocalMounts == LocalNames \cap Labels

\* build_source_filter_query
LexicalSelects(filter, source) ==
  \/ filter = {}
  \/ \E n \in filter :
       IF n = Local
       THEN source \in (IF LocalMounts = {} THEN {Local} ELSE LocalMounts)
       ELSE source = n

\* doc_id_matches_source: the filter as a whole is one name.
SemanticSelects(filter, source) == filter = {} \/ filter = {source}

\* matches_source_filter
LocateSelects(filter, source) ==
  \/ filter = {}
  \/ \E n \in filter : IF n = Local THEN source \in LocalNames ELSE source = n

\* What the tools say a filter means: these names, and "local" for every source
\* of the workspace.
Meant(filter, source) ==
  \/ filter = {}
  \/ source \in filter
  \/ Local \in filter /\ source \in LocalNames
=============================================================================
