------------------------------ MODULE SearchTool ------------------------------
(***************************************************************************)
(* The tool spark.search (src/src/tools.rs): how a question is read, which *)
(* search answers it, and what is tried when that finds nothing.           *)
(***************************************************************************)
EXTENDS Search

CONSTANTS
  Questions,     \* the queries a client asks; the others are variants of them
  Shortcut,      \* "def" or "ref" if a query has that prefix, "" otherwise
  Subject,       \* the symbol after the prefix, {} if there is none
  Widths,        \* the bytes of each character of a query
  LowerQuery,    \* a query in lower case
  Identifiers,   \* is_identifier_like_query
  MultiToken,    \* queries of two tokens or more
  Variants,      \* literal_multi_token_variants
  CaseVariants,  \* identifier_case_variants
  Tokens,        \* the identifiers among the words of a query
  Corpora,       \* files and indexes a call may find
  Requests       \* what else clients ask for: mode, kind, sources, context, limit

ASSUME SearchToolAssumption ==
  /\ Questions \subseteq Queries
  /\ Requests \subseteq
       [mode : Modes \cup {"auto"}, kind : {"literal", "tantivy"},
        sources : SUBSET (Names \cup {Blank}), source : SUBSET (Names \cup {Blank}),
        context : BOOLEAN, limit : Nat]
  /\ {Variants, CaseVariants, Tokens} \subseteq [Queries -> Seq(Queries)]
  /\ Subject \in [Queries -> SUBSET Queries]
  /\ \A c \in Corpora : /\ c.file \in [Docs -> Contents]
                        /\ {c.indexed, c.embedded} \subseteq [Docs -> Texts \cup {"gone"}]

VARIABLE plan   \* what is left to try

vars == <<corpus, call, progress, seen, evicted, plan>>

NoCall == [asked |-> "", query |-> "", op |-> "search", mode |-> "lexical",
           kind |-> "literal", filter |-> {}, context |-> FALSE, limit |-> 0,
           want |-> "any"]

Ops == {"search", "locate"}
Call == [asked : Queries, query : Queries, op : Ops, mode : Modes,
         kind : {"literal", "tantivy"}, filter : SUBSET (Sources \cup {Local}),
         context : BOOLEAN, limit : Nat, want : {"any", "definition", "reference"}]

TypeOK ==
  /\ file \in [Docs -> Contents]
  /\ indexed \in [Docs -> Texts \cup {"gone"}]
  /\ embedded \in [Docs -> Texts \cup {"gone"}]
  /\ backend \in Backends
  /\ call \in Call \cup {NoCall}
  /\ stage \in Stages
  /\ \A list \in {lexical, semantic, hits} : ToSet(list) \subseteq Hit
  /\ ToSet(todo) \subseteq IF stage = "locate" THEN Docs ELSE Hit
  /\ DOMAIN cache.entries \subseteq Docs /\ ToSet(cache.order) \subseteq Docs
  /\ failure \in Failures
  /\ seen \in [Docs -> SUBSET Contents]
  /\ evicted \subseteq Docs
  /\ \A i \in 1..Len(plan) : plan[i] \in [op : Ops, query : Queries]

\* Calls share nothing but the files and the indexes, which were built from
\* earlier contents of the files: one call is as good as many.
Init ==
  /\ \E c \in Corpora :
       file = c.file /\ indexed = c.indexed /\ embedded = c.embedded
  /\ backend \in Backends
  /\ call = NoCall
  /\ stage = "idle"
  /\ todo = <<>>
  /\ lexical = <<>> /\ semantic = <<>> /\ hits = <<>>
  /\ cache = NewCache(CacheCapacity)
  /\ failure = "none"
  /\ seen = [d \in Docs |-> {file[d]}]
  /\ evicted = {}
  /\ plan = <<>>

-----------------------------------------------------------------------------
(* What is tried *)

Distinct(s) ==
  FlattenSeq([i \in 1..Len(s) |->
                IF \E j \in 1..(i - 1) : s[j] = s[i] THEN <<>> ELSE <<s[i]>>])
Without(s, e) == FlattenSeq([i \in 1..Len(s) |-> IF s[i] = e THEN <<>> ELSE <<s[i]>>])

Tries(op, queries) == [i \in 1..Len(queries) |-> [op |-> op, query |-> queries[i]]]
InEachCase(queries) ==
  Distinct(FlattenSeq([i \in 1..Len(queries) |-> CaseVariants[queries[i]]]))

\* Mutant: an identifier is looked up as it was written only.
FallbacksAsWritten(q, kind) ==
  IF kind = "literal" /\ q \in Identifiers THEN Tries("locate", <<q>>) ELSE <<>>

\* What follows a search that finds nothing, in the order of spark_search.
Fallbacks(q, kind) ==
  CASE kind = "literal" /\ q \in Identifiers -> Tries("locate", CaseVariants[q])
    [] kind = "literal" /\ q \notin Identifiers /\ q \in MultiToken ->
         Tries("search", Without(Variants[q], LowerQuery[q]))
         \o Tries("locate", InEachCase(Variants[q]))
         \o Tries("locate", InEachCase(Tokens[q]))
    [] OTHER -> <<>>

\* Auto is hybrid if it can be; without a semantic index all is lexical.
EffectiveMode(requested) ==
  CASE backend = "none" -> "lexical"
    [] backend # "none" /\ requested = "auto" -> "hybrid"
    [] OTHER -> requested

\* parse_query_shortcut takes the first four bytes, wherever a character ends.
BytesBefore(q, i) == FoldLeft(LAMBDA sum, w : sum + w, 0, SubSeq(Widths[q], 1, i))
CutsCharacter(q) ==
  /\ BytesBefore(q, Len(Widths[q])) >= 4
  /\ \A i \in 1..Len(Widths[q]) : BytesBefore(q, i) # 4

-----------------------------------------------------------------------------
(* A call *)

Accepted(r) == UnknownSources(r.sources, r.source, Sources) = {}

Asked(q, r) ==
  [asked |-> q, query |-> q, op |-> "search", mode |-> EffectiveMode(r.mode),
   kind |-> r.kind, context |-> r.context, limit |-> r.limit, want |-> "any",
   filter |-> ResolveSourceFilter(r.sources, r.source, Sources)]

\* A call that ends before anything is searched.
EndAtOnce(how) ==
  /\ stage' = how
  /\ call' = NoCall
  /\ plan' = <<>>
  /\ Clear
  /\ hits' = <<>>
  /\ failure' = "none"

Search(asked) ==
  /\ Shortcut[asked.query] = ""
  /\ call' = asked
  /\ plan' = Fallbacks(asked.query, asked.kind)
  /\ StartSearch

\* def: and ref: look up a symbol and search nothing.
LookUp(asked) ==
  /\ Shortcut[asked.query] # ""
  /\ \E symbol \in Subject[asked.query] :
       call' = [asked EXCEPT !.query = symbol, !.op = "locate",
                  !.want = IF Shortcut[asked.query] = "def" THEN "definition"
                           ELSE "reference"]
  /\ plan' = <<>>
  /\ StartLocate

\* A call arrives.
Ask(q) ==
  /\ stage = "idle"
  /\ \E r \in Requests :
       \/ /\ \/ Widths[q] = <<>>
             \/ ~Accepted(r)
             \/ Shortcut[q] # "" /\ Subject[q] = {}
          /\ EndAtOnce("answered")
       \/ /\ Widths[q] # <<>>
          /\ Accepted(r)
          /\ IF CutsCharacter(q) THEN EndAtOnce("panicked")
             ELSE Search(Asked(q, r)) \/ LookUp(Asked(q, r))
  /\ seen' = [d \in Docs |-> {file[d]}]
  /\ UNCHANGED corpus

\* Nothing was found and something is left to try.
TryNext ==
  /\ stage = "returned" /\ hits = <<>> /\ plan # <<>>
  /\ call' = [call EXCEPT !.query = Head(plan).query, !.op = Head(plan).op]
  /\ IF Head(plan).op = "search" THEN StartSearch ELSE StartLocate
  /\ plan' = Tail(plan)
  /\ UNCHANGED <<corpus, seen>>

\* The answer: hits, none, or the error of the search.
Answer ==
  /\ \/ stage = "returned" /\ (hits # <<>> \/ plan = <<>>)
     \/ stage = "failed"
  /\ stage' = "answered"
  /\ plan' = <<>>
  /\ Clear
  /\ UNCHANGED <<corpus, call, hits, failure, seen>>

Step ==
  \/ SearchLexical \/ LexicalHit \/ EndLexical
  \/ SearchSemantic \/ SemanticHit \/ EndSemantic
  \/ LocateIn \/ EndLocate

Next ==
  \/ \E d \in Docs : Edit(d) /\ UNCHANGED plan
  \/ Rebuild /\ UNCHANGED plan
  \/ \E q \in Questions : Ask(q)
  \/ Step /\ UNCHANGED plan
  \/ TryNext
  \/ Answer

Spec == Init /\ [][Next]_vars
-----------------------------------------------------------------------------
(* Properties *)

Found == stage \in {"returned", "answered"}
Searched == stage # "locate" /\ call.op = "search"

\* Whatever found it, a hit is of a document the filter means: the clause of the
\* index, the test on records and the test on files never select more
\* (build_source_filter_query, doc_id_matches_source, matches_source_filter).
SourceRespected ==
  \A list \in {lexical, semantic, hits} : \A h \in ToSet(list) :
    Meant(call.filter, SourceOf[h.doc])

\* Hits come best first and no more than asked for; a search lists no chunk
\* twice, and every chunk it lists is one of the text it shows, however the file
\* was cut since it was indexed (search_hybrid, get_chunk_cached).
AnswerWellFormed ==
  Found =>
    /\ \A i \in 1..(Len(hits) - 1) : hits[i].score >= hits[i + 1].score
    /\ Len(hits) <= Max({1, call.limit})
    /\ \A i, j \in 1..Len(hits) :
         call.op = "search" /\ Key(hits[i]) = Key(hits[j]) => i = j
    /\ \A h \in ToSet(hits) : h.chunk < Pieces(h.text)

\* What a search has read from files is of the time of its call, never kept from
\* an earlier one, and hits of one document show one version of it, while files
\* are edited, unless the cache had to drop it in between (DocCache).
OneVersionPerDocument ==
  \A h \in ToSet(lexical) \cup ToSet(semantic) : h.read =>
    /\ h.text \in seen[h.doc]
    /\ \A g \in ToSet(lexical) \cup ToSet(semantic) :
         g.read /\ g.doc = h.doc /\ g.text # h.text => h.doc \in evicted

\* The queue of the cache lists exactly the keys of its map (DocCache::touch,
\* insert).
CacheAgrees == Agrees(cache)

\* A hit that neither the index nor the embeddings put below another, and one of
\* them above it, is not left out of a hybrid answer that has the other, and not
\* put after it; the one that counts for nothing does not decide (search_hybrid).
BetterInBothIsFirst ==
  LET lex(h) == ScoreIn(ToSet(lexical), Key(h))
      sem(h) == ScoreIn(ToSet(semantic), Key(h))
  IN stage = "returned" /\ call.mode = "hybrid" /\ call.op = "search" =>
       \A i \in 1..Len(hits) : \A h \in ToSet(lexical) \cup ToSet(semantic) :
         /\ lex(h) >= lex(hits[i]) /\ sem(h) >= sem(hits[i])
         /\ \/ lex(h) > lex(hits[i]) /\ Weight < 2
            \/ sem(h) > sem(hits[i]) /\ Weight > 0 /\ Best(ToSet(semantic)) > 0
         => \E j \in 1..(i - 1) : Key(hits[j]) = Key(h)

\* The two semantic indexes give the same rankings as long as nothing is
\* filtered by source; with a filter the graph may give less, never more
\* (search_flat, search_hnsw, when the graph finds the nearest).
BackendsAgree ==
  stage = "semantic" =>
    \A score \in [ChunksOf(embedded) -> Scores] :
      LET records == Matches(ChunksOf(embedded), embedded, score)
          flat == SearchFlat(records, SemanticLimit)
          graph == SearchHnsw(records, SemanticLimit)
      IN /\ call.filter = {} => flat = graph
         /\ \A g \in graph : \E f \in flat : Len(g) <= Len(f)

\* An identifier that gets no hits is in no file of the sources asked for, nor is
\* its title case, unless a file was edited meanwhile: the index being behind the
\* files is made up for (spark_search, the parity of search and locate).
EmptyIsExhausted ==
  /\ stage = "answered" /\ failure = "none" /\ hits = <<>>
  /\ call # NoCall /\ call.kind = "literal" /\ call.asked \in Identifiers
  /\ Shortcut[call.asked] = "" /\ call.limit > 0
  /\ \A d \in Docs : seen[d] = {file[d]}
  => \A d \in Docs :
       file[d] \in Texts /\ LocateSelects(call.filter, SourceOf[d]) =>
         \A o \in ToSet(Occurrences[file[d]]) :
           o.symbol \notin ToSet(CaseVariants[call.asked])

\* A literal query is plain text: every one is answered (parse_query_shortcut).
LiteralIsAnswered == stage # "panicked"
=============================================================================
