------------------------------- MODULE Search -------------------------------
(***************************************************************************)
(* SearchIndex::search and SearchIndex::locate_symbol                      *)
(* (src/src/search/runtime.rs, src/src/search/query.rs).  A search matches *)
(* against an index that was built earlier and then reads, document by     *)
(* document, files that may have been edited since and may be edited while *)
(* it runs; a symbol is looked up in the files themselves.                 *)
(*                                                                         *)
(* The content of a file is one of the Texts, or what keeps it from having *)
(* one.  A text is cut into chunks, of which the words matter, and has     *)
(* occurrences of symbols.  The scores of the index and the similarity of  *)
(* embeddings come from libraries: any positive score, and any similarity. *)
(***************************************************************************)
EXTENDS SourceFilters, DocCaches, Integers, FiniteSetsExt, SequencesExt

CONSTANTS
  Walk,          \* the files, in the order a walk visits them
  SourceOf,      \* the source of a file
  Texts,         \* contents a file can have
  Chunks,        \* the words of each chunk of a text
  Occurrences,   \* the symbols a text names, in order, and which of them it defines
  Queries,       \* what can be looked for
  Words,         \* the words of a query, as the tokenizer of the index cuts it
  MaxScore,      \* bound on scores
  MinScore,      \* semantic.min_score, after its clamp
  Weight,        \* semantic.weight in halves, after its clamp
  TopK,          \* semantic.top_k
  MaxLimit,      \* max_limit, bound on the hits of a search
  CacheCapacity, \* DOC_CACHE_CAPACITY
  Backends,      \* semantic indexes the server may have: "none", "flat", "hnsw"
  MaxEdits       \* bound on the edits during a call

Docs     == ToSet(Walk)
NoText   == {"gone", "blank", "big"}
Contents == Texts \cup NoText
Pieces(t) == Len(Chunks[t])

ASSUME SearchAssumption ==
  /\ IsInjective(Walk) /\ Walk \in Seq(Docs)
  /\ SourceOf \in [Docs -> Sources]
  /\ Texts \cap (NoText \cup {"none", "error"}) = {}
  /\ \A t \in Texts : Pieces(t) \in Nat \ {0} /\ Len(Occurrences[t]) \in Nat
  /\ MaxScore \in Nat /\ MinScore \in Int
  /\ Weight \in 0..2
  /\ TopK \in Nat /\ MaxLimit \in Nat /\ CacheCapacity \in Nat /\ MaxEdits \in Nat
  /\ Backends \subseteq {"none", "flat", "hnsw"}

VARIABLES
  file,       \* the content of each file
  indexed,    \* the content the index has of it, "gone" if it has none
  embedded,   \* the content the semantic index has of it
  backend,    \* the semantic index of this server
  call,       \* what is asked for
  stage,      \* where the search is
  todo,       \* hits it has not read yet, or files it has not walked yet
  lexical,    \* hits of the index
  semantic,   \* hits of the semantic index
  hits,       \* hits of a symbol so far, and in the end the result
  cache,      \* the documents this search has read
  failure,    \* why it failed
  seen,       \* history: contents each file has had since the call began
  evicted     \* history: documents that left the cache during this search

corpus   == <<file, indexed, embedded, backend>>
progress == <<stage, todo, lexical, semantic, hits, cache, failure>>

Modes  == {"lexical", "semantic", "hybrid"}
Stages == {"idle", "lexical", "lexical_hits", "semantic", "semantic_hits",
           "locate", "returned", "failed", "answered", "panicked"}
Failures == {"none", "parse", "embed", "document"}
Scores == -MaxScore..MaxScore

Hit == [doc : Docs, chunk : Nat, score : Int, text : Texts, read : BOOLEAN]

-----------------------------------------------------------------------------
(* Matches *)

Key(h) == <<h.doc, h.chunk>>

ChunksOf(snapshot) ==
  UNION {{d} \X (0..(Pieces(snapshot[d]) - 1)) : d \in {e \in Docs : snapshot[e] \in Texts}}

Matches(chunks, snapshot, score) ==
  {[doc |-> c[1], chunk |-> c[2], score |-> score[c], text |-> snapshot[c[1]],
    read |-> FALSE] : c \in chunks}

AtMost(n, q) == SubSeq(q, 1, Min({n, Len(q)}))

\* The n best elements of S, best first, equal ones in any order.
Ranked(S, n) ==
  {AtMost(n, q) : q \in {p \in SetToSeqs(S) :
     \A i \in 1..(Len(p) - 1) : p[i].score >= p[i + 1].score}}

ClampLimit(limit) == Max({1, Min({limit, MaxLimit})})

\* A query matches the chunks that have one of its words.
LexicalMatches ==
  {c \in ChunksOf(indexed) :
     /\ Words[call.query] \cap Chunks[indexed[c[1]]][c[2] + 1] # {}
     /\ LexicalSelects(call.filter, SourceOf[c[1]])}

\* Mutant: the source is not looked at.
PassesByScore(m) == m.score >= MinScore

Passes(m) ==
  /\ SemanticSelects(call.filter, SourceOf[m.doc])
  /\ m.score >= MinScore

\* search_flat filters the records and then takes the best.
SearchFlat(records, limit) == Ranked({m \in records : Passes(m)}, limit)

\* Mutant: the least score allowed is not enough.
SearchHnswStrict(records, limit) ==
  LET requested == Max({1, Min({limit, Cardinality(records)})})
      above(nearest) == {m \in ToSet(nearest) : Passes(m) /\ m.score > MinScore}
  IN UNION {Ranked(above(nearest), requested) : nearest \in Ranked(records, requested)}

\* search_hnsw takes the nearest records and then filters them.
SearchHnsw(records, limit) ==
  LET requested == Max({1, Min({limit, Cardinality(records)})})
      passing(nearest) == {m \in ToSet(nearest) : Passes(m)}
  IN UNION {Ranked(passing(nearest), requested) : nearest \in Ranked(records, requested)}

SemanticMatches(records, limit) ==
  IF backend = "hnsw" THEN SearchHnsw(records, limit) ELSE SearchFlat(records, limit)

-----------------------------------------------------------------------------
(* Files *)

\* load_cached_doc: a text, none, or an error; for a file that vanishes while
\* it is read either of the two.
Loaded(d) ==
  CASE file[d] \in Texts -> {file[d]}
    [] file[d] = "blank" -> {"none"}
    [] file[d] = "big"   -> {"error"}
    [] file[d] = "gone"  -> {"none", "error"}

\* A file is edited, created, deleted, emptied, or grows beyond max_file_bytes.
Edit(d) ==
  /\ \E content \in Contents \ {file[d]} :
       /\ file' = [file EXCEPT ![d] = content]
       /\ seen' = [seen EXCEPT ![d] = @ \cup {content}]
  /\ stage \notin {"idle", "answered", "panicked"}
  /\ SumFunction([e \in Docs |-> Cardinality(seen'[e]) - 1]) <= MaxEdits
  /\ UNCHANGED <<indexed, embedded, backend, call, progress, evicted>>

\* Mutant: files without a text are indexed, too.
RebuildAll ==
  /\ stage \notin {"idle", "answered", "panicked"}
  /\ indexed' = file
  /\ UNCHANGED <<file, embedded, backend, call, progress, seen, evicted>>

\* A reindex (see SearchIndex), seen from a search: the next one uses it.
Rebuild ==
  /\ stage \notin {"idle", "answered", "panicked"}
  /\ indexed' = [d \in Docs |-> IF file[d] \in Texts THEN file[d] ELSE "gone"]
  /\ UNCHANGED <<file, embedded, backend, call, progress, seen, evicted>>

\* Mutant: a document in the cache is read again.
ReadAgain(d, outcome) ==
  /\ outcome \in Loaded(d)
  /\ cache' = IF outcome \notin Texts THEN cache
              ELSE IF Cached(cache, d) THEN Touch(cache, d) ELSE Insert(cache, d, outcome)
  /\ UNCHANGED evicted

\* DocCache::get_or_load: failures are not kept.
Read(d, outcome) ==
  \/ /\ Cached(cache, d)
     /\ outcome = cache.entries[d]
     /\ cache' = Touch(cache, d)
     /\ UNCHANGED evicted
  \/ /\ ~Cached(cache, d)
     /\ outcome \in Loaded(d)
     /\ IF outcome \in Texts
        THEN /\ cache' = Insert(cache, d, outcome)
             /\ evicted' = evicted \cup Evicts(cache)
        ELSE UNCHANGED <<cache, evicted>>

\* get_chunk_cached gives the chunk of that number in the text as it is now.
HasChunk(outcome, m) == outcome \in Texts /\ m.chunk < Pieces(outcome)
AsRead(m, outcome) == [m EXCEPT !.text = outcome, !.read = TRUE]

-----------------------------------------------------------------------------
(* Searching the index *)

\* What a search works with is its own.
Clear ==
  /\ todo' = <<>>
  /\ lexical' = <<>>
  /\ semantic' = <<>>
  /\ cache' = NewCache(CacheCapacity)
  /\ evicted' = {}

StartSearch ==
  /\ stage' = IF call'.mode = "semantic" THEN "semantic" ELSE "lexical"
  /\ Clear
  /\ hits' = <<>>
  /\ failure' = "none"

Fail(why) ==
  /\ stage' = "failed"
  /\ failure' = why
  /\ hits' = <<>>

\* search_lexical: the query of the parser may be ill-formed.
SearchLexical ==
  /\ stage = "lexical"
  /\ \/ /\ \E score \in [LexicalMatches -> 1..MaxScore] :
             todo' \in Ranked(Matches(LexicalMatches, indexed, score),
                              ClampLimit(call.limit))
        /\ stage' = "lexical_hits"
        /\ UNCHANGED <<hits, failure>>
     \/ /\ call.kind = "tantivy"
        /\ Fail("parse")
        /\ UNCHANGED todo
  /\ UNCHANGED <<corpus, call, lexical, semantic, cache, seen, evicted>>

\* A hit; with context it shows the file, if that has such a chunk.
LexicalHit ==
  /\ stage = "lexical_hits"
  /\ todo # <<>>
  /\ LET m == Head(todo) IN
     IF call.context
     THEN \E outcome \in Texts \cup {"none", "error"} :
            /\ Read(m.doc, outcome)
            /\ lexical' = Append(lexical, IF HasChunk(outcome, m) THEN AsRead(m, outcome)
                                          ELSE m)
     ELSE lexical' = Append(lexical, m) /\ UNCHANGED <<cache, evicted>>
  /\ todo' = Tail(todo)
  /\ UNCHANGED <<corpus, call, stage, semantic, hits, failure, seen>>

EndLexical ==
  /\ stage = "lexical_hits"
  /\ todo = <<>>
  /\ IF call.mode = "lexical"
     THEN stage' = "returned" /\ hits' = lexical
     ELSE stage' = "semantic" /\ UNCHANGED hits
  /\ UNCHANGED <<corpus, call, todo, lexical, semantic, cache, failure, seen, evicted>>

SemanticLimit ==
  IF call.mode = "hybrid" THEN Max({ClampLimit(call.limit), TopK})
  ELSE ClampLimit(call.limit)

\* search_semantic_matches: the query may fail to embed.
SearchSemantic ==
  /\ stage = "semantic"
  /\ \/ /\ \E score \in [ChunksOf(embedded) -> Scores] :
             todo' \in SemanticMatches(Matches(ChunksOf(embedded), embedded, score),
                                       SemanticLimit)
        /\ stage' = "semantic_hits"
        /\ UNCHANGED <<hits, failure>>
     \/ Fail("embed") /\ UNCHANGED todo
  /\ UNCHANGED <<corpus, call, lexical, semantic, cache, seen, evicted>>

\* semantic_matches_to_hits: a document that cannot be read fails the search,
\* one without such a chunk is left out.
SemanticHit ==
  /\ stage = "semantic_hits"
  /\ todo # <<>>
  /\ LET m == Head(todo) IN
     \E outcome \in Texts \cup {"none", "error"} :
       /\ Read(m.doc, outcome)
       /\ IF outcome = "error" THEN Fail("document") ELSE UNCHANGED <<stage, failure, hits>>
       /\ semantic' = IF HasChunk(outcome, m) THEN Append(semantic, AsRead(m, outcome))
                      ELSE semantic
  /\ todo' = Tail(todo)
  /\ UNCHANGED <<corpus, call, lexical, seen>>

\* search_hybrid: what both have found counts for both, scores are relative to
\* the best of each.
Best(S) == Max({0} \cup {h.score : h \in S})
ScoreIn(S, k) == IF \E h \in S : Key(h) = k
                 THEN (CHOOSE h \in S : Key(h) = k).score ELSE 0

\* Mutant: what both have found is there twice.
FusedTwice(L, S) == L \cup S

\* Mutant: what both have found counts for its embedding only.
FusedLastWins(L, S) ==
  {[h EXCEPT !.score = Weight * h.score * Max({1, Best(L)})] : h \in S}
    \cup {[h EXCEPT !.score = (2 - Weight) * h.score * Max({1, Best(S)})] :
            h \in {l \in L : \A s \in S : Key(l) # Key(s)}}

Fused(L, S) ==
  LET norm(best) == Max({1, best})
      score(k) == ScoreIn(L, k) * norm(Best(S)) * (2 - Weight)
                  + (IF Best(S) = 0 THEN 0 ELSE ScoreIn(S, k)) * norm(Best(L)) * Weight
  IN {[h EXCEPT !.score = score(Key(h))] :
        h \in L \cup {s \in S : \A l \in L : Key(l) # Key(s)}}

EndSemantic ==
  /\ stage = "semantic_hits"
  /\ todo = <<>>
  /\ stage' = "returned"
  /\ IF call.mode = "hybrid"
     THEN hits' \in Ranked(Fused(ToSet(lexical), ToSet(semantic)), ClampLimit(call.limit))
     ELSE hits' = semantic
  /\ UNCHANGED <<corpus, call, todo, lexical, semantic, cache, failure, seen,
                 evicted>>

-----------------------------------------------------------------------------
(* Locating a symbol *)

StartLocate ==
  /\ stage' = "locate"
  /\ todo' = IF call'.limit = 0 THEN <<>> ELSE Walk
  /\ lexical' = <<>>
  /\ semantic' = <<>>
  /\ cache' = NewCache(CacheCapacity)
  /\ evicted' = {}
  /\ hits' = <<>>
  /\ failure' = "none"

Wanted(occurrence) ==
  /\ occurrence.symbol = call.query
  /\ CASE call.want = "definition" -> occurrence.defines
       [] call.want = "reference"  -> ~occurrence.defines
       [] OTHER                    -> TRUE

\* collect_symbol_matches: one file of the walk, up to the limit.  The hit names
\* the first chunk whatever the line is in, and scores by its place.
LocateIn ==
  /\ stage = "locate"
  /\ todo # <<>>
  /\ LET d == Head(todo)
         found == IF file[d] \in Texts /\ LocateSelects(call.filter, SourceOf[d])
                  THEN Cardinality({i \in 1..Len(Occurrences[file[d]]) :
                                      Wanted(Occurrences[file[d]][i])})
                  ELSE 0
         all == hits \o [i \in 1..found |->
                  [doc |-> d, chunk |-> 0, score |-> 1 - Len(hits) - i,
                   text |-> file[d], read |-> TRUE]]
     IN /\ hits' = AtMost(call.limit, all)
        /\ todo' = IF Len(all) >= call.limit THEN <<>> ELSE Tail(todo)
  /\ UNCHANGED <<corpus, call, stage, lexical, semantic, cache, failure, seen,
                 evicted>>

EndLocate ==
  /\ stage = "locate"
  /\ todo = <<>>
  /\ stage' = "returned"
  /\ UNCHANGED <<corpus, call, todo, lexical, semantic, hits, cache, failure, seen,
                 evicted>>
=============================================================================
