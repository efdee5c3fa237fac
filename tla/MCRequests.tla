------------------------------ MODULE MCRequests ------------------------------
(***************************************************************************)
(* Instances for TLC: a corpus and a workspace with one document each that *)
(* change into each other (a directory with the name of a label, links out *)
(* and between mounts, a workspace directory that is a link, a file that   *)
(* is gone or too large), and one document with every short text.          *)
(***************************************************************************)
EXTENDS Requests

MCSources    == {"gnat", "local-spark", "local-rust", "top.md"}
MCLocalNames == {"local-spark", "local-rust"}
MCNames == MCSources \cup {"local", "Local", "LOCAL-SPARK", "spark", "x-y", "..", "out",
                           "README.md", "corpus", "ws", "a.md", "l.md", ".", "data"}
MCLower == [n \in MCNames |-> CASE n = "Local" -> "local"
                                [] n = "LOCAL-SPARK" -> "local-spark"
                                [] OTHER -> n]
MCMarkdown == {"a.md", "l.md", "s.md", "top.md", "README.md", "a..md"}
MCWithMd == [n \in {"s", "s.md", "l", "..", "out"} |->
               CASE n \in {"s", "s.md"} -> "s.md" [] n = "l" -> "l.md"
                 [] n = ".." -> "...md" [] OTHER -> "out.md"]
MCLabelOf == [d \in {"spark", "rust"} |-> IF d = "spark" THEN "local-spark" ELSE "local-rust"]
MCAlias == [s \in MCLocalNames |-> IF s = "local-spark" THEN "spark" ELSE "rust"]
MCNumber == [n \in {"0", "1"} |-> IF n = "0" THEN 0 ELSE 1]
MCCwd == <<"ws">>
MCCorpusDir == <<"", "corpus">>
MCIncluded == <<"spark", "rust">>

\* File systems.
Text(t) == [kind |-> "text", text |-> t]
Some(kind) == [kind |-> kind, text |-> <<>>]

Dirs == {<<>>, <<"corpus">>, <<"corpus", "gnat">>, <<"ws">>, <<"ws", "spark">>,
         <<"ws", "spark", "data">>, <<"ws", "spec">>, <<"out">>, <<"out", "spark">>}
Files == (<<"corpus", "gnat", "a.md">> :> Text(<<"a">>))
   @@ (<<"corpus", "top.md">> :> Text(<<"b">>))
   @@ (<<"ws", "spark", "a.md">> :> Text(<<"k", " ", "a">>))
   @@ (<<"ws", "spark", "data", "a.md">> :> Text(<<"a">>))
   @@ (<<"ws", "README.md">> :> Text(<<"b">>))
   @@ (<<"ws", "spec", "s.md">> :> Text(<<"b">>))
   @@ (<<"ws", "spec", "a..md">> :> Text(<<"b">>))
   @@ (<<"out", "a.md">> :> Text(<<"a">>))
   @@ (<<"out", "spark", "a.md">> :> Text(<<"a">>))
NoLinks == [p \in {} |-> <<>>]

Plain == [dirs |-> Dirs, files |-> Files, links |-> NoLinks]
Shadow == [Plain EXCEPT !.dirs = @ \cup {<<"corpus", "local-spark">>},
             !.files = (<<"corpus", "local-spark", "a.md">> :> Text(<<"b">>))
                    @@ (<<"corpus", "local-spark", "top.md">> :> Text(<<"b">>)) @@ @,
             !.links = <<"ws", "spark", "top.md">> :> <<"ws", "spark", "a.md">>]
Linked == [Plain EXCEPT !.links = (<<"ws", "spark", "l.md">> :> <<"out", "a.md">>)
             @@ (<<"ws", "spec", "l.md">> :> <<"out", "a.md">>)
             @@ (<<"ws", "out">> :> <<"out">>)
             @@ (<<"corpus", "gnat", "l.md">> :> <<"ws", "spark", "a.md">>)]
Elsewhere ==
  [Plain EXCEPT
     !.dirs = @ \ {<<"ws", "spark">>, <<"ws", "spark", "data">>},
     !.files = [p \in {q \in DOMAIN Files : SubSeq(q, 1, 2) # <<"ws", "spark">>} |-> Files[p]],
     !.links = <<"ws", "spark">> :> <<"out", "spark">>]
Gone == [Plain EXCEPT !.files = [p \in DOMAIN Files \ {<<"ws", "spark", "a.md">>} |-> Files[p]]]
Grown == [Plain EXCEPT !.files[<<"ws", "spark", "a.md">>] = Some("big"),
                       !.files[<<"corpus", "gnat", "a.md">>] = Text(<<" ">>),
                       !.files[<<"ws", "README.md">>] = Some("binary")]
FileTrees == {Plain, Shadow, Linked, Elsewhere, Gone, Grown}

\* Texts.
UpTo(n, S) == UNION {[1..k -> S] : k \in 1..n}
Texts == UpTo(5, {"a", ".", " ", "\n"}) \cup UpTo(4, {"a", "\"", "/", "*", "-", "\\"})
           \cup UpTo(5, {"k", "a", " "}) \cup UpTo(5, {"a", "b", "I"})
TextTree(t) == [dirs |-> {<<>>, <<"corpus">>, <<"corpus", "gnat">>}, links |-> NoLinks,
                files |-> <<"corpus", "gnat", "a.md">> :> Text(t)]
MCTrees == FileTrees \cup {TextTree(t) : t \in Texts}
MCBecomes(t) == IF t \in FileTrees THEN FileTrees ELSE {}

MCIdent == {"a", "b", "k", "I", "i"}
MCLowered == [c \in MCIdent \cup {" ", "\n", ".", "\"", "/", "*", "-", "\\"} |->
                IF c = "I" THEN <<"i", "i">> ELSE <<c>>]
MCKeywords == {<<"k">>}

\* Calls.
Written ==
  {<<"">>, <<"gnat", "a.md">>, <<"top.md">>, <<"local-spark", "a.md">>,
   <<"LOCAL-SPARK", "a.md">>, <<"local-spark", "">>, <<"local-spark", "top.md">>,
   <<"spark", "a.md">>, <<"x-y", "a.md">>, <<"local", "a.md">>, <<"a.md">>, <<"gnat", "l.md">>,
   <<"local-spark", "l.md">>, <<"local-spark", "..", "README.md">>,
   <<"local-spark", "", "out", "a.md">>, <<"..", "out", "a.md">>,
   <<"local-spark", ".", "data", "a.md">>, <<"gnat">>, <<".">>, <<"local-spark", ".">>,
   <<"gnat", "..">>, <<"", "corpus", "local-spark", "a.md">>, <<"", "corpus", "local-spark", "top.md">>,
   <<"", "ws", "spark", "a.md">>, <<"", "out", "spark", "a.md">>, <<"", "ws", "README.md">>}

Reads ==
  {[tool |-> "read_resource", scheme |-> "doc", path |-> p] : p \in Written}
  \cup {[tool |-> "read_resource", scheme |-> "chunk", path |-> p] :
          p \in {<<"", "gnat", "a.md", "0">>, <<"gnat", "a.md", "1", "">>, <<"gnat", "a.md">>,
                 <<"0">>}}
  \cup {[tool |-> "read_resource", scheme |-> "workspace", path |-> p] :
          p \in {<<"README.md">>, <<"", "README.md">>, <<"spec", "l.md">>, <<"spec", "a..md">>,
                 <<"..", "out", "a.md">>, <<"out", "a.md">>, <<"spark">>, <<"">>}}
  \cup {[tool |-> "read_resource", scheme |-> "spec", path |-> p] :
          p \in {<<"s">>, <<"s.md">>, <<"l">>, <<"">>, <<"..", "out">>}}
  \cup {[tool |-> "list_resources"]}

Reindexes ==
  [tool : {"reindex"}, sources : {{}, {""}, {"Local"}, {"LOCAL-SPARK"}, {"gnat"}, {"x-y"},
     {"local-rust"}, {"local", "gnat"}}, full : BOOLEAN,
   paths : {{}, {<<"">>}, {<<"spark", "a.md">>}, {<<"out", "a.md">>},
            {<<"..", "out">>}, {<<"", "ws">>}}]

\* The third line is one behind the last, or the first of many.
MCLines(t) ==
  IF "\n" \in ToSet(t.files[<<"corpus", "gnat", "a.md">>].text) THEN 1..3 ELSE {1}

MCCalls(t) ==
  IF t \in FileTrees
  THEN {[tool |-> "get_doc", path |-> p] : p \in Written}
       \cup [tool : {"get_chunk"}, path : {<<"gnat", "a.md">>, <<"gnat">>}, chunk : 0..1]
       \cup [tool : {"hover"}, path : Written, line : {1}, column : {1}, symbol : {<<>>}]
       \cup [tool : {"locate"}, symbol : {<<"a">>}, want : {"definition", "reference", "both"},
             filter : {{}, {""}, {"Local"}, {"gnat", "local-spark"}}, limit : {0, 1, 9}]
       \cup Reads \cup Reindexes
  ELSE [tool : {"hover"}, path : {<<"gnat", "a.md">>}, line : MCLines(t), column : 0..4,
        symbol : {<<>>}]
       \cup [tool : {"hover"}, path : {<<"gnat", "a.md">>}, line : {1}, column : {1},
             symbol : {<<"b">>}]
       \cup [tool : {"locate"}, symbol : {<<"a">>, <<"a", ".", "a">>}, want : {"both"},
             filter : {{}}, limit : {9}]
=============================================================================
