------------------------------- MODULE MCSearch -------------------------------
(* A small corpus for model checking SearchTool. *)
EXTENDS SearchTool

\* A directory named like a mount, and a mount.
MCSources == {"local-a", "local-b"}
MCNames == MCSources \cup {"local", "LOCAL", "Local-B", "other"}
MCLower == [n \in MCNames |-> CASE n = "LOCAL" -> "local" [] n = "Local-B" -> "local-b"
                                [] OTHER -> n]
MCSourceOf == [d \in {"da", "db"} |-> IF d = "da" THEN "local-a" ELSE "local-b"]

MCWalk == <<"da", "db">>

MCTexts == {"short", "long"}
MCChunks == [short |-> <<{"x"}>>, long |-> <<{"y"}, {"x", "y"}>>]
MCOccurrences == [short |-> <<[symbol |-> "x_y", defines |-> FALSE]>>,
                  long |-> <<[symbol |-> "X_Y", defines |-> TRUE],
                             [symbol |-> "X_Y", defines |-> FALSE]>>]

MCQuestions == {"x_y", "x y", "def:X_Y", "def:", "ref:X_Y", "cafe", ""}
MCQueries == MCQuestions \cup {"X_Y", "x", "X", "y", "Y"}
MCWords == [q \in MCQueries |->
  CASE q \in {"x_y", "x y", "X_Y"} -> {"x", "y"}
    [] q \in {"x", "X"} -> {"x"}
    [] q \in {"y", "Y"} -> {"y"}
    [] OTHER -> {}]
MCShortcut == [q \in MCQueries |->
  CASE q \in {"def:X_Y", "def:"} -> "def" [] q = "ref:X_Y" -> "ref" [] OTHER -> ""]
MCSubject == [q \in MCQueries |-> IF q \in {"def:X_Y", "ref:X_Y"} THEN {"X_Y"} ELSE {}]
MCWidths == [q \in MCQueries |->
  CASE q = "" -> <<>> [] q = "cafe" -> <<1, 1, 1, 2>> [] q \in {"def:X_Y", "ref:X_Y"} -> <<1, 1, 1, 1, 1, 1, 1>>
    [] q = "def:" -> <<1, 1, 1, 1>> [] OTHER -> <<1, 1, 1>>]
MCLowerQuery == [q \in MCQueries |-> CASE q = "X_Y" -> "x_y" [] OTHER -> q]
MCIdentifiers == {"x_y", "X_Y", "x", "y", "X", "Y"}
MCMultiToken == {"x y", "x_y", "X_Y"}
MCVariants == [q \in MCQueries |-> CASE q = "x y" -> <<"x_y">>
                                     [] OTHER -> <<>>]
MCCaseVariants == [q \in MCQueries |->
  CASE q = "x_y" -> <<"x_y", "X_Y">> [] q = "x" -> <<"x", "X">>
    [] q = "y" -> <<"y", "Y">>
    [] OTHER -> <<q>>]
MCTokens == [q \in MCQueries |-> CASE q = "x y" -> <<"x", "y">>
                                  [] OTHER -> <<>>]

Both(a, b) == [d \in {"da", "db"} |-> IF d = "da" THEN a ELSE b]
MCCorpora ==
  {[file |-> Both("short", "long"), indexed |-> Both("short", "long"),
    embedded |-> Both("short", "long")],
   [file |-> Both("long", "short"), indexed |-> Both("short", "gone"),
    embedded |-> Both("gone", "long")],
   [file |-> Both("big", "long"), indexed |-> Both("long", "short"),
    embedded |-> Both("short", "short")],
   [file |-> Both("blank", "gone"), indexed |-> Both("gone", "long"),
    embedded |-> Both("gone", "long")]}

MCFilters == {<<{}, {}>>, <<{" "}, {"LOCAL"}>>, <<{"Local-B"}, {"local-a"}>>,
              <<{"local-b", "other"}, {}>>}

\* Every mode with every filter; no context, the parser's syntax and a limit of zero
\* in fewer combinations.
MCRequests ==
  {r \in [mode : Modes \cup {"auto"}, kind : {"literal", "tantivy"},
          sources : {f[1] : f \in MCFilters}, source : {f[2] : f \in MCFilters},
          context : BOOLEAN, limit : {0, 2}] :
     /\ <<r.sources, r.source>> \in MCFilters
     /\ r.kind = "tantivy" => r.sources = {} /\ ~r.context /\ r.limit = 2
     /\ ~r.context => r.source = {}
     /\ r.limit = 0 => r.context /\ r.kind = "literal" /\ r.sources = {}
     /\ r.mode = "auto" => r.source = {} /\ r.context
     /\ r.mode = "semantic" => r.context}
=============================================================================
