-------------------------------- MODULE Lines --------------------------------
(***************************************************************************)
(* What the tools read out of the text of a document: its lines, the line  *)
(* of a position, the symbol at a position, the lines that name a symbol,  *)
(* and the snippet that is shown (src/src/search/indexing.rs,              *)
(* src/src/search/runtime.rs).  A text is a sequence of characters; the    *)
(* offsets and line numbers of the code are kept: offsets count from 0,    *)
(* lines and columns from 1.                                               *)
(***************************************************************************)
EXTENDS Integers, Sequences, FiniteSets, FiniteSetsExt, SequencesExt

CONSTANTS
  Ident,        \* letters, digits, "_" and "'"
  Lowered,      \* the characters that a character is in lower case
  Keywords,     \* keywords of a definition, in lower case
  ChunkChars,   \* chunk_max_chars
  ChunkOverlap, \* chunk_overlap
  SnippetChars  \* snippet_max_chars

ASSUME LinesAssumption ==
  /\ ChunkChars \in Nat \ {0} /\ ChunkOverlap \in 0..(ChunkChars - 1)
  /\ SnippetChars \in Nat
  /\ "" \notin DOMAIN Lowered
  /\ \A c \in DOMAIN Lowered :
       /\ Lowered[c] \in Seq(DOMAIN Lowered) \ {<<>>}
       /\ c \notin {" ", "\n"} => ToSet(Lowered[c]) \cap {" ", "\n"} = {}
  /\ Ident \cap {"", " ", "\n", ".", "\"", "\\", "/", "*", "-", "(", ")"} = {}

White == {" ", "\n"}

At(text, i) == IF i \in DOMAIN text THEN text[i] ELSE ""
OnlyWhite(text) == ToSet(text) \subseteq White

Trim(text) ==
  LET kept == {i \in DOMAIN text : text[i] \notin White} IN
  IF kept = {} THEN <<>> ELSE SubSeq(text, Min(kept), Max(kept))

\* The numbers of S from the least to the greatest.
InOrder(S) ==
  [k \in 1..Cardinality(S) |-> CHOOSE i \in S : Cardinality({j \in S : j <= i}) = k]

-----------------------------------------------------------------------------
(* Lines and positions *)

Breaks(text) == InOrder({i \in DOMAIN text : text[i] = "\n"})

\* compute_line_starts
LineStarts(text) == <<0>> \o Breaks(text)

\* str::lines: what follows the last break counts if it is not empty.
LinesOf(text) ==
  LET breaks == Breaks(text)
      from == <<1>> \o [i \in DOMAIN breaks |-> breaks[i] + 1]
      to == breaks \o <<Len(text) + 1>>
      open == IF At(text, Len(text)) \in {"\n", ""} THEN 0 ELSE 1
  IN [i \in 1..(Len(breaks) + open) |-> SubSeq(text, from[i], to[i] - 1)]

\* The binary search of line_for_offset.
LineForOffset(starts, offset) ==
  LET search[low \in 0..Len(starts), high \in 0..Len(starts)] ==
        LET mid == (low + high) \div 2 IN
        IF low + 1 >= high THEN low + 1
        ELSE IF starts[mid + 1] <= offset THEN search[mid, high] ELSE search[low, mid]
  IN search[0, Len(starts)]

OffsetForPosition(lines, starts, line, column) ==
  starts[line] + Min({column - 1, Len(lines[line])})

\* build_line_context_from_cached
LineContext(lines, starts, start, end, around) ==
  LET first == LineForOffset(starts, start)
      last  == LineForOffset(starts, Max({end - 1, start}))
  IN [line_start |-> first, line_end |-> last,
      context_start |-> Max({1, first - around}),
      context_end |-> Min({Len(lines), last + around})]

\* chunk_text: chunks of ChunkChars characters, each ChunkOverlap of them in the
\* one before.
ChunkText(text) ==
  LET step == ChunkChars - ChunkOverlap
      count == IF Len(text) <= ChunkChars THEN 1
               ELSE 1 + ((Len(text) - ChunkChars + step - 1) \div step)
  IN [k \in 1..count |->
        LET start == (k - 1) * step
            end == Min({Len(text), start + ChunkChars})
        IN [index |-> k - 1, start |-> start, end |-> end,
            text |-> SubSeq(text, start + 1, end)]]

\* The first chunk that has the position, else the last one that starts before.
ChunkForOffset(chunks, offset) ==
  LET before == {k \in DOMAIN chunks : chunks[k].start <= offset}
      around == {k \in before : offset < chunks[k].end}
  IN IF around # {} THEN chunks[Min(around)]
     ELSE IF before # {} THEN chunks[Max(before)] ELSE chunks[1]

-----------------------------------------------------------------------------
(* Symbols *)

IsSymbolChar(c) == c \in Ident \cup {"."}

\* The longest stretch around i of characters in S, as positions.
Stretch(text, i, S) ==
  LET outside == {j \in DOMAIN text : text[j] \notin S}
  IN <<Max({0} \cup {j \in outside : j < i}) + 1,
       Min({Len(text) + 1} \cup {j \in outside : j > i}) - 1>>

\* trim_matches of everything that is not in S.
Within(text, S) ==
  LET kept == {i \in DOMAIN text : text[i] \in S} IN
  IF kept = {} THEN <<>> ELSE SubSeq(text, Min(kept), Max(kept))

\* The stretch that infer_symbol_from_line takes: at the column, or just before.
SymbolPlace(line, column) ==
  LET col  == Min({column, Len(line)})
      back == ~IsSymbolChar(At(line, col)) /\ IsSymbolChar(At(line, col - 1))
      at   == IF back THEN col - 1 ELSE col
  IN IF IsSymbolChar(At(line, at)) THEN Stretch(line, at, Ident \cup {"."}) ELSE <<>>

InferSymbol(line, column) ==
  LET place == SymbolPlace(line, column) IN
  IF place = <<>> THEN <<>> ELSE Within(SubSeq(line, place[1], place[2]), Ident)

\* The scan of sanitize_line: which characters are kept, where the line is cut, and
\* whether a comment goes on.  A comment has no comments in it; a string ends with its
\* line.
InComment(line, s, i) ==
  IF line[i] = "*" /\ At(line, i + 1) \in {"/", ")"}
  THEN [s EXCEPT !.next = i + 2, !.depth = @ - 1] ELSE [s EXCEPT !.next = i + 1]

InString(line, s, i) ==
  IF line[i] = "\\" \/ (line[i] = "\"" /\ At(line, i + 1) = "\"")
  THEN [s EXCEPT !.next = i + 2]
  ELSE IF line[i] = "\"" THEN [s EXCEPT !.next = i + 1, !.string = FALSE]
  ELSE [s EXCEPT !.next = i + 1]

OpensComment(c, d) == c \in {"/", "("} /\ d = "*"
CutsLine(c, d) == c \in {"-", "/"} /\ d = c

InCode(line, s, i) ==
  IF OpensComment(line[i], At(line, i + 1)) THEN [s EXCEPT !.next = i + 2, !.depth = @ + 1]
  ELSE IF CutsLine(line[i], At(line, i + 1)) THEN [s EXCEPT !.next = Len(line) + 1, !.end = i - 1]
  ELSE IF line[i] = "\"" THEN [s EXCEPT !.next = i + 1, !.string = TRUE]
  ELSE [s EXCEPT !.next = i + 1, !.kept = @ \cup {i}]

Scan(line, s, i) ==
  IF i < s.next THEN s
  ELSE IF s.depth > 0 THEN InComment(line, s, i)
  ELSE IF s.string THEN InString(line, s, i)
  ELSE InCode(line, s, i)

Mask(line, depth) ==
  LET scan[i \in 0..Len(line)] ==
        IF i = 0
        THEN [kept |-> {}, depth |-> depth, string |-> FALSE, next |-> 1, end |-> Len(line)]
        ELSE Scan(line, scan[i - 1], i)
  IN scan[Len(line)]

\* Mutant: a string is cut out and closed up.
MaskedClosedUp(line, mask) ==
  SelectSeq([i \in 1..mask.end |-> IF i \in mask.kept THEN line[i] ELSE ""],
            LAMBDA c : c # "")

\* What is not kept becomes blank.
Masked(line, mask) ==
  [i \in 1..mask.end |-> IF i \in mask.kept THEN line[i] ELSE " "]

\* The lines of a text without their comments and strings.
SanitizedLines(text) ==
  LET lines == LinesOf(text)
      depth[k \in 0..Len(lines)] == IF k = 0 THEN 0 ELSE Mask(lines[k], depth[k - 1]).depth
  IN [k \in DOMAIN lines |-> Masked(lines[k], Mask(lines[k], depth[k - 1]))]

Places(line, symbol) ==
  {i \in 1..(Len(line) - Len(symbol) + 1) :
     SubSeq(line, i, i + Len(symbol) - 1) = symbol}

Delimited(line, symbol, i) ==
  At(line, i - 1) \notin Ident /\ At(line, i + Len(symbol)) \notin Ident

\* Mutant: only the first occurrence is looked at.
ContainsSymbolFirst(line, symbol) ==
  Places(line, symbol) # {} /\ Delimited(line, symbol, Min(Places(line, symbol)))

\* line_contains_symbol goes on behind an occurrence that is part of a longer one.
ContainsSymbol(line, symbol) ==
  LET from[i \in 1..(Len(line) + 1)] ==
        LET later == {p \in Places(line, symbol) : p >= i} IN
        later # {} /\ \/ Delimited(line, symbol, Min(later))
                      \/ from[Min(later) + Len(symbol)]
  IN from[1]

LowerText(text) == FlattenSeq([i \in DOMAIN text |-> Lowered[text[i]]])

Tokens(line) ==
  LET first == InOrder({i \in DOMAIN line : line[i] \notin White
                          /\ At(line, i - 1) \in White \cup {""}})
  IN [k \in DOMAIN first |->
        SubSeq(line, first[k],
               Min({Len(line) + 1} \cup {j \in DOMAIN line : j > first[k] /\ line[j] \in White})
                 - 1)]

Normalized(token) == Within(token, Ident \cup {"."})

\* definition_kind_for_line: a keyword among the three tokens before the symbol.
IsDefinition(line, symbol) ==
  /\ ContainsSymbol(line, symbol)
  /\ LET tokens == Tokens(line) IN
     \E i \in DOMAIN tokens :
       /\ Normalized(tokens[i]) = symbol
       /\ \E j \in Max({1, i - 3})..(i - 1) : LowerText(Normalized(tokens[j])) \in Keywords

Kind(line, symbol) == IF IsDefinition(line, symbol) THEN "definition" ELSE "reference"

\* Mutant: lines without code are not counted.
NamingOfCode(text, symbol) ==
  LET lines == SelectSeq(SanitizedLines(text), LAMBDA line : ~OnlyWhite(line))
      named == InOrder({i \in DOMAIN lines : ContainsSymbol(lines[i], symbol)})
  IN [k \in DOMAIN named |-> [line |-> named[k], kind |-> Kind(lines[named[k]], symbol)]]

\* The lines of a text that name a symbol, in order (collect_symbol_matches,
\* find_symbol_match).
Naming(text, symbol) ==
  LET lines == SanitizedLines(text)
      named == InOrder({i \in DOMAIN lines : ~OnlyWhite(lines[i])
                          /\ ContainsSymbol(lines[i], symbol)})
  IN [k \in DOMAIN named |-> [line |-> named[k], kind |-> Kind(lines[named[k]], symbol)]]

-----------------------------------------------------------------------------
(* Snippets *)

\* Mutant: the window starts at the match.
SnippetFromMatch(text, query) ==
  LET lower == LowerText(text)
      found == {i \in DOMAIN lower : \E t \in ToSet(Tokens(LowerText(query))) :
                  i \in Places(lower, t)}
      at == IF found = {} THEN 0 ELSE Min(found)
  IN <<at, Min({Len(text), at + SnippetChars})>>

\* make_snippet: the window as offsets.  Its place is counted in the text in
\* lower case, which may be longer: then it may start behind its end.
Snippet(text, query) ==
  LET size == Max({1, SnippetChars})
      lower == LowerText(text)
      terms == Tokens(LowerText(query))
      found == {k \in DOMAIN terms : Places(lower, terms[k]) # {}}
      at == IF found = {} THEN 0 ELSE Min(Places(lower, terms[Min(found)])) - 1
      start == Max({0, at - size \div 2})
  IN IF Len(text) <= size THEN <<0, Len(text)>>
     ELSE <<start, Min({start + size, Len(text)})>>
=============================================================================
