SPECIFICATION Spec
CONSTANTS
  Sources <- MCSources
  Local = "local"
  LocalNames <- MCLocalNames
  Labels <- MCLocalNames
  Names <- MCNames
  Blank = ""
  Lower <- MCLower
  Indexable <- MCMarkdown
  Markdown <- MCMarkdown
  WithMd <- MCWithMd
  Skipped = {"target", "data", "corpus"}
  Dotted = {"..", "a..md", "...md"}
  CorpusDir <- MCCorpusDir
  WorkspaceRoot = "ws"
  Included <- MCIncluded
  LabelOf <- MCLabelOf
  Cwd <- MCCwd
  Ident <- MCIdent
  Lowered <- MCLowered
  Keywords <- MCKeywords
  ChunkChars = 4
  ChunkOverlap = 1
  SnippetChars = 2
  Trees <- MCTrees
  Becomes <- MCBecomes
  Calls <- MCCalls
  Number <- MCNumber
  Alias <- MCAlias
  Hyphened = {"local-spark", "local-rust", "LOCAL-SPARK", "x-y"}
  FullAllowed = {TRUE, FALSE}
INVARIANTS
  ServedIsInside
  IdLeadsBack
  HoverIsOfTheFile
  ReasonIsTrue
  ReindexScope
  InferredIsFound
  SanitizedIsClean
  HoverAtLocated
  SnippetShowsMatch
  TypeOK
