CONSTANTS
  Sources <- MCSources  Local = "local"  LocalNames <- MCSources  Labels = {"local-b"}
  Names <- MCNames  Blank = " "  Lower <- MCLower
  Walk <- MCWalk  SourceOf <- MCSourceOf  Texts <- MCTexts  Chunks <- MCChunks
  Occurrences <- MCOccurrences  Queries <- MCQueries  Words <- MCWords
  MaxScore = 1  MinScore = 0  Weight = 1  TopK = 2  MaxLimit = 2
  CacheCapacity = 1  Backends = {"none", "flat", "hnsw"}  MaxEdits = 1
  Questions <- MCQuestions  Shortcut <- MCShortcut  Subject <- MCSubject
  Widths <- MCWidths  LowerQuery <- MCLowerQuery  Identifiers <- MCIdentifiers
  MultiToken <- MCMultiToken  Variants <- MCVariants  CaseVariants <- MCCaseVariants
  Tokens <- MCTokens  Corpora <- MCCorpora  Requests <- MCRequests
SPECIFICATION Spec
INVARIANTS SourceRespected AnswerWellFormed OneVersionPerDocument CacheAgrees
  BetterInBothIsFirst BackendsAgree EmptyIsExhausted
  TypeOK
CHECK_DEADLOCK FALSE
