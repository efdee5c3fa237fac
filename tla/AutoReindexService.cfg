\* The deployed server: three calls of spark.reindex, nobody calls schedule.
CONSTANTS
  c1 = c1  c2 = c2  c3 = c3  s1 = s1
  Calls = {c1, c2, c3}
  Schedulers = {}
  Names <- MCNames
  Known <- MCKnown
  Scope <- MCScope
  Debounce = 1
  MaxGen = 4
  MaxEdits = 1
SPECIFICATION Spec
INVARIANTS AnswerFresh FailClosed TypeOK
PROPERTY ImplementsService
CHECK_DEADLOCK FALSE
