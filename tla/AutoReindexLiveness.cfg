\* Two calls while schedule is called without end.
CONSTANTS
  c1 = c1  c2 = c2  c3 = c3  s1 = s1
  Calls = {c1, c2}
  Schedulers = {s1}
  Names <- MCNames
  Known <- MCKnown
  Scope <- MCScope
  Debounce = 2
  MaxGen = 3
  MaxEdits = 0
SPECIFICATION FairSpec
INVARIANTS NoLostWaiter NoMissedWakeup
PROPERTY CallsSettle
