\* Crashes, restarts, rebuilds, refreshes and every kind of edit.
CONSTANTS
  MaxVersion = 3
  MaxTime = 3
  KeepsMtime = TRUE
SPECIFICATION Spec
INVARIANTS FreshUnlessHidden ReportedSurvives SummarySurvives TypeOK
PROPERTY NeverGoesBack
