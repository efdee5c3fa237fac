\* Only plain edits: a counterexample needs nothing unusual of the files.
CONSTANTS
  MaxVersion = 2
  MaxTime = 3
  KeepsMtime = FALSE
SPECIFICATION Spec
INVARIANT OpenedOrBuilt
