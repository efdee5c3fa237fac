\* Every environment, edits and rebuilds around a running gate.
CONSTANTS
  MaxVersion = 2
  MaxTime = 3
  MaxGates = 2
  Validity = 1
  Defects = {"manifest"}
  Environments <- MCEnvironments
SPECIFICATION Spec
INVARIANTS TypeOK StrictIsGated PassedWasTested
