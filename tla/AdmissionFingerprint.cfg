\* Two versions of the tree and one kind of defect are enough.
CONSTANTS
  MaxVersion = 2
  MaxTime = 2
  MaxGates = 2
  Validity = 1
  Defects = {"manifest"}
  Environments <- MCEnvironments
SPECIFICATION Spec
INVARIANT CleanFingerprintIsTrue
