\* Two processes, in turn and at once, killed at every point.
CONSTANTS
  p1 = p1  p2 = p2
  Procs = {p1, p2}
  Settings = {"minilm", "bge"}
  Params = {"m16"}
  MaxVersion = 2
  Count <- MCCount
  Configs <- MCConfigs
SPECIFICATION Spec
SYMMETRY Interchangeable
INVARIANTS TypeOK ServesAsConfigured DiskAgrees
PROPERTY PreparedIsServed
