\* A session, two requests at once, every mode, restarts.
CONSTANTS
  s1 = s1  s2 = s2  r1 = r1  r2 = r2
  Sessions = {s1}
  Slots = {r1, r2}
  Blank = Blank
  MaxEvents = 2
  Environments <- MCEnvironments
  ManagerFails = TRUE
SPECIFICATION Spec
SYMMETRY Interchangeable
INVARIANTS GoneIsGone NothingLostOrRepeated TypeOK
