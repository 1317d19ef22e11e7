SPECIFICATION Spec
CONSTANTS
  Isolates = {i1}
  Requests = {r1, r2}
  Publishers = {p1}
  MaxVersion = 1
  MaxGeneration = 2
  MaxFaults = 0
  None = None
SYMMETRY Symmetry
INVARIANT PrewarmedPageStays
CHECK_DEADLOCK FALSE
