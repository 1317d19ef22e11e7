SPECIFICATION QuietSpec
CONSTANTS
  Isolates = {i1}
  Requests = {r1}
  Publishers = {p1}
  MaxVersion = 1
  MaxGeneration = 1
  MaxFaults = 1
  None = None
PROPERTY CurrentContentInTheEnd
CHECK_DEADLOCK FALSE
