SPECIFICATION Spec
CONSTANTS
  Drafts = {d1, d2}
  Admins = {a1, a2}
  Consumers = {w1}
  Episodes = {e1, e2, e3, e4}
  MaxDeliveries = 2
  MaxFaults = 1
  HandlersBreak = TRUE
  None = None
SYMMETRY Symmetry
INVARIANT TypeOK AudioIsThere EpisodesAreAccountedFor
PROPERTY KeepsToLife
