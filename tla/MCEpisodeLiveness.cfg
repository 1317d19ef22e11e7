SPECIFICATION FairSpec
CONSTANTS
  Drafts = {d1, d2}
  Admins = {a1}
  Consumers = {w1}
  Episodes = {e1, e2, e3}
  MaxDeliveries = 2
  MaxFaults = 1
  HandlersBreak = FALSE
  None = None
PROPERTY AudioEnds
