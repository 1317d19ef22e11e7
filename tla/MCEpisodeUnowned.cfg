SPECIFICATION Spec
CONSTANTS
  Drafts = {d1}
  Admins = {a1}
  Consumers = {w1}
  Episodes = {e1, e2, e3}
  MaxDeliveries = 2
  MaxFaults = 1
  HandlersBreak = TRUE
  None = None
INVARIANT AudioDraftsAreOwned
