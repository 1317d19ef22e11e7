SPECIFICATION Spec
CONSTANTS
  Calls = {c1}
  DraftCalls = {c1}
  Workers = {w1}
  Jobs = {j1}
  Leases = {l1}
  LeaseTicks = 1
  StaleTicks = 1
  MaxDeliveryAttempts = 2
  MaxFaults = 0
  None = None
  Manual = Manual
PROPERTY TypedDraftSurvives
CHECK_DEADLOCK FALSE
