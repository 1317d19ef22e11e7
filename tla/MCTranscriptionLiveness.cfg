SPECIFICATION MCSpec
CONSTANTS
  Calls = {c1}
  DraftCalls = {c1}
  Workers = {w1}
  Jobs = {j1, j2}
  Leases = {l1, l2}
  LeaseTicks = 1
  StaleTicks = 1
  MaxDeliveryAttempts = 2
  MaxFaults = 1
  None = None
  Manual = Manual
PROPERTY JobsSettle
CHECK_DEADLOCK FALSE
