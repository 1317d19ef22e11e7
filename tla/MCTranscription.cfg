SPECIFICATION Spec
CONSTANTS
  Calls = {c1}
  DraftCalls = {c1}
  Workers = {w1, w2}
  Jobs = {j1, j2}
  Leases = {l1, l2, l3}
  LeaseTicks = 1
  StaleTicks = 1
  MaxDeliveryAttempts = 2
  MaxFaults = 1
  None = None
  Manual = Manual
SYMMETRY Symmetry
INVARIANT TypeOK ReadyTextIsOfCurrentJob NoWorkBeforeAudio
PROPERTY UnexpiredLeaseIsKept SettledRowsStay KeepsPromise
CHECK_DEADLOCK FALSE
CONSTRAINT DraftsAreSmall
