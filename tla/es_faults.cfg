SPECIFICATION Spec
CONSTANTS
  Callers = {a1}
  Requests = {r1, r2, r3}
  NSlots = 2
  NULL = NULL
  MaxLinkFaults = 1
  MaxGarbled = 1
  MaxMallocFails = 1
  MaxWaits = 1
  MayDestroy = FALSE
INVARIANTS Accounting RingOrder InOrderUntilLoss
CHECK_DEADLOCK FALSE
