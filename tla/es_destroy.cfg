SPECIFICATION FairSpec
CONSTANTS
  Callers = {a1}
  Requests = {r1, r2}
  NSlots = 2
  NULL = NULL
  MaxLinkFaults = 0
  MaxGarbled = 0
  MaxMallocFails = 1
  MaxWaits = 1
  MayDestroy = TRUE
INVARIANT QuietShutdown
PROPERTIES DestroyReturns StagesEnd
CHECK_DEADLOCK FALSE
