SPECIFICATION FairSpec
CONSTANTS
  Callers = {a1, a2}
  Requests = {r1, r2, r3}
  NSlots = 2
  NULL = NULL
  MaxLinkFaults = 0
  MaxGarbled = 0
  MaxMallocFails = 0
  MaxWaits = 1
  MayDestroy = FALSE
INVARIANTS TypeOK MeetOnlyAtMark
 
CHECK_DEADLOCK FALSE
