SPECIFICATION FairSpec
CONSTANTS
  Workers = {w1, w2}
  Producers = {p1}
  Jobs = {j1, j2}
  NULL = NULL
  Garbage = Garbage
INVARIANTS TypeOK Conservation DeadRingUntouched NoSharedSlot
PROPERTIES ServesJobs WorkersExit
CHECK_DEADLOCK FALSE
