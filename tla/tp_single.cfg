SPECIFICATION FairSpec
CONSTANTS
  Workers = {w1}
  Producers = {p1, p2}
  Jobs = {j1, j2, j3}
  NULL = NULL
  Garbage = Garbage
PROPERTY ServesJobs
CHECK_DEADLOCK FALSE
