SPECIFICATION Spec
CONSTANTS
  s1 = s1
  s2 = s2
  k1 = k1
  k2 = k2
  v1 = v1
  v2 = v2
  Sections = {s1, s2}
  Keys = {k1, k2}
  Values = {v1, v2}
  NULL = NULL
  Missing = Missing
  InitialFiles <- MCFiles
  MaxSections = 2
  MaxKeyvals = 3
  MaxOps = 3
  MaxCrashes = 2
  MaxFails = 1
INVARIANTS TypeOK FileMirrorsNodes NothingLost
PROPERTY NotesKept
CHECK_DEADLOCK FALSE
