SPECIFICATION Spec
CONSTANTS
  s1 = s1
  s2 = s2
  k1 = k1
  k2 = k2
  v1 = v1
  v2 = v2
  Sections = {s1, s2}
  Keys = {k1, k2}
  Values = {v1, v2}
  NULL = NULL
  Missing = Missing
  InitialFiles <- MCPlainFiles
  MaxSections = 2
  MaxKeyvals = 3
  MaxOps = 1
  MaxCrashes = 0
  MaxFails = 0
INVARIANT EditsAreNodeEdits
CHECK_DEADLOCK FALSE
