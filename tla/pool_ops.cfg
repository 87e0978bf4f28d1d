SPECIFICATION Spec
CONSTANTS
  SIZE = 9
  Nodes = {n1, n2}
  Strings <- MCFewStrings
  NULL = NULL
  MaxFlips = 2
  MaxStores = 6
INVARIANTS TypeOK InsideArrays StringsIntact
CHECK_DEADLOCK FALSE
