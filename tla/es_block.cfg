SPECIFICATION Spec
CONSTANTS
    Callers = {c1, c2, c3}
    NULL = NULL
    Pieces = 3
    EndPiece = 2
    MaxBehind = 2
    MaxFaults = 2
    MayDestroy = TRUE
INVARIANTS OwnAnswer QuietDestroy
 
CHECK_DEADLOCK FALSE
