SPECIFICATION Spec
CONSTANTS
    PoolSizes = {96, 100}
    Requests = {17, 33}
    Files = {3, 4}
    MaxFailed = 0
    MaxProbe = 0
    MaxOps = 6
INVARIANTS NoOverlap OwnedOnce ClosedOnce
CHECK_DEADLOCK FALSE
