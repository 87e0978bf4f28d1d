SPECIFICATION Spec
CONSTANTS
    Texts = {"", "s", "s1", "s2", "s3", "s4", "k", "k1", "k2", "v", "v1", "v2", "g"}
    Sections = {"s1", "s2", "s3", "s4"}
    Keys = {"k1", "k2"}
    Values = {"v1", "v2"}
    Size <- MCSize
    MaxString = 4
    MaxPair = 5
    Cut <- MCCut
    Taken <- MCTaken
    Rest <- MCRest
    Garbage = "g"
    InitialFiles <- MCInitialFiles
    MaxOps = 3
    MaxFaults = 1
INVARIANTS TypeOK ReopenAgrees SuccessIsInFile AnyPrefixOpens
PROPERTY OnlyTheTarget
