SPECIFICATION Spec
CONSTANTS
    Threads = {0, 1}
    Modes = {"default", "threaded"}
    Setups <- MCSetups
    PortArgs <- MCPortArgs
    Truth <- MCTruth
    VersionPorts <- MCVersionPorts
    MAX_RETRY_COUNT = 1
    TIME_OUT = 2
    MaxStray = 1
INVARIANTS JobsOnce ListsSound OpenIsOpen AllRecorded PrefixHosts
PROPERTY ScanEnds
