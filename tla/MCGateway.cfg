CONSTANTS
    MaxBytes = 21
    MaxRecord = 2
    RecordBytes = 1
    MaxExecutions = 2
    MaxTransfers = 2
    MaxProbing = 2
    MaxFailures = 2
    Targets = {"a", "b"}
    MaxGenerations = 3
    DaemonFailures = 2
    MaxUpdates = 1
    MaxWork = 1
    Registries <- CheckedRegistries
    Names <- CheckedNames
    LocalRoots = {"docs"}
    Executables = {"putty", "tailscale"}
    Groups = {"g"}
    CheckLimit = 2
    AccessClientLimit = 3
    OperationLimit = 2
    DockerLimit = 4
SPECIFICATION AllSpec
INVARIANTS
    ClosingRecordsFit
    GenerationInUse
    StopIsComplete
PROPERTIES
    EveryStopEnds
    RightsAsListed
CHECK_DEADLOCK FALSE
