CONSTANTS
    a1 = a1  a2 = a2
    Attempt <- OneAttempt
    MaxRevision = 3
    MaxTurns = 1
    Capacity = 2
    BatchSize = 1
    MaxRetries = 1
    HostCapacity = 1
    MaxStreams = 2
    MaxStatus = 1
    MaxFaults = 1
SPECIFICATION Spec
INVARIANTS AckMeansStored NoSilentLoss
CHECK_DEADLOCK FALSE
