CONSTANTS
    c1 = c1  c2 = c2  c3 = c3
    NoCall = NoCall
    Caller <- ThreeCallers
    Selectable <- AnyProfile
    MaxRuns = 2
    MaxCalls = 3
    MaxRestarts = 1
    Call <- ThreeCallers
    Shards = 2
    MaxRetries = 1
SPECIFICATION CallsSpec
INVARIANTS ChipFollows FenceHasRun OneWriter DownloadedOnDisk
PROPERTIES TurnFenced
SYMMETRY CallerSymmetry
CHECK_DEADLOCK FALSE
