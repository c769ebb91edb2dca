CONSTANTS
    r1 = r1  r2 = r2
    NoRequest = NoRequest
    Request <- OneRequest
    NoProgressLimit = 3
    Start <- AnyLedger
    Tools <- AllTools
    MayPrompt = TRUE
    MayLeave = TRUE
    MaxLog = 2
    MaxHistory = 0
    MaxRuns = 1
SPECIFICATION FairSpec
INVARIANTS CountsIdleTurns
PROPERTIES CancelledRequestEnds
CHECK_DEADLOCK FALSE
