CONSTANTS
    r1 = r1  r2 = r2
    NoRequest = NoRequest
    Request <- TwoRequests
    NoProgressLimit = 1
    Start <- BlockedRun
    Tools <- EnterAndComplete
    MayPrompt = FALSE
    MayLeave = FALSE
    MaxLog = 1
    MaxHistory = 2
    MaxRuns = 2
SPECIFICATION Spec
INVARIANTS HistoryByGeneration OneLateStart FinalAfterEvents
PROPERTIES ClosedStaysClosed
SYMMETRY RequestSymmetry
CHECK_DEADLOCK FALSE
