CONSTANTS
    VerbatimRecent = 1
    ActivationFloor = 2
    PassLimit = 2
    MaxTurns = 3
    MaxSecond = 3
    MaxDeletes = 1
    MaxCommands = 1
    MaxActive = 2
SPECIFICATION Spec
INVARIANTS ViewExact RequestsServed
PROPERTIES LedgerSpec
CHECK_DEADLOCK FALSE
