CONSTANTS
    s1 = s1  s2 = s2
    Stream <- TwoStreams
    Wedged <- OneStream
    Cap = 1
    IdleShutdown = TRUE
    SelfStops = 1
    UserSignals = 1
    MaxEvents = 2
SPECIFICATION PatientSpec
INVARIANTS StreamIsExact TurnOutlivesStop
PROPERTIES AgentEnds
CHECK_DEADLOCK FALSE
