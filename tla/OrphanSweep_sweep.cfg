CONSTANTS
    h1 = h1  h2 = h2  h3 = h3  w1 = w1  w2 = w2  f1 = f1
    p1 = p1  p2 = p2  p3 = p3  p4 = p4
    NoPid = NoPid  NoHost = NoHost  NoWorker = NoWorker
    Host <- ThreeHosts
    Worker <- TwoWorkers
    Foreign <- OneForeign
    Pid <- FourPids
    PidReuse = TRUE
    Prompt = TRUE
SPECIFICATION SweepSpec
INVARIANTS OnlyOrphansKilled OrphansReaped
SYMMETRY ReuseSymmetry
CHECK_DEADLOCK FALSE
