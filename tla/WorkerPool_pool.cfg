CONSTANTS
    c1 = c1  c2 = c2  t1 = t1  t2 = t2  t3 = t3  w1 = w1  w2 = w2  w3 = w3
    NoWorker = NoWorker
    Conv <- OneConv
    Turn <- ThreeTurns
    Worker <- ThreeWorkers
    MayShutdown = TRUE
SPECIFICATION PoolSpec
INVARIANTS TurnOwnsWorker NoForgottenWorker
SYMMETRY TurnAndWorkerSymmetry
CHECK_DEADLOCK FALSE
