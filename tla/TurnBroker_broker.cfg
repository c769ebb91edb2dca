CONSTANTS
    c1 = c1  c2 = c2  t1 = t1  t2 = t2  t3 = t3  s1 = s1  s2 = s2
    NoTurn = NoTurn
    Conv <- TwoConvs
    Turn <- ThreeTurns
    LossySub <- OneLossy
    LosslessSub <- OneLossless
    SubChanCap = 1
    MaxLog = 3
    MaxBarriers = 1
SPECIFICATION SceneSpec
INVARIANTS TurnExclusive FenceOrder ReplayIsLiveTurn LosslessDelivery BarrierFence FinishDeliversAll
PROPERTIES FeedSpec FencesEnd
CHECK_DEADLOCK FALSE
