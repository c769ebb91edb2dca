CONSTANTS
    m1 = m1  m2 = m2  l1 = l1  l2 = l2  d1 = d1  d2 = d2
    p1 = p1  p2 = p2  c1 = c1  c2 = c2  i1 = i1  i2 = i2
    a1 = a1  a2 = a2
    Call <- TwoPrompts
    Conversation <- TwoConversations
    ToolUseID <- TwoIds
    Answer <- TwoAnswers
    NoLogin = NoLogin
    NoCaller = NoCaller
    NoCall = NoCall
    NoAnswer = NoAnswer
    Caller <- TwoCalls
    Login <- TwoLogins
    Decision <- TwoDecisions
    HasFallback <- FirstOnly
    MaxTries = 3
    MaxFlights = 3
    Scenes <- OnlyResuming
SPECIFICATION GatesSpec
INVARIANTS LoginOpensGate
CHECK_DEADLOCK FALSE
