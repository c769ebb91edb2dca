CONSTANTS
    a = a  b = b
    Call <- TwoCalls
    Mixes <- Pairs
    Impatient <- SecondCall
    BufCap = 1
    Window = 1
    StashCap = 1
    Pieces = 5
SPECIFICATION FairSpec
INVARIANTS EvidenceFollowsChild
PROPERTIES TurnSpec TurnEnds
CHECK_DEADLOCK FALSE
