SPECIFICATION BoundedSpec
CONSTANTS
    creator = creator
    j1 = j1
    j2 = j2
    s1 = s1
    s2 = s2
    Creator = creator
    Joiner <- MCTwoJoiners
    Slot <- MCTwoCalls
    Tools <- MCAllTools
    NoAnswer = NoAnswer
    Lossy <- MCAllCalls
    MaxSend = 2
    MaxKey = 3
    MaxLoss = 1
INVARIANTS
    TypeOK
    FoldedOnce
    NothingSkipped
    VerdictsAgree
    SealedForEpoch
    OneKeyHeld
SYMMETRY Symmetry
CHECK_DEADLOCK FALSE
