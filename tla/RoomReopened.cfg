SPECIFICATION AgainSpec
CONSTANTS
    creator = creator
    j1 = j1
    j2 = j2
    s1 = s1
    s2 = s2
    Creator = creator
    Joiner <- MCOneJoiner
    Slot <- MCOneCall
    Tools <- MCTalk
    NoAnswer = NoAnswer
    Lossy <- MCAllCalls
    MaxSend = 1
    MaxKey = 2
    MaxLoss = 0
INVARIANTS
    ReadyKeyIsShared
CHECK_DEADLOCK FALSE
