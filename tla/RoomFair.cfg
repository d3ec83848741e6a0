SPECIFICATION FairSpec
CONSTANTS
    creator = creator
    j1 = j1
    j2 = j2
    s1 = s1
    s2 = s2
    Creator = creator
    Joiner <- MCOneJoiner
    Slot <- MCOneCall
    Tools <- MCWaitingAndLooking
    NoAnswer = NoAnswer
    Lossy <- MCSafeCalls
    MaxSend = 2
    MaxKey = 2
    MaxLoss = 1
PROPERTIES
    EveryoneHears
    KeysConverge
ACTION_CONSTRAINT LooksFirst
CHECK_DEADLOCK FALSE
