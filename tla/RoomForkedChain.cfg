SPECIFICATION Spec
CONSTANTS
    creator = creator
    j1 = j1
    j2 = j2
    s1 = s1
    s2 = s2
    Creator = creator
    Joiner <- MCOneJoiner
    Slot <- MCOneCall
    Tools <- MCAllTools
    NoAnswer = NoAnswer
    Lossy <- MCAllCalls
    MaxSend = 2
    MaxKey = 2
    MaxLoss = 0
INVARIANTS
    FailureMeansTampering
CHECK_DEADLOCK FALSE
