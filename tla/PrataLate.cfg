SPECIFICATION Spec
CONSTANTS
    e1 = e1
    e2 = e2
    Endpoint <- MCEndpoint
    FirstEndpoint = e1
    Quotes <- MCQuotes
    MaxPost = 1
    MaxRestart = 0
    MaxFail = 0
    Cap = 2
    MaxType = 2
    MaxReply = 2
INVARIANTS
    SentWasTyped
CHECK_DEADLOCK FALSE
