SPECIFICATION FairSpec
CONSTANTS
    e1 = e1
    e2 = e2
    Endpoint <- MCEndpoint
    FirstEndpoint = e1
    Quotes <- MCQuotes
    MaxPost = 2
    MaxRestart = 2
    MaxFail = 1
    Cap = 2
    MaxType = 3
    MaxReply = 2
INVARIANTS
    TypeOK
    HistoryComplete
    SentIsPosted
    QueueIsStored
PROPERTIES
    Heard
ACTION_CONSTRAINT StaysApart
CHECK_DEADLOCK FALSE
