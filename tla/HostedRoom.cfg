SPECIFICATION FairSpec
CONSTANTS
    opener = opener
    g1 = g1
    g2 = g2
    Opener = opener
    Guest <- MCGuest
    Talker <- MCTalker
    Wish <- MCWish
    Request <- MCRequest
    Nothing = Nothing
    MaxSeq = 2
    MaxReset = 1
INVARIANTS
    TypeOK
    RoleByArrival
    TiersAgree
    ShownInOrder
    OnlySendAndWaitPasses
PROPERTIES
    EveryoneListens
CONSTRAINT CustomTalk
