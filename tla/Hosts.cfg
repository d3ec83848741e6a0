SPECIFICATION HostsSpec
CONSTANTS
    r1 = r1
    r2 = r2
    fp1 = fp1
    fp2 = fp2
    k1 = k1
    p1 = p1
    p2 = p2
    Reader <- MCReader
    MaxSeq = 3
    Fingerprint <- MCFingerprint
    GroupKey <- MCKeys
    Size <- MCSizes
    Epoch <- MCEpochs
    NoMeta = NoMeta
    NoKey = NoKey
    MaxPost = 2
    MaxRequest = 4
    Process <- MCProcess
    NoFile = NoFile
    MaxStart = 4
INVARIANTS
    TypeOK
    NoLostWakeup
    WaitersAreParked
    KeystoreWhole
    OneIdentity
PROPERTIES
    PushDelivers
    RefinesBlockingRead
    ChainIsGate
    EveryoneAnswered
CONSTRAINT Apart
CHECK_DEADLOCK FALSE
