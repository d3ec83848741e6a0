SPECIFICATION RecordsSpec
CONSTANTS
    fp1 = fp1
    fp2 = fp2
    fp3 = fp3
    k1 = k1
    k2 = k2
    Fingerprint <- MCFingerprint
    GroupKey <- MCKeys
    Size <- MCSizes
    Epoch <- MCEpochs
    MaxSeq = 3
    MaxCrash = 2
    NoMeta = NoMeta
    NoKey = NoKey
    Signer <- MCTwo
    SealEpoch <- MCSealEpochs
    JoinedAt <- MCJoinedAt
    Foreign = Foreign
    Absent = Absent
    MaxMessage = 3
    MaxStep = 4
INVARIANTS
    TypeOK
    AckedPostsKept
    EpochCountsJoins
    CapacityRespected
    LockedWhenFull
    CreatorFirst
    OneKeyPerEpoch
    HeadCommits
    ChainCommits
    WholeVerifies
    AgreementsAreSigned
PROPERTIES
    RefinesFeed
CONSTRAINT Apart
CHECK_DEADLOCK FALSE
