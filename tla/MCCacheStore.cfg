SPECIFICATION FairSpec
CONSTANTS
    k1 = k1
    k2 = k2
    None = None
    Keys = {k1, k2}
    Answers <- MCAnswers
    min_ttl = 0
    max_ttl = 2
    negative_ttl = 9
    PERSIST_CHANNEL_CAP = 1
    BATCH_MAX = 2
    max_entries = 1
    MaxTime = 2
    MaxVersion = 2
INVARIANTS
    TypeOK
    NeverPastExpiry
    BoundedLife
    BoundedMemory
    InOrder
PROPERTIES
    RowsMoveForward
    PendingDrains
