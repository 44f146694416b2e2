SPECIFICATION Spec
CONSTANTS
    k1 = k1
    k2 = k2
    None = None
    Keys = {k1}
    Answers <- MCAnswers
    min_ttl = 0
    max_ttl = 2
    negative_ttl = 9
    PERSIST_CHANNEL_CAP = 2
    BATCH_MAX = 2
    max_entries = 1
    MaxTime = 2
    MaxVersion = 2
INVARIANT GracefulStopFlushes
