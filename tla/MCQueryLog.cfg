SPECIFICATION FairSpec
CONSTANTS
    Torn = Torn
    LOG_CHANNEL_CAP = 2
    flush_rows = 2
    max_bytes = 1
    MaxRecords = 3
    MaxTime = 2
    MaxSteps = 1
INVARIANTS
    TypeOK
    RecordOnce
    NeverHalfRead
    SegmentsCapped
    NamesInOrder
PROPERTIES
    DeletesNoMore
    StopsWithinCap
    RecordsLeaveMemory
