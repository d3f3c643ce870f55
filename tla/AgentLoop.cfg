SPECIFICATION FairSpec
CONSTANTS
    MaxSize = 2
    MaxBatch = 2
    MaxEvents = 5
    RetryBackoff = 2
    MaxBackoff = 5
INVARIANTS
    FinalFlushCovers
    NoticedIsAccounted
    Bounded
    Conservation
    InOrder
PROPERTIES
    LosesOnlyOldest
    StopLeadsToExit
CHECK_DEADLOCK FALSE
