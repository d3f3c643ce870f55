SPECIFICATION FairSpec
CONSTANTS
    MaxSize = 2
    MaxBatch = 2
    MaxEvents = 3
    MaxKeys = 6
    MaxSeals = 10
    MaxFaults = 3
INVARIANTS
    AckImpliesLogged
    NothingVanishes
    LiveBatchNotReplay
PROPERTIES
    NoReopenAfterAck
    UsesBufferCorrectly
    SendsFailOnlyOnFaultsUnlessCutOff
    EventuallyAcknowledged
CHECK_DEADLOCK FALSE
