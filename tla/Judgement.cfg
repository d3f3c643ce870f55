SPECIFICATION Spec
CONSTANTS
    Hours = {20, 21}
    Paths = {"report"}
    Sizes = {1}
    VolLowMax = 1
    VolMedMax = 2
    BurstFileCount = 1
    MassDelete = 1
    Threshold = 100
    Scores <- MCScores
    Policies <- MCPolicies
    MaxBatch = 2
    MaxBatches = 2
    MaxPolicies = 1
    MaxFaults = 1
INVARIANTS
    WindowIsAggregate
    MaskedIsSilent
PROPERTIES
    ReasonsAccumulate
    WithinPolicy
CHECK_DEADLOCK FALSE
