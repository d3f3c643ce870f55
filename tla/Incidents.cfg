SPECIFICATION Spec
CONSTANTS
    Windows = {w1, w2}
    MaxBatches = 3
    MaxVerdicts = 2
    MaxFaults = 2
SYMMETRY WindowSymmetry
INVARIANTS
    OneOpenPerWindow
    ClosedIsLearned
    AuditTrail
    EvidenceIsOnRecord
PROPERTIES
    VerdictStands
CHECK_DEADLOCK FALSE
