SPECIFICATION LearnSpec
CONSTANTS
    VolLowMax = 250
    VolMedMax = 2048
    BurstFileCount = 100
    AlphaTenths = 3
    Epsilon = FALSE
    ByteTotals = {0, 250, 251, 2048, 2049}
    FileCounts = {100, 101}
    MaxVerdicts = 2
    MaxResets = 0
    MaxCrashes = 0
INVARIANTS
    EscalationWasAsked
CHECK_DEADLOCK FALSE
