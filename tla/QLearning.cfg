SPECIFICATION LearnSpec
CONSTANTS
    VolLowMax = 250
    VolMedMax = 2048
    BurstFileCount = 100
    AlphaTenths = 3
    Epsilon = TRUE
    ByteTotals = {0, 250, 251, 2048, 2049}
    FileCounts = {100, 101}
    MaxVerdicts = 4
    MaxResets = 1
    MaxCrashes = 1
INVARIANTS
    ColdStart
    Convergence
PROPERTIES
    OnlyRejectedAlertsEscalate
    ConfirmNeverRelaxes
CHECK_DEADLOCK FALSE
