SPECIFICATION FairSpec
CONSTANTS
    Roots = {r1, r2}
    WatchDirs = {r2}
    Sessions = {s1, s2}
    MaxWorldChanges = 4
    MaxErrors = 2
INVARIANTS
    ReportsAddUp
    KnownIsLive
PROPERTIES
    WatchesFollowDrives
CHECK_DEADLOCK FALSE
