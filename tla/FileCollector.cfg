SPECIFICATION Spec
CONSTANTS
    Paths = {p, q, x}
    Excluded = {x}
    Debounce = 2
    MaxChanges = 4
INVARIANTS
    EveryChangeAccounted
    PendingIsLive
    StopLeavesNothing
CHECK_DEADLOCK FALSE
