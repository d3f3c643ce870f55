SPECIFICATION Spec
CONSTANTS
    MaxSize = 3
    MaxBatch = 2
    MaxEvents = 4
    RetryBackoff = 2
    MaxBackoff = 5
INVARIANTS
    RunsUntilInterrupted
CHECK_DEADLOCK FALSE
