SPECIFICATION Spec
CONSTANTS
    MaxSize = 2
    MaxBatch = 2
    MaxEvents = 2
    MaxKeys = 6
    MaxSeals = 8
    MaxFaults = 2
PROPERTIES
    SendsFailOnlyOnFaults
CHECK_DEADLOCK FALSE
