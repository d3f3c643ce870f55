SPECIFICATION FairSpec
CONSTANTS
    Threats = {1, 2}
    Known = {1}
    Dashboards = {d1}
    HighWater = 1
    MaxRequests = 2
    MaxSockets = 2
    MaxLoads = 1
INVARIANTS
    
    ClosedCardsAreRight
PROPERTIES
    AnsweredInTheEnd
CHECK_DEADLOCK FALSE
