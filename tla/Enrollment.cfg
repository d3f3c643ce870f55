SPECIFICATION FairSpec
CONSTANTS
    Machines = {m1, m2}
    Ids = {a, b}
    MaxTokens = 1
    MaxKeygens = 1
    MaxFaults = 1
INVARIANTS
    TokensPayForKeys
    OnceAdmittedNeverRefused
    SessionsBelongToKey
PROPERTIES
    DeliveryRecovers
CHECK_DEADLOCK FALSE
