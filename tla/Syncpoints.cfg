CONSTANTS
    Ids = {p1}
    MaxNvEvents = 1
    MaxFails = 0
    Modulus = 8
    MaxIncrements = 3
    MaxCalls = 3
    MaxLoads = 1
    None = None
SPECIFICATION FairSpec
INVARIANTS
    CountersAgree
    NoFenceIsOverEarly
    NoWaitIsForgotten
    EveryWaitIsReachable
CHECK_DEADLOCK FALSE
PROPERTIES
    EveryIoctlReturns
    EveryWaitEnds
