CONSTANTS
    Clients = {c1, c2}
    Capacity = 2
    MaxCalls = 4
    None = None
SPECIFICATION FairSpec
INVARIANTS
    RunInOrder
    RequestRunsInItsCaller
PROPERTIES
    EveryCallReturns
    StopEndsTheThread
CHECK_DEADLOCK FALSE
