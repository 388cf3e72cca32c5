CONSTANTS
    t1 = t1
    t2 = t2
    Threads <- TwoThreads
    Main = t1
    Sessions = {s1, s2}
    Clients = {c1, c2}
    Services = {n1}
    Servers <- SmAndSockets
    None = None
SPECIFICATION FairSpec
INVARIANTS
    EverySessionIsInOnePlace
    SelectedIsReady
    NothingIsForgotten
PROPERTIES
    EveryRequestIsAnswered
    StopEnds
    ImplementsRequestService
CHECK_DEADLOCK FALSE
