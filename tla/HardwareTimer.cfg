SPECIFICATION FairSpec
CONSTANTS
    t1 = t1
    t2 = t2
    Threads = {t1, t2}
    Loops = {"vsync"}
    Periods = {1}
    Delays = {1, 2}
    MaxTime = 2
    MaxStarts = 1
INVARIANT UnscheduledIsQuiet
INVARIANT PausedIsQuiet
INVARIANT ClearedStaysEmpty
INVARIANT TimeoutsAreArmed
INVARIANT NothingPendingMeansRun
PROPERTY EveryTimeoutEnds
PROPERTY CallsReturn
CHECK_DEADLOCK FALSE
