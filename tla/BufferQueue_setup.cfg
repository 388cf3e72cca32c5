SPECIFICATION Spec
CONSTANTS
    NumSlots = 3
    Buffers = {1, 2, 3, 4}
    Handle <- OneHandle
    Preallocated = 2
    Fits = {TRUE, FALSE}
    Async = {TRUE, FALSE}
    MaxFrames = 3
    MaxSetups = 1
    MaxSaves = 0
    MaxLoads = 0
INVARIANT ShownBufferIsQueued
INVARIANT QueueMatchesSlots
INVARIANT AcquiredIsOnScreen
INVARIANT NoLostWakeup
CHECK_DEADLOCK FALSE
