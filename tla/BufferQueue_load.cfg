SPECIFICATION FairSpec
CONSTANTS
    NumSlots = 2
    Buffers = {1, 2}
    Handle <- OwnHandles
    Preallocated = 2
    Fits = {TRUE}
    Async = {FALSE}
    MaxFrames = 3
    MaxSetups = 0
    MaxSaves = 1
    MaxLoads = 1
INVARIANT ShownBufferIsQueued
INVARIANT GameHoldsItsSlots
PROPERTY FramesInOrder
PROPERTY DequeueReturns
CHECK_DEADLOCK FALSE
