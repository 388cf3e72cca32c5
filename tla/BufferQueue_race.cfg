SPECIFICATION Spec
CONSTANTS
    NumSlots = 2
    Buffers = {1, 2}
    Handle <- OneHandle
    Preallocated = 2
    Fits = {TRUE}
    Async = {FALSE}
    MaxFrames = 1
    MaxSetups = 0
    MaxSaves = 1
    MaxLoads = 1
PROPERTY LoadFreesOnlyUnknownSlots
CHECK_DEADLOCK FALSE
