CONSTANTS
    Ids = {p1}
    MaxNvEvents = 1
    MaxFails = 2
    Modulus = 8
    MaxIncrements = 3
    MaxCalls = 3
    MaxLoads = 0
    None = None
SPECIFICATION Spec
PROPERTIES
    SignaledForItsValue
CHECK_DEADLOCK FALSE
