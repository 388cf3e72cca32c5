SPECIFICATION FairSpec
CONSTANTS
    Pages = {p1, p2}
    MaxSteps = 2
    MaxOrder = 3
INVARIANTS
    EveryStepIsAllowed
    LoadReturnsToSave
PROPERTIES
    LoadEnds
    ImplementsRewindableState
