SPECIFICATION Spec
CONSTANTS
    Pages = {p1}
    MaxSteps = 2
    MaxOrder = 3
INVARIANTS
    UndoneWorldIsSaved
