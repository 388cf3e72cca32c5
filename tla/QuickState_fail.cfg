SPECIFICATION Spec
CONSTANTS
    t1 = t1
    t2 = t2
    Threads = {t1, t2}
    Display = {t1}
    Sleeps = {"cv"}
    MaxLooks = 2
    ExactLooks = 1
    MaxTries = 1
PROPERTY FailedLoadChangesNothing
