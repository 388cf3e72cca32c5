SPECIFICATION FairSpec
CONSTANTS
    t1 = t1
    t2 = t2
    Threads = {t1, t2}
    Display = {t1}
    Sleeps = {"cv", "object"}
    MaxLooks = 2
    ExactLooks = 1
    MaxTries = 2
INVARIANT NoAnswerMeanwhile
INVARIANT AnswerHasTaker
INVARIANT PausedMeanwhile
PROPERTY UiReturns
PROPERTY WokenGetsGate
