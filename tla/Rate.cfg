\* One token every four ticks, clocks read as the lock is taken.
SPECIFICATION FairSpec
CONSTANTS
    Callers = {c1, c2, c3}
    MilliToken = 2
    MaxRequests = 1
    Interval = 4
    Burst = 1
    MaxConcurrent = 2
    MaxWaiters = 2
    MaxWait = 2
    WarnAt = 2
    MaxLag = 0
INVARIANTS WithinBounds BucketIsExact
PROPERTIES AcquireAnswers
