\* A rate that leaves a remainder, one caller.
SPECIFICATION Spec
CONSTANTS
    Callers = {c1}
    MilliToken = 3
    MaxRequests = 1
    Interval = 2
    Burst = 2
    MaxConcurrent = 2
    MaxWaiters = 2
    MaxWait = 2
    WarnAt = 2
    MaxLag = 0
INVARIANTS Quota
