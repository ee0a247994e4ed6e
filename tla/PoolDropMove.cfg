\* A future is dropped while a rebalance moves its call.
SPECIFICATION Spec
CONSTANTS
    FirstExperiment = 1
    ExperimentCap = 1
    SampleCapacity = 1
    HistoryCapacity = 1
    NumBackends = 2
    MaxCalls = 3
    Metas <- Anywhere
    InitialValue <- Values
    Ceiling = 1
    MaxWaiting = 3
    ReservedFrom = 4
    Paces = {1}
    HoldTicks = {}
    MaxPauses = 0
    MayGoStale = FALSE
    MayDrop = TRUE
    MayFail = FALSE
    Beats = {1}
INVARIANTS NothingHoldsTheDead
CHECK_DEADLOCK FALSE
