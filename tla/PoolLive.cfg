\* Two backends, a rebalance, a pause: every call ends.
SPECIFICATION FairSpec
CONSTANTS
    FirstExperiment = 1
    ExperimentCap = 1
    SampleCapacity = 1
    HistoryCapacity = 1
    NumBackends = 2
    MaxCalls = 2
    Metas <- Anywhere
    InitialValue <- Values
    Ceiling = 1
    MaxWaiting = 3
    ReservedFrom = 4
    Paces = {1}
    HoldTicks = {}
    MaxPauses = 1
    MayGoStale = FALSE
    MayDrop = FALSE
    MayFail = FALSE
    Beats = {1}
PROPERTIES EveryCallEnds
CHECK_DEADLOCK FALSE
