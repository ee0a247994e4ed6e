\* One slot, pause, hold, stale tasks and drops against the futures.
SPECIFICATION Spec
CONSTANTS
    FirstExperiment = 1
    ExperimentCap = 1
    SampleCapacity = 1
    HistoryCapacity = 1
    NumBackends = 1
    MaxCalls = 2
    Metas <- Gated
    InitialValue <- Values
    Ceiling = 1
    MaxWaiting = 3
    ReservedFrom = 4
    Paces = {1}
    HoldTicks = {1}
    MaxPauses = 1
    MayGoStale = TRUE
    MayDrop = TRUE
    MayFail = FALSE
    Beats = {}
INVARIANTS BehindTheGate
CHECK_DEADLOCK FALSE
