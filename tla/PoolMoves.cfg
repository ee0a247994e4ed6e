\* Two backends and a rebalance, against the abstract pool.
SPECIFICATION Spec
CONSTANTS
    FirstExperiment = 1
    ExperimentCap = 1
    SampleCapacity = 1
    HistoryCapacity = 1
    NumBackends = 2
    MaxCalls = 3
    Metas <- Pinned
    InitialValue <- Values
    Ceiling = 1
    MaxWaiting = 3
    ReservedFrom = 4
    Paces = {1}
    HoldTicks = {}
    MaxPauses = 0
    MayGoStale = FALSE
    MayDrop = FALSE
    MayFail = FALSE
    Beats = {1}
INVARIANTS HeldAndSeen
PROPERTIES ImplementsCallPool
CHECK_DEADLOCK FALSE
