\* Two turns of each kind, three of the cost ledger's, two lanes of calls that
SPECIFICATION EitherSpec
CONSTANTS
    t1 = t1
    t2 = t2
    Turns = {t1, t2}
    Requests = {r1, r2}
    Plugins = 2
    MaxItems = 2
    CostTurns = {t1, t2, t3}
    Models = {"m1", "free"}
    NoRates = NoRates
    PerMtok = 2
    RejectUnpriced = FALSE
    TokenCap = 5
    MicrosCap = 6
    MaxTracked = 1
    WarnAt = 4
    Rates <- CostRates
    Prompts <- SmallPrompts
    Completions <- SmallCompletions
    Reads = {0, 2}
    MaxResets = 1
    LogThreads = {t1, t2}
    NoThread = NoThread
    Unset = Unset
    LogBackends = {"memory", "file"}
    Histories <- LogHistories
    MaxRecords = 5
    MaxOps = 3
    MaxForks = 2
    MaxCrashes = 1
    MaxFailures = 1
    ChainTurns = {t1, t2}
    Chain <- ChainPlugins
    Tools <- ChainTools
    Calls <- ChainCalls
    MaxCalls = 2
    MaxAttempts = 1
    MaxTrackedCalls = 1
    MaxAudit = 1
    MaxPending = 1
    RuntimeThreads = 3
    Said <- Sayings
    MaxSaid = 2
    FallbackAttempts = 2
    FirstExperiment = 1
    ExperimentCap = 1
    HistoryCapacity = 1
    Paces = {1}
INVARIANTS ReplayIsFaithful  LedgerBalances PositionsOnce GatesHold AnswersAreKept AcrossLevels ScrubLeavesNothing SpeculationKeeps
 
CHECK_DEADLOCK FALSE
SYMMETRY Swap
