\* Two calls over two backends, one lazy: they fail over, are moved, rebuilt and cancelled.
\* Two calls of a local model, two turns, three guests; four experts on tiers of two and three.
SPECIFICATION EitherSpec
CONSTANTS
    Requests = {r1, r2}
    NumBackends = 2
    Ceiling = 1
    MaxWaiting = 1
    Cooldown = 1
    Lazy = {2}
    Lists = {{1, 2}, {2}}
    Replies <- Reply
    MayCancel = TRUE
    MayMove = TRUE
    LocalCalls = {j1, j2}
    NoJob = NoJob
    JobQueue = 1
    EventBuffer = 1
    MaxBlocks = 2
    ChainTurns = {t1, t2}
    MaxCalls = 1
    MaxAttempts = 1
    MaxTrackedCalls = 1
    MaxAudit = 1
    MaxPending = 1
    RuntimeThreads = 3
    SandboxRuns = {s1, s2, s3}
    NoRun = NoRun
    Experts = {0, 1, 2, 3}
    LoaderThreads = 1
    HeatDecayRows = 2
    MaxPasses = 2
INVARIANTS FailoverOnce OneAtATime
PROPERTIES CallsEnd CallsAreAnswered BlocksComeOut RunsEndOnTime PassesEnd
CHECK_DEADLOCK FALSE
