\* Three keys for two places; two jobs over three tokens; two loaders
\* of a three-part file; four experts on tiers of two and three;
\* weights of three ids.
SPECIFICATION EitherSpec
CONSTANTS
    k1 = k1
    k2 = k2
    k3 = k3
    r1 = r1
    Keys = {k1, k2, k3}
    Responses = {r1}
    Capacity = 2
    Ttl = 2
    Forever = 4
    Readings = {0, 1, 2, 3}
    Foreign <- Snapshots
    MaxTick = 3
    Tokens = {0, 1, 2}
    Eog = {2}
    Junk = 99
    Budgets = {3}
    ContextLength = 7
    RingRollback = 1
    RingRows = 3
    Chunk = 3
    MaxVerifyRows = 3
    DraftTokens = 2
    MaxJobs = 2
    Loaders = {l1, l2}
    NoLoader = NoLoader
    Versions = {"a", "b"}
    FileLen = 3
    Pins = {"a", "none"}
    Unpinned = "none"
    MaxCrashes = 1
    MaxAttempts = 4
    Experts = {0, 1, 2, 3}
    LoaderThreads = 1
    HeatDecayRows = 2
    MaxPasses = 3
INVARIANTS CacheConsistent  TiersConsistent
PROPERTIES ImplementsLru DecodesPlainly ModelFileSafe
CHECK_DEADLOCK FALSE
