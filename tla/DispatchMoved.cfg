\* Two ready backends of one slot each, and a rebalance.
SPECIFICATION Spec
CONSTANTS
    Requests = {r1, r2, r3}
    NumBackends = 2
    Ceiling = 1
    MaxWaiting = 1
    Cooldown = 1
    Lazy = {}
    Lists = {{1, 2}}
    Replies <- Reply
    MayCancel = FALSE
    MayMove = TRUE
INVARIANTS StreamsWithinCeiling
CHECK_DEADLOCK FALSE
