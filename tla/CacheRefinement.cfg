CONSTANTS
    Instance = {i1, i2}
    Key = {k1, k2}
    Val = {v1, v2}
    Number = {}
    Writer = {c1, c2, c3}
    Call = {c1, c2, c3}
    None = None
    Threw = Threw
    Absent = Absent
    NoExpiry = NoExpiry
    MaxTime = 0
    Prefix <- PrefixNone
    Options <- BadAndGood
    Operations <- WritersOnly
    AllocMayFail = FALSE
    MayAwait = TRUE
SPECIFICATION FairSpec
CHECK_DEADLOCK FALSE
INVARIANTS
    StoredByFulfilled
    PendingHasReaction
PROPERTIES
    ImplementsSingleFlight
    WriteSettlesItsPromise
    EveryPromiseSettles
