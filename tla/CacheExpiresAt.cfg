CONSTANTS
    Instance = {i1}
    Key = {k1}
    Val = {v1}
    Number = {}
    Writer = {c1, c2}
    Call = {c1, c2}
    None = None
    Threw = Threw
    Absent = Absent
    NoExpiry = NoExpiry
    MaxTime = 3
    Prefix <- PrefixNone
    Options <- Absolute
    Operations <- WritersOnly
    AllocMayFail = FALSE
    MayAwait = FALSE
SPECIFICATION Spec
CHECK_DEADLOCK FALSE
INVARIANT AbsoluteExpiry
