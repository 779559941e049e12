CONSTANTS
    Instance = {i1, i2}
    Key = {k1, k2}
    Val = {v1}
    Number = {v1}
    Writer = {c1, c2, c3}
    Call = {c1, c2, c3}
    None = None
    Threw = Threw
    Absent = Absent
    NoExpiry = NoExpiry
    MaxTime = 1
    Prefix <- PrefixEach
    Options <- BadAndGood
    Operations <- AllOperations
    AllocMayFail = TRUE
    MayAwait = FALSE
SPECIFICATION Spec
CHECK_DEADLOCK FALSE
SYMMETRY CallSymmetry
INVARIANTS
    TypeOK
    InflightExact
    OneFlightPerKey
    NestingOnDistinctKeys
PROPERTIES
    SettledOnce
