CONSTANTS
    x = x
    y = y
    Bytes = {x, y}
    Empty = Empty
    MaxBuffers = 4
    StoreName = {s1, s2}
    SortedSets <- TwoMembers
    CacheKey = {c1}
    MaxHandles = 1
    Original <- OneAsset
    Entry = {e1, e2}
    NoEntry = NoEntry
SPECIFICATION Spec
SYMMETRY EntrySymmetry
INVARIANTS
    TypeOK
    EntryIsSnapshot
    BodyIsWhole
    AssetKept
