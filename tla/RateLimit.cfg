CONSTANTS
    ip = ip
    elsewhere = elsewhere
    guest = guest
    Key = {ip, elsewhere}
    Val = {1, 2, 3, 4, 5}
    Request = {r1, r2, r3, r4, guest}
    Writer = {r1, r2, r3, r4, guest}
    ClientKey <- TwoClients
    Absent = Absent
    NoExpiry = NoExpiry
    MaxTime = 3
    RATE_LIMIT_MAX = 2
    RATE_LIMIT_WINDOW = 2
    RequestsMayDie = TRUE
SPECIFICATION Spec
CHECK_DEADLOCK FALSE
SYMMETRY RequestSymmetry
INVARIANTS
    TypeOK
    DistinctCounts
    AdmittedPerWindow
    OpenEndedHasCulprit
