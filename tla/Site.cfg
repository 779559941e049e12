SPECIFICATION Spec
CONSTANTS
    page = page
    other = other
    home = home
    away = away
    x = x
    y = y
    z = z
    Key = {page, other}
    Bytes = {x, y, z}
    Url = {home, away}
    Extended = {home}
    Nil = Nil
    Settings <- Disciplined
SYMMETRY Contents
INVARIANTS
    TypeOK
    EtagNamesBytes
    ShownIsCurrent
    CopyKeepsItsTag
CHECK_DEADLOCK FALSE
