SPECIFICATION Spec
CONSTANTS
    page = page
    other = other
    home = home
    away = away
    x = x
    y = y
    z = z
    Key = {page, other}
    Bytes = {x, y, z}
    Url = {home, away}
    Extended = {home}
    Nil = Nil
    Settings <- Undisciplined
SYMMETRY Contents
INVARIANTS
    EtagNamesBytes
CHECK_DEADLOCK FALSE
