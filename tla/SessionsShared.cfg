CONSTANTS
    Tabs = {b1, b2}
    Phones = {}
    Tokens = {t1, t2, t3}
    Workers = {w1, w2}
    NoToken = NoToken
    NoClient = NoClient
    ReloadAnytime = TRUE
SPECIFICATION Spec
SYMMETRY Symmetry
INVARIANTS
    OneTimeUse
CHECK_DEADLOCK FALSE
