CONSTANTS
    Tabs = {b1}
    Phones = {p1}
    Tokens = {t1, t2, t3, t4}
    Workers = {w1, w2}
    NoToken = NoToken
    NoClient = NoClient
    ReloadAnytime = FALSE
SPECIFICATION Spec
SYMMETRY Symmetry
INVARIANTS
    TypeOK
    OneTimeUse
    ExchangedIsRevoked
    HeldIsLive
CHECK_DEADLOCK FALSE
