CONSTANTS
    Members = {m1}
    Payments = {p1}
    Workers = {w1, w2}
    Price = 2
    NoMember = NoMember
    NoPayment = NoPayment
    EventDoc = EventDoc
    CommunityDoc = CommunityDoc
    MayCrash = TRUE
    Receipts = {t1, t2}
    People = {n1, n2}
    Events = {e1}
    NoEvent = NoEvent
    Bars = 2
    Prices = {2}
    LastMonth = 2
    MaxMoves = 4
    Browsers = {b1}
    NoBrowser = NoBrowser
    MaxPresses = 2
    MaxRuns = 2
SPECIFICATION AllSpec
SYMMETRY ReportSymmetry
INVARIANTS
    RefundsNeverOverstated
    BookedOncePerMember
    
CHECK_DEADLOCK FALSE
