CONSTANTS
    Members = {m1}
    Payments = {p1}
    Workers = {w1, w2}
    Price = 2
    NoMember = NoMember
    NoPayment = NoPayment
    EventDoc = EventDoc
    CommunityDoc = CommunityDoc
    MayCrash = FALSE
SPECIFICATION Spec

PROPERTIES
    SettledStays
CHECK_DEADLOCK FALSE
