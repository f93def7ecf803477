CONSTANTS
    Members = {m1}
    Payments = {p1, p2}
    Subs = {s1}
    Workers = {w1}
    Price = 2
    NoMember = NoMember
    NoPayment = NoPayment
    NoSub = NoSub
    EventDoc = EventDoc
    CommunityDoc = CommunityDoc
    MayCrash = FALSE
    MaxCharges = 3
    MaxFailures = 4
SPECIFICATION AllSpec
INVARIANTS
    SubscriptionsTypeOK
    ActiveIsBooked
    ActiveIsClear
    CancelStopsProgram
    TicketIsPaid
    RefundedInFull
PROPERTIES
    RetriesEnd
    SettledStays
    ChargedIsSettled
CHECK_DEADLOCK FALSE
