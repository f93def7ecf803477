CONSTANTS
    Users = {u1, u2, u3}
    Requests = {r1, r2}
    Capacities = {1, Unlimited}
    Unlimited = Unlimited
    NoUser = NoUser
    EventDoc = EventDoc
    MaxRequests = 4
SPECIFICATION FairSpec
INVARIANTS
    TypeOK
    FreshSeatsWithinCapacity
PROPERTIES
    FreshSeatsImplementSeats
    EveryRequestAnswered
CHECK_DEADLOCK FALSE
