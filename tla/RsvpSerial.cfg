CONSTANTS
    Users = {u1, u2, u3}
    Requests = {r1}
    Capacities = {1, 2, Unlimited}
    Unlimited = Unlimited
    NoUser = NoUser
    EventDoc = EventDoc
    MaxRequests = 6
    Browsing = {u1}
    Doors = {d1, d2}
    Seats = 1
    MaxAnswers = 4
    Hosts = {h1}
    MaxQuestions = 2
    MaxTaps = 5
    People = {n1, n2}
    MaxSends = 2
    MaxMoves = 1
    MaxMarks = 2
    Photos = {p1, p2}
    MaxPhotos = 1
    MaxRecaps = 2
SPECIFICATION AllSpec
SYMMETRY Symmetry
INVARIANTS
    CancelledEventIsEmpty
    
PROPERTIES
    
    GoingImplementsSeats
CHECK_DEADLOCK FALSE
