CONSTANTS
    Users = {u1, u2}
    Invitations = {i1, i2}
    Workers = {w1, w2}
    Pools = {{w1}, {w1, w2}}
    NoUser = NoUser
    NoMember = NoMember
    NoInvitation = NoInvitation
    MaxCount = 4
    MaxRequests = 5
    Members = {m1, m2}
    Author = m1
    IniRequests = 6
    MaxRows = 4
    Limits = {1, 2}
    Writers = {p1}
    MaxDrafts = 2
    MaxCalls = 3
    MaxFiles = 2
    MaxTries = 2
    MaxVisits = 2
    LastDay = 7
    Ticks = 4
    Copies = 2
    Horizon = 3
    Start = 2
    Parent = Parent
    EventRequests = 2
    Rules <- SomeRules
SYMMETRY Symmetry
SPECIFICATION AllSpec
INVARIANTS
    TypesOK
    InviteOnlyCountExact
    InvitationAdmitsOnce
    CommentCountExact
    SupportersInTurn
    
    OneInstancePerDate
    EndedStays
    ContentAddsUp
PROPERTIES
    SupportNotLost
    
CHECK_DEADLOCK FALSE
