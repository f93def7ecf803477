CONSTANTS
    Calls = {c1, c2}
    Communities = {a1, a2}
    NoCommunity = NoCommunity
    Browsers = {b1, b2}
    MaxEntries = 2
    MaxSaves = 2
    MaxRequests = 5
    MaxSubs = 2
    MaxCalls = 3
SYMMETRY Symmetry
SPECIFICATION AllSpec
INVARIANTS
    TypesOK
    OwnWritesSeen
    PagesWork
    EditsKept
    
CHECK_DEADLOCK FALSE
