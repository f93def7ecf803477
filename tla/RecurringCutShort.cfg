CONSTANTS
    Workers = {w1}
    Pools = {{w1}}
    EventRequests = 1
    LastDay = 7
    Ticks = 5
    Copies = 2
    Horizon = 3
    Start = 1
    Parent = Parent
    Rules <- SmallRules
SPECIFICATION RecurringSpec
PROPERTY CountAccurate
CHECK_DEADLOCK FALSE
