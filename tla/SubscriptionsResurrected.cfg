CONSTANTS
    Subs = {s1}
    Workers = {w1}
    NoSub = NoSub
    MaxCharges = 3
    MaxFailures = 4
SPECIFICATION SubscriptionsSpec
PROPERTIES
    CancelledStays
CHECK_DEADLOCK FALSE
