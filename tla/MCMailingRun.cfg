\* Two users, one place, two messages at most, one fault.
SPECIFICATION FairSpec
CONSTANTS
    u1 = u1
    u2 = u2
    Users = {u1, u2}
    Capacity = 1
    MaxMessages = 2
    MaxRows = 2
    MaxFaults = 1
    Limit = 2
CHECK_DEADLOCK FALSE
INVARIANTS TypeOK RateLimited
PROPERTIES NotTwice DoneMeansTold EveryMessageDone
