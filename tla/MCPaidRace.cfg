\* Tickets for four places, bought at the same time.
SPECIFICATION FairSpec
CONSTANTS
    u1 = u1
    u2 = u2
    r1 = r1
    r2 = r2
    r3 = r3
    r4 = r4
    Requests = {r1, r2, r3}
    Users = {u1, u2}
    UserOf <- Senders
    SeatsOf <- Tickets
    Waits = {}
    Paid = TRUE
    Capacity = 4
    PerUser = 2
    PoolSize = 2
    CancelOnBan = TRUE
    Nobody = Nobody
INVARIANTS UserLimitHeld
PROPERTIES Sale EveryRequestEnds
\* Every request is sent once: the system stops when all are answered.
CHECK_DEADLOCK FALSE
