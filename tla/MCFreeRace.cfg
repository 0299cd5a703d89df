\* Three requests of a user with a limit of two, one of another; both may be banned.
SPECIFICATION Spec
CONSTANTS
    u1 = u1
    u2 = u2
    r1 = r1
    r2 = r2
    r3 = r3
    r4 = r4
    Requests = {r1, r2, r3, r4}
    Users = {u1, u2}
    UserOf <- Thrice
    SeatsOf <- OneEach
    Waits = {r1, r3}
    Paid = FALSE
    Capacity = 2
    PerUser = 2
    PoolSize = 2
    CancelOnBan = TRUE
    Nobody = Nobody
INVARIANTS TypeOK UserLimitHeld OneSeatEscapesBan
\* Every request is sent once: the system stops when all are answered.
CHECK_DEADLOCK FALSE
