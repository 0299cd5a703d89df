\* Two users press the button for the last place.
SPECIFICATION Spec
CONSTANTS
    u1 = u1
    u2 = u2
    r1 = r1
    r2 = r2
    r3 = r3
    r4 = r4
    Requests = {r1, r3}
    Users = {u1, u2}
    UserOf <- Senders
    SeatsOf <- OneEach
    Waits = {}
    Paid = FALSE
    Capacity = 1
    PerUser = 1
    PoolSize = 2
    CancelOnBan = FALSE
    Nobody = Nobody
INVARIANTS CapacityHeld
\* Every request is sent once: the system stops when all are answered.
CHECK_DEADLOCK FALSE
