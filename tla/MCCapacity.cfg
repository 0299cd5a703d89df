\* Two users, one place.
SPECIFICATION Spec
CONSTANTS
    u1 = u1
    u2 = u2
    Users = {u1, u2}
    Admins = {}
    MaxEvents = 1
    RowIds = {1}
    Offers <- OneSeat
    FirstTs = 0
    LastTs = 1
    TooLate = 1
    AutoBlacklist = FALSE
    CancelOnBan = FALSE
    U64 = 16
SYMMETRY Symmetry
PROPERTIES CapacityRespected
