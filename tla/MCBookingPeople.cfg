\* An administrator and a user at two events with two starting times.
SPECIFICATION Spec
CONSTANTS
    admin = admin
    u1 = u1
    Users = {admin, u1}
    Admins = {admin}
    MaxEvents = 2
    RowIds = {1}
    Offers <- TwoStarts
    FirstTs = 1
    LastTs = 2
    TooLate = 1
    AutoBlacklist = TRUE
    CancelOnBan = FALSE
    U64 = 16
CONSTRAINT OneAside
SYMMETRY Symmetry
PROPERTIES LateCancelBansUntilStart BannedGainNothing OnlyNoShowsBanned ClashOnlyByEdit NoSeatWhenStopped
