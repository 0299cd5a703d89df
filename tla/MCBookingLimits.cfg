\* Two users at one event, two seats of a kind per user, limits edited.
SPECIFICATION Spec
CONSTANTS
    u1 = u1
    u2 = u2
    Users = {u1, u2}
    Admins = {}
    MaxEvents = 1
    RowIds = {1, 2}
    Offers <- BothKinds
    FirstTs = 0
    LastTs = 1
    TooLate = 1
    AutoBlacklist = FALSE
    CancelOnBan = TRUE
    U64 = 16
SYMMETRY Symmetry
INVARIANTS TypeOK RowsOfLiveEvents BannedHoldNothing OfferAdmitted
PROPERTIES HoldingsWithinLimit NoNewcomerBeyondCapacity OfferedSeatTaken OfferedPlaceWaits OfferedCancelGivesBack
