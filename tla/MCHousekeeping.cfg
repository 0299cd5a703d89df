\* Two users at two events, one fault or ban from elsewhere.
SPECIFICATION FairSpec
CONSTANTS
    Users = {1, 2}
    Admins = {}
    Events = {1, 2}
    AutoBlacklist = TRUE
    BanDays = 0
    MaxOdd = 1
INVARIANTS TypeOK NoOrphanByCrash
PROPERTIES AbsentBannedFirst OldEventsGo RoundGoesOn
