\* Three requests, two events, one failure.
SPECIFICATION Spec
CONSTANTS
    r1 = r1
    r2 = r2
    r3 = r3
    Requests = {r1, r2, r3}
    Drafts <- SmallDrafts
    Patches <- SmallPatches
    MaxEvents = 2
    MaxFaults = 1
SYMMETRY Symmetry
INVARIANTS TypeOK Reminded
PROPERTIES LimitsFit EditReplacesReminder
\* Every request is sent once: the system stops when all are through.
CHECK_DEADLOCK FALSE
