\* Two cancellations, each after the event was full, before the first prompt.
SPECIFICATION Spec
CONSTANTS
    u1 = u1
    u2 = u2
    Users = {u1, u2}
    Capacity = 1
    MaxMessages = 1
    MaxRows = 2
    MaxFaults = 0
    Limit = 2
CHECK_DEADLOCK FALSE
INVARIANTS OnePromptAtATime
