CONSTANTS
    MaxEntities = 3
    KeyRank <- MCKeyRank
    Mutable = FALSE
    ByUpdate = FALSE
    PageSize = 2
    SEEN_CAP = 2
    Cadence = 1
    RateCap = 4
    ErrorCap = 2
    StallAfter = 2
    MaxChanges = 4
    MaxResets = 0
    MaxIncidents = 0
    MaxFaults <- MCNoFaults
SPECIFICATION Spec
INVARIANTS
    OneEventPerChange
CHECK_DEADLOCK FALSE
