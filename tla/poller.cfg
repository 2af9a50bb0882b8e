CONSTANTS
    MaxEntities = 3
    KeyRank <- MCKeyRank
    Mutable = TRUE
    ByUpdate = TRUE
    PageSize = 2
    SEEN_CAP = 3
    Cadence = 1
    RateCap = 2
    ErrorCap = 1
    StallAfter = 1
    MaxChanges = 3
    MaxResets = 1
    MaxFaults <- MCFaults
    MaxIncidents = 3
SPECIFICATION FairSpec
INVARIANTS
    PollerInv
    RememberedIsReported
    RepeatsBounded
    StallIsReported
PROPERTIES
    LastChangesAreReported
CHECK_DEADLOCK FALSE
