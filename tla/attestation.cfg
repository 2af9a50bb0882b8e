CONSTANTS
    MaxEntries = 3
    MaxDays = 2
    DayLength = 2
    Publishers = {cron, operator}
    Offsets <- MCOffsets
    MaxPublications = 2
    MaxPublishFaults = 1
SYMMETRY MCSymmetry
SPECIFICATION AttestSpec
INVARIANTS
    AttestInv
    RootFixesLeaves
    EntriesLostByOverlapOnly
    DaysAreSettled
CHECK_DEADLOCK FALSE
