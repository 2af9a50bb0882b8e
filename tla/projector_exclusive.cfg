CONSTANTS
    e1 = e1
    e2 = e2
    e3 = e3
    c1 = c1
    none = none
    Envelopes = {e1, e2, e3}
    Ulid <- MCUlid
    Forms = {"kept"}
    ScanLimit = 3
    Convs = {c1}
    ConvOf <- MCConvOf
    NoConv = none
    Policied = {e1}
    Corrupt = {e2}
    Unsealed = {e3}
    BesideCore = FALSE
    Relinks = {1}
    MaxBodies = 3
    MaxRebuilds = 1
    MaxFaults <- ExclusiveFaults
SPECIFICATION FairSpec
INVARIANTS
    ProjectorInv
    ChainVerdict
PROPERTIES
    DifferMeansCorrupt
    EventuallyProjected
