CONSTANTS
    e1 = e1
    e2 = e2
    e3 = e3
    c1 = c1
    none = none
    Envelopes = {e1, e2, e3}
    Ulid <- MCUlid
    Forms = {"kept"}
    ScanLimit = 3
    Convs = {c1}
    ConvOf <- MCConvOf
    NoConv = none
    Policied = {e1}
    Corrupt = {}
    Unsealed = {e3}
    BesideCore = TRUE
    Relinks = {1}
    MaxBodies = 3
    MaxRebuilds = 1
    MaxFaults <- BesideFaults
SPECIFICATION Spec
INVARIANTS
    DerivedTablesAgree
PROPERTIES
    MatchIsTrue
CHECK_DEADLOCK FALSE
