CONSTANTS
    Requests <- MCRequests
    NoUser = nobody
    Users = {alice}
    Devices = {key}
    CHALLENGE_TTL = 0
    ACCESS_TTL = 0
    DayLength = 2
    MaxTicks = 1
    MaxAnswers = 2
    MaxOpen = 2
    MaxRequestFaults = 1
SPECIFICATION RequestsSpec
INVARIANTS
    CeremonyInv
    CredentialInv
    SessionInv
    RequestsInv
CHECK_DEADLOCK FALSE
