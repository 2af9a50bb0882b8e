CONSTANTS
    e1 = e1
    e2 = e2
    e3 = e3
    Envelopes = {e1, e2, e3}
    Ulid <- MCUlid
    Forms = {"kept"}
    ScanLimit = 2
    SUBJECTS <- MCSubjects
    SubjectOf <- MCSubjectOf
    MaxDeliver = 2
    Garbled = {e2}
    Unsigned = {e3}
    MaxBatch = 2
    MaxFaults <- PromiseFaults
SPECIFICATION FairSpec
PROPERTIES
    PromiseKept
    EnvelopesEnd
CHECK_DEADLOCK FALSE
