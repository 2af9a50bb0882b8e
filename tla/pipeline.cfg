CONSTANTS
    e1 = e1
    e2 = e2
    Envelopes = {e1, e2}
    Ulid <- MCUlid
    Forms = {"kept"}
    ScanLimit = 2
    SUBJECTS <- MCSubjects
    SubjectOf <- MCSubjectOf
    MaxDeliver = 2
    Garbled = {}
    Unsigned = {}
    MaxBatch = 1
    MaxFaults <- MCFaults
    ProjectorFaults <- MCProjectorFaults
SPECIFICATION FairPipelineSpec
INVARIANTS
    RowsAreCurrent
    NoFalseAlarm
PROPERTIES
    ProjectorSpecMet
    GoodIsProjected
CHECK_DEADLOCK FALSE
