CONSTANTS
    e1 = e1
    e2 = e2
    e3 = e3
    Envelopes = {e1, e2, e3}
    Ulid <- MCUlid
    Forms = {"kept"}
    ScanLimit = 2
    SUBJECTS <- MCSubjects
    SubjectOf <- MCSubjectOf
    MaxDeliver = 2
    Garbled = {}
    Unsigned = {}
    MaxBatch = 2
    MaxFaults <- SafetyFaults
SPECIFICATION Spec
INVARIANTS
    IndInv
    AckedIsAccountedFor
    ChainWellFounded
    EachForkCostsAFault
    LossNeedsFaults
    OnlyRedeliveryDisturbs
PROPERTIES
    AckedIsFinal
CHECK_DEADLOCK FALSE
