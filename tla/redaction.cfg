CONSTANTS
    Envelopes = {"mail", "commit", "ping"}
    SubjectOf <- MCSubjectOf
    FieldsOf <- MCFieldsOf
    HighEntropy <- MCHighEntropy
    SecretNames <- MCSecretNames
    redaction_enabled = TRUE
    MaxRedactFaults = 3
SPECIFICATION FairRedactSpec
INVARIANTS
    RedactInv
    OpenOnlyWithoutPolicy
PROPERTIES
    RedactionNeverBlocks
CHECK_DEADLOCK FALSE
