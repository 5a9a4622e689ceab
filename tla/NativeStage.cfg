SPECIFICATION Spec
CONSTANTS
    Steps = 4
    QueueCap = 4
    Tables = 2
    EarlyVerify = 1
    NativeVerify = 1
INVARIANTS
    TypeOK
    BuffersQuiet
    OwnHash
    VerifiedRowsExact
CHECK_DEADLOCK FALSE
