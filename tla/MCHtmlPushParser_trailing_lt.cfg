SPECIFICATION SafetySpec
CONSTANTS
    NoImplied = FALSE
    KeepLog = TRUE
    Documents <- TrailingLtDocs
INVARIANT
    DocumentEnded
CHECK_DEADLOCK FALSE
