SPECIFICATION Spec
CONSTANTS
    NoImplied = FALSE
    KeepLog = TRUE
    Documents <- ShortDocs
PROPERTY
    CallReturns
CHECK_DEADLOCK FALSE
