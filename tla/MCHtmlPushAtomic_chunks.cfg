SPECIFICATION HSpec
CONSTANTS
    NoImplied = FALSE
    KeepLog = TRUE
    Documents <- InBodyDocs
INVARIANTS
    TypeOK
    DocumentEnded
PROPERTIES
    AtomicChunks
    LoopVariant
CHECK_DEADLOCK FALSE
