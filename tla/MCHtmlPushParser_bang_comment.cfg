SPECIFICATION SafetySpec
CONSTANTS
    NoImplied = FALSE
    KeepLog = TRUE
    Documents <- BangCommentDocs
INVARIANT
    ChunkInvariance
CHECK_DEADLOCK FALSE
