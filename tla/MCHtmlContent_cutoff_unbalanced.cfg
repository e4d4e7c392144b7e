SPECIFICATION Spec
CONSTANTS
    Options = {}
    MaxDocs = 1
    KeepLog = FALSE
    Tags <- StructureTags
    CloseKinds = {"gt", "none"}
    TextKinds = {"text"}
    MarkupKinds = {}
    MaxTokens = 4
INVARIANT SinkMirrorsStack
CHECK_DEADLOCK FALSE
