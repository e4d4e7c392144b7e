SPECIFICATION Spec
CONSTANTS
    Options = {}
    MaxDocs = 2
    KeepLog = FALSE
    Tags <- RecoveryTags
    CloseKinds = {"gt", "selfclose"}
    TextKinds = {"text", "lt"}
    MarkupKinds = {"comment", "pi", "doctype"}
    MaxTokens = 6
INVARIANT SinkMirrorsStack
CHECK_DEADLOCK FALSE
