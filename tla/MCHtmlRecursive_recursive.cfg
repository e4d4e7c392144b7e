SPECIFICATION Spec
CONSTANTS
    KeepLog = TRUE
    Tags <- RecursionTags
    CloseKinds = {"gt", "selfclose", "none"}
    TextKinds = {"text", "lt"}
    MarkupKinds = {"comment"}
    MaxTokens = 5
    Options = {}
    MaxDocs = 1
INVARIANTS
    TypeOK
    RecursiveAgrees
CHECK_DEADLOCK FALSE
