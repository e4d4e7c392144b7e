SPECIFICATION Spec
CONSTANTS
    Options = {}
    MaxDocs = 1
    KeepLog = FALSE
    Tags <- StructureTags
    CloseKinds = {"gt", "selfclose"}
    TextKinds = {"text"}
    MarkupKinds = {}
    MaxTokens = 5
PROPERTY DiscardedTagKeepsParents
CHECK_DEADLOCK FALSE
