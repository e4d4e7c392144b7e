SPECIFICATION Spec
CONSTANTS
    Options = {}
    MaxDocs = 1
    KeepLog = FALSE
    Tags <- StructureTags
    CloseKinds = {"gt", "selfclose", "none"}
    TextKinds = {"text"}
    MarkupKinds = {}
    MaxTokens = 7
INVARIANTS
    TypeOK
    RawTextModeAgrees
    StructureSkeleton
    HtmlRootImplied
CHECK_DEADLOCK FALSE
