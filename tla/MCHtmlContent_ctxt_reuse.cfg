SPECIFICATION Spec
CONSTANTS
    KeepLog = FALSE
    Tags = {"p"}
    CloseKinds = {"gt"}
    TextKinds = {"text"}
    MarkupKinds = {}
    MaxTokens = 2
    Options = {"NOIMPLIED"}
    MaxDocs = 2
INVARIANT HtmlRootImplied
CHECK_DEADLOCK FALSE
