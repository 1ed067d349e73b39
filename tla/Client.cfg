SPECIFICATION ScreenSpec
CONSTANTS
    Line = {l1, l2}
    None = None
    MaxEdit = 3
    MaxImports = 2
    MaxModal = 2
    MaxCall = 2
    NoPanel = NoPanel
    MaxDraft = 3
    MaxForm = 2
    MaxLost = 1
    Unread = Unread
    MaxVersion = 2
    MaxAsk = 2
    Location = {a, b}
    Unassigned = Unassigned
    Omitted = Omitted
    Whole = Whole
    NoRequest = NoRequest
    MaxQty = 2
INVARIANTS
    ScreenTypeOK
    WrittenOnce
    ScreenExplained
PROPERTIES
    AppliedInOrder
    CommitWhenSure
    DrainReturns
    ChangesWhatWasShown
CHECK_DEADLOCK FALSE
