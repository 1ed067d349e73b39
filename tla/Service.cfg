SPECIFICATION ServiceSpec
CONSTANTS
    MaxBuffered = 0
    KeepWeeks = 1
    NoStream = NoStream
    MaxEntry = 3
    LastWeek = 2
    Signal = {TERM, INT}
    Running = Running
    MaxConnection = 1
    MaxAbandoned = 1
    MaxAtStop = 2
    u1 = u1
    u2 = u2
    Upload = {u1, u2}
    HeavySlots = 1
    Hour = 1
    Planted = {p}
    LastClock = 2
    MaxCrash = 2
    KeepDays = 1
    LastNight = 4
    MaxCopy = 3
    StockItem = {i1}
    OldImport = {1, 2, 3}
    InvoiceNumber = {k1}
    NoNumber = NoNumber
    MaxStart = 2
    Lines = 3
    BatchSize = 2
    Workers = 2
    Stock = 4
    MatchMax = 3
    Ranking <- Rankings
    MaxReply = 2
    Label = {c1, c2}
    MaxLine = 4
    MaxPending = 1
INVARIANTS
    ServiceTypeOK
    CleanExit
    GapsExplained
    BackupKept
    SchemaCurrent
    LinesRead
PROPERTIES
    ShutdownEnds
    ScratchFreed
    SweepSparesLive
CHECK_DEADLOCK FALSE
