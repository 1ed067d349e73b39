SPECIFICATION StopSpec
CONSTANTS
    MaxBuffered = 0
    KeepWeeks = 1
    NoStream = NoStream
    MaxEntry = 3
    LastWeek = 2
    Signal = {TERM, INT}
    Running = Running
    MaxConnection = 1
    MaxAbandoned = 1
INVARIANT FlushWritesAll
CHECK_DEADLOCK FALSE
