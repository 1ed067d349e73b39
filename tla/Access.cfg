SPECIFICATION AccessSpec
CONSTANTS
    Login = {Ann, Bea}
    SigningKey = {K1, K2}
    FirstLogin = Ann
    FirstKey = K1
    Unset = Unset
    Call = {c1, c2}
    JwtLife = 2
    MaxIdle = 2
    TouchAfter = 1
    MaxTimer = 1
    MaxJwt = 1
    MaxDevice = 1
    MaxSocket = 1
    MaxEpoch = 3
    LastDay = 3
    HouseholdToken = {j1, j2}
    TrustedToken = {d1}
    NoToken = NoToken
    Attempt = {s1, s2}
    MaxRequest = 2
    Address <- Addresses
    MaxRequests = 1
    Window = 2
    MaxBuckets = 2
    LastMoment = 4
    Guess = {g1, g2, g3, g4}
    Free = 1
    BaseGap = 1
    CapGap = 2
    MaxWait = 2
    Quiet = 3
    LastTick = 5
    EngineRequest <- Handshakes
    Absent = Absent
    Malformed = Malformed
    AppOrigin = Absent
    PerClientMax = 2
    TotalMax = 3
    Task = {t1, t2, t3, t4, t5}
    Concurrency = 2
    Queue = 2
INVARIANTS
    AccessTypeOK
    NothingOutlivesSignOut
    GuessesDelayed
    SlotsCounted
    GateSound
PROPERTIES
    EndedForGood
    DeadSocketsDropped
    SessionNoticed
    LockoutKept
    ImplementsPool
    EveryWaiterRuns
CHECK_DEADLOCK FALSE
