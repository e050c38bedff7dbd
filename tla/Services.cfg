\* Incidents with one request at a time, or one of the services around the core.
SPECIFICATION FairlySpec
CONSTANTS
    Users = {owner, guardian}
    Protected = {owner}
    Admins = {owner}
    Emergencies = {1}
    Requests = {r1}
    NoOne = NoOne
    MaxEvents = 4
    MaxCrashes = 1
    Addresses = {a1}
    NoAddress = NoAddress
    UnknownAddress = UnknownAddress
    MaxRequests = 2
    WindowTicks = 2
    MaxTrackedKeys = 1
    MaxClock = 4
    MaxAccepted = 3
    Jobs = {j1, j2}
    Servers = {srv}
    LastMigration = 2
    RolesMigration = 2
    MaxCuts = 1
    MaxOutages = 1
    Subscribers = {u, v}
    Tokens = {t1, t2}
    Nobody = Nobody
    Sends = {send1}
    BearerLife = 2
    BearerMargin = 1
    MaxChanges = 4
    Accounts = {adm, own}
    Sockets = {s1, s2}
    Emits = {e1}
    MaxPeerMoves = 3
    LastIncident = 2
    PageLimit = 1
    MaxLapses = 2
    Persons = {p1}
    Tags = {tag1}
    NoTag = NoTag
    Calls = {c1}
    Skew = 1
    MaxNow = 2
    MaxFixes = 2
    LastKey = 4
    ServiceMost = 2
    HistoryMost = 3
    MaxChurn = 2
    Holders = {h1}
    Visits = {visit1}
    AccessLife = 2
    LastTick = 3
    MaxTurns = 3
    LastRun = 4
    MaxFaults = 1
    LastSocket = 3
    MaxStirs = 7
INVARIANTS
    TimelineChains
    ServicesTypeOK
    WindowHolds
    MigrationsHold
    PromotionHolds
    SendsAccounted
    StrangersExplained
    BearerLasts
    RegistriesExplained
    MonitorExplained
    StampProvesSecret
    LatestCatchesUp
    WalkExplained
    AccessEnds
    SharingExplained
    OneLiveSocket
PROPERTIES
    KeepsContract
    SosIsAnnounced
    EmitsEnd
    ServedMonitorReturns
    LossIsRetried
CHECK_DEADLOCK FALSE
