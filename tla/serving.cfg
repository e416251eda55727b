SPECIFICATION Spec
SYMMETRY Symmetric
CONSTRAINT LiteIsSmall
CONSTANTS
    Listeners = {l1, l2}
    Conns = {c1, c2, c3, c4}
    Clients = {k1, k2}
    MaxConns = {1}
    PerClient = {0, 1}
    OverflowSlots = 1
    Lites = {FALSE, TRUE}
    Timeouts = {0, 3}
    HeaderTimeouts = {0, 2}
    Keepalives = {0, 4}
    Graces = {0, 1}
    OverflowTimeout = 1
    MaxRequests = 3
    MaxPieces = 5
    MaxNow = 7
    MaxLength = 2
    MaxChunks = 2
    MaxTrailers = 1
    MaxBody = 2
    Small = 1
    Threads = {t1, t2}
    Capacity = 2
    PoolMax = 1
    MaxTransfers = 3
    MaxLen = 2
    MaxVersions = 2
    MaxGets = 2
    None = None
INVARIANTS
    SharesAccounted
    WaitsEnd
    ParkedIsClean
    WaitersAreTold
    BodiesAreWhole
PROPERTIES
    HeadPartIsKept
CHECK_DEADLOCK FALSE
