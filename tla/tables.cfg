SPECIFICATION Spec
SYMMETRY Symmetric
CONSTANTS
    Threads = {t1, t2}
    Keys = {k1, k2, k3}
    FewKeys = {a, b}
    Sizes = {1, 2}
    Capacities = {0, 3}
    ReserveMode = "staged"
    Chunk = 1
    EvictBatch = 1
    MaxTick = 3
    MaxProbes = 1
    Period = 2
    RotateAfter = 2
    ClockEnd = 5
    Start = 1
    Thresholds = {2, 3}
    MaxOpen = 4
    MaxShots = 4
    DefaultTtl = 2
    NegativeTtl = 1
    HeuristicPercent = 100
    HeuristicMax = 3
    Grace = 1
    FirstNow = 2
    LastNow = 4
    Sayings <- FewSayings
    MaxSaid = 3
    Interval = 2
    MaxBytes = 1
    MaxParks = 1
    Sweeper = sweeper
    Hosts = {h1, h2, h3}
    Conns = {k1, k2, k3}
    MaxPerHost = 1
    MaxTotal = 1
    Wrap = 16
    Callers = {k1, k2, k3}
    Workers = {t1, t2}
    Limits = {1, 2}
    MaxJobs = 4
    Names = {t1, t2}
    Askers = {a1, a2}
    MaxEntries = 1
    MaxWarm = 1
    After = 1
    MaxNow = 2
    MaxMsgs = 2
    V6 = {a6, b6}
    V4 = {a4, b4}
    MaxCandidates = 3
    LossLimit = 3
    ProbeSecs = 2
    PolicyEnd = 5
    PipeBytes = 2
    Total = 8
    Part = 6
    Floor = 1
    ManualFloor = 0
    Actives = {0}
    Percent = 25
    Window = 3
    Decay = 2
    Escalate = 2
    Fast = 1
    Slow = 3
    Near = 80
    Pause = 2
    Jump = 2
    MaxRounds = 4
    MaxMoves = 1
    None = None
INVARIANTS
    MemoryAgrees
    AnswersAreFresh
    BudgetHolds
    PoolAccounted
    TunnelIsTransparent
    KeysAreRemembered
    ShownIsTrue
    NamesAreServed
    RaceIsFair
PROPERTIES
    LruFirst
CHECK_DEADLOCK FALSE
