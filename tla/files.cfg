SPECIFICATION Spec
SYMMETRY Symmetric
CONSTANTS
    Keys = {k1, k2}
    Writers = {w1, w2}
    Users = {u1}
    Capacities = {2, 4}
    MaxObject = 3
    Lengths = {2}
    RoomStep = 1
    EntryCaps = {1, 2}
    Metas <- SoonOrLate
    MaxStale = 0
    MaxNow = 1
    MaxStores = 1
    HostSlots = {1, 2}
    MaxCount = 2
    MaxCrashes = 1
    MaxFaults = 1
    Causes = {c1, c2}
    Cap = 2
    MergeWindow = 1
    TickMax = 1
    SlotCount = 3
    MaxRecords = 5
    MaxRestarts = 2
    FirstSize = 2
    SizeStep = 2
    Floor = 1
    Confirm = 3
    Heartbeat = 2
    StallTicks = 2
    Relearn = 5
    Limits = {1, 3, 5}
    LastNow = 12
    MaxStops = 1
    MaxSlack = 2
    Urls = {u1}
    Refreshes = {2}
    Retry = 1
    CheckInterval = 1
    BeginAt = 5
    ListEnd = 7
    MaxEdits = 1
    MaxReloads = 1
    ListStarts = 1
    Values = {1, 2}
    Default = 1
    MaxSaves = 3
    Minute = 2
    Hour = 4
    Fine = 4
    Minutes = 3
    Hours = 2
    SampleCap = 5
    HistoryEnd = 13
    Day = 4
    FileLines = 1
    KeptDays = 1
    StartAfter = 2
    DaysEnd = 12
    MaxSets = 1
    MaxTroubles = 2
    None = None
INVARIANTS
    DiskAgrees
    FilesTellTheTruth
PROPERTIES
    FreshSurvive
CHECK_DEADLOCK FALSE
