SPECIFICATION FairSpec
CONSTANTS
    Http = {h1}
    Tunnel = {t1}
    Lifetimes = {1, 2}
    ExpireBatch = 1
    MaxEvents = 4
    Faults = {"slow_start"}
    PeerActions = {"data"}
    MaxNow = 1
    MaxKey = 2
    None = None
PROPERTIES
    DueIsReleased
    ReadyIsReleased
CHECK_DEADLOCK FALSE
