SPECIFICATION Spec
CONSTANTS
    Http = {h1}
    Tunnel = {t1}
    Lifetimes = {1, 2}
    ExpireBatch = 1
    MaxEvents = 2
    Faults = {"epoll_add", "epoll_wait", "panic", "refuse"}
    PeerActions = {"data", "gone"}
    MaxNow = 2
    MaxKey = 3
    None = None
INVARIANTS
    LotAccounted
    NoLostWake
PROPERTIES
    WokenForCause
    KeptUntilDue
CHECK_DEADLOCK FALSE
