SPECIFICATION Spec
CONSTANTS
    Threads = {t1, t2}
    Capacity = 2
    Longest = 2
    PoolMax = 1
    MaxTransfers = 3
    None = None
INVARIANT
    LeftoversAreLost
CHECK_DEADLOCK FALSE
