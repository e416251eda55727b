SPECIFICATION Spec
CONSTANTS
    Callers = {c1, c2}
    Threads = {w1, w2, w3}
    Jobs = {j1, j2, j3}
    MaxIdle = 1
    Ops = {"run", "try_run", "run_outside"}
    Limits = {1, 2}
    Faults = {"panic", "spawn"}
    None = None
SYMMETRY Symmetric
INVARIANTS
    JobsAccounted
    SeatsAccounted
    QueueIsWatched
    NoIdleWhileQueued
PROPERTIES
    SeatsWithinLimit
    ImplementsJobPool
