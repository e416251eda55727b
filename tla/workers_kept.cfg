SPECIFICATION Spec
CONSTANTS
    Callers = {c1, c2}
    Threads = {w1, w2}
    Jobs = {j1, j2}
    MaxIdle = 1
    Ops = {"run"}
    Limits = {1, 2}
    Faults = {}
    None = None
INVARIANTS
    AcceptedIsKept
