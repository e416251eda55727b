SPECIFICATION FairSpec
CONSTANTS
    Callers = {c1}
    Threads = {w1, w2, w3}
    Jobs = {j1, j2, j3}
    MaxIdle = 1
    Ops = {"run"}
    Limits = {0, 1}
    Faults = {}
    None = None
PROPERTIES
    QueuedIsTaken
