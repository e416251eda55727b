SPECIFICATION Spec
CONSTANTS
    Urls = {u1, u2}
    Refreshes = {2}
    Retry = 1
    CheckInterval = 1
    BeginAt = 5
    MaxNow = 8
    MaxEdits = 0
    MaxReloads = 1
    MaxRestarts = 0
    None = None
INVARIANT
    UrlIsCurrent
CHECK_DEADLOCK FALSE
