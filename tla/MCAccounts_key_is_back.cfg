\* The configured key is rotated away and the process starts again.
CONSTANTS
    b = b  u = u  kb = kb  jb = jb  k0 = k0  k1 = k1  k2 = k2
    t1 = t1  r1 = r1  r2 = r2
    NoOne = NoOne  NoEntry = NoEntry  NoSpace = NoSpace
    NoStore = NoStore  Free = Free
    Spaces = {b, u}
    BootSpace = b
    BootKey = kb
    BootSubject = jb
    NewKeys = {k0, k1, k2}
    TxIDs = {t1}
    Reqs = {r1}
    Calls <- RotateOwn
    Stores <- OneUser
    MaxEntries = 2
    Faults = FALSE
    MaxEvents = 3
    MaxInFlight = 1
SPECIFICATION AccountsSpec
INVARIANTS
    RemovalOutlivesRestart
CHECK_DEADLOCK FALSE
