\* Two requests at a time, failing disk, restarts.
CONSTANTS
    b = b  u = u  kb = kb  jb = jb  k0 = k0  k1 = k1  k2 = k2
    t1 = t1  r1 = r1  r2 = r2
    NoOne = NoOne  NoEntry = NoEntry  NoSpace = NoSpace
    NoStore = NoStore  Free = Free
    Spaces = {b, u}
    BootSpace = b
    BootKey = kb
    BootSubject = jb
    NewKeys = {k0, k1, k2}
    TxIDs = {t1}
    Reqs = {r1, r2}
    Calls <- AllCalls
    Stores <- TwoKinds
    MaxEntries = 1
    Faults = TRUE
    MaxEvents = 4
    MaxInFlight = 2
SYMMETRY Requests
SPECIFICATION AccountsSpec
INVARIANTS
    AccountsTypeOK
    RemovedStaysRemoved
    OneKeyEach
    OnlyRacesLetIn
    OnlyRacesBringBack
CHECK_DEADLOCK FALSE
