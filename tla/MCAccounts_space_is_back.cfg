\* A write let in before its userspace is deleted is made after it.
CONSTANTS
    b = b  u = u  kb = kb  jb = jb  k0 = k0  k1 = k1  k2 = k2
    t1 = t1  r1 = r1  r2 = r2
    NoOne = NoOne  NoEntry = NoEntry  NoSpace = NoSpace
    NoStore = NoStore  Free = Free
    Spaces = {b, u}
    BootSpace = b
    BootKey = kb
    BootSubject = jb
    NewKeys = {k0, k1, k2}
    TxIDs = {t1}
    Reqs = {r1, r2}
    Calls <- DeleteAndWrite
    Stores <- OneUser
    MaxEntries = 2
    Faults = FALSE
    MaxEvents = 2
    MaxInFlight = 2
SPECIFICATION AccountsSpec
INVARIANTS
    DeletedIsGone
CHECK_DEADLOCK FALSE
