\* A transaction executes while a fragment of another one is stored.
CONSTANTS
    p1 = p1  p2 = p2  s1 = s1  s2 = s2
    k1 = k1  k2 = k2  b1 = b1  b2 = b2  txt = txt
    o1 = o1  o2 = o2  tA = tA  tB = tB
    NoRec = NoRec  NoOp = NoOp  NoTx = NoTx  NoDigest = NoDigest
    NoResult = NoResult  NoBody = NoBody  NoType = NoType  Free = Free
    Principals = {p1, p2}
    Keys = {k1, k2}
    ContentTypes = {txt}
    Bodies = {b1, b2}
    OpIDs = {o1, o2}
    Fragments <- AllOps
    MaxOps = 2
    DefaultTimeout = 1
    MaxTimeout = 2
    NanosPerMilli = 2
    HalfRange = 8
    Spaces = {s1, s2}
    SpaceOf <- MCSpaceOf
    TxIDs = {tA, tB}
    Digests = {}
    Imports = {}
    Reqs = {r1, r2}
    Calls <- CommitAndOther
    Boots <- TwoTxs
    MaxEvents = 2
    MaxInFlight = 2
    MaxNow = 0
SPECIFICATION Spec
PROPERTIES
    OthersUntouched
CHECK_DEADLOCK FALSE
