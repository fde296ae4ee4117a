\* A commit that failed to persist is answered as done when it is sent again.
CONSTANTS
    p1 = p1  s1 = s1  b1 = b1  b2 = b2
    NoRec = NoRec  NoOp = NoOp  NoTx = NoTx  NoDigest = NoDigest
    NoResult = NoResult  NoBody = NoBody  NoType = NoType
    Torn = Torn  NoImage = NoImage  Nobody = Nobody
    Principals = {p1}
    Spaces = {s1}
    SpaceOf <- SpaceOfOne
    Keys <- PlainKeys
    ContentTypes <- TextOnly
    Bodies = {b1}
    OpIDs = {}
    Fragments = {}
    TxIDs = {}
    MaxOps = 1
    Digests = {}
    UnsafeKeys <- UnsafeOne
    LongKeys = {}
    Batches <- PlainBatches
    Faults = TRUE
    MaxChanges = 2
SPECIFICATION FilesSpec
INVARIANTS
    RepeatedIsDurable
CHECK_DEADLOCK FALSE
