\* A valid key whose mirror name is longer than a file name may be.
CONSTANTS
    p1 = p1  s1 = s1  b1 = b1  b2 = b2
    NoRec = NoRec  NoOp = NoOp  NoTx = NoTx  NoDigest = NoDigest
    NoResult = NoResult  NoBody = NoBody  NoType = NoType
    Torn = Torn  NoImage = NoImage  Nobody = Nobody
    Principals = {p1}
    Spaces = {s1}
    SpaceOf <- SpaceOfOne
    Keys <- PlainKeys
    ContentTypes <- TextOnly
    Bodies = {b1}
    OpIDs = {}
    Fragments = {}
    TxIDs = {}
    MaxOps = 1
    Digests = {}
    UnsafeKeys <- UnsafeOne
    LongKeys <- UnsafeOne
    Batches = {}
    Faults = FALSE
    MaxChanges = 2
SPECIFICATION FilesSpec
INVARIANTS
    RefusedByDiskOnly
CHECK_DEADLOCK FALSE
