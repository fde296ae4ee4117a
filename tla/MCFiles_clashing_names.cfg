\* Two keys whose values are mirrored under one name.
CONSTANTS
    p1 = p1  s1 = s1  b1 = b1  b2 = b2
    NoRec = NoRec  NoOp = NoOp  NoTx = NoTx  NoDigest = NoDigest
    NoResult = NoResult  NoBody = NoBody  NoType = NoType
    Torn = Torn  NoImage = NoImage  Nobody = Nobody
    Principals = {p1}
    Spaces = {s1}
    SpaceOf <- SpaceOfOne
    Keys <- ClashingKeys
    ContentTypes <- Types
    Bodies = {b1, b2}
    OpIDs = {}
    Fragments = {}
    TxIDs = {}
    MaxOps = 1
    Digests = {}
    UnsafeKeys = {}
    LongKeys = {}
    Batches = {}
    Faults = FALSE
    MaxChanges = 2
SPECIFICATION FilesSpec
PROPERTIES
    MirrorComplete
CHECK_DEADLOCK FALSE
