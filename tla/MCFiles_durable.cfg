\* Writes, input/output errors and crashes at every step.
CONSTANTS
    p1 = p1  s1 = s1  b1 = b1  b2 = b2
    NoRec = NoRec  NoOp = NoOp  NoTx = NoTx  NoDigest = NoDigest
    NoResult = NoResult  NoBody = NoBody  NoType = NoType
    Torn = Torn  NoImage = NoImage  Nobody = Nobody
    Principals = {p1}
    Spaces = {s1}
    SpaceOf <- SpaceOfOne
    Keys <- ThreeKeys
    ContentTypes <- TextOnly
    Bodies = {b1}
    OpIDs = {}
    Fragments = {}
    TxIDs = {}
    MaxOps = 1
    Digests = {}
    UnsafeKeys <- UnsafeOne
    LongKeys <- LongOne
    Batches <- PlainBatches
    Faults = TRUE
    MaxChanges = 3
SPECIFICATION FilesSpec
INVARIANTS
    FilesTypeOK
    AnsweredIsDurable
    ReadIsDurable
    VersionsNotReused
PROPERTIES
    FileNeverGoesBack
    MirrorComplete
CHECK_DEADLOCK FALSE
