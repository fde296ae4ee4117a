\* Two userspaces, files kept while the store changes, damaged or foreign.
CONSTANTS
    s1 = s1  s2 = s2  k1 = k1  k2 = k2  kLong = kLong
    text = text  json = json  long = long  wrapping = wrapping
    one = one  word = word  big = big
    NoRec = NoRec  NoFile = NoFile  NoAnswer = NoAnswer
    Spaces = {s1, s2}
    KeySeq <- Order
    ContentTypes = {text, json, long, wrapping}
    Bodies = {one, word, big}
    Size <- Sizes
    ValueType <- Types
    ValidJSON = {one}
    Stores <- EmptyOrFilled
    OtherRecords <- Others
    MaxKeySize = 4
    MaxValueSize = 66000
    MaxEvents = 4
SYMMETRY Userspaces
SPECIFICATION ExchangeSpec
INVARIANTS
    ExchangeTypeOK
    StoredLikePut
    DamagedRefused
    RefusedOnlyForSize
PROPERTIES
    RestoresExport
    ReportTellsTruth
CHECK_DEADLOCK FALSE
