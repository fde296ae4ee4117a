\* Every way to be let in and every route, two requests at a time, with credentials
\* that come and go and a cache of one entry.
CONSTANTS
    n1 = n1  n2 = n2  r1 = r1  r2 = r2  us = us  other = other
    Blank = Blank  Bad = Bad  NoOne = NoOne  NoEntry = NoEntry  Refused = Refused
    Reqs = {r1, r2}
    Names = {n1, n2}
    Spaces = {"u", "b"}
    Grants <- MCGrants
    BootCreds <- Founded
    Texts <- MCTexts
    Decode <- MCDecode
    ValidKeys <- MCKeys
    ValidSpaces = {"u", "b", "kv", "tx", "admin", "export", "import"}
    Requests <- AllRequests
    Issuer = us
    Audience = us
    TTL = 1
    MaxEntries = 1
    MaxEvents = 3
    MaxNow = 2
SYMMETRY Symmetry
SPECIFICATION Spec
INVARIANTS
    GatewayTypeOK
    LetInAsOwn
    OwnSpaceOnly
PROPERTIES
    TrustEnds
CHECK_DEADLOCK FALSE
