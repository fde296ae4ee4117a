\* A key whose encoding is itself an encoding.
CONSTANTS
    n1 = n1  n2 = n2  r1 = r1  r2 = r2  us = us  other = other
    Blank = Blank  Bad = Bad  NoOne = NoOne  NoEntry = NoEntry  Refused = Refused
    Reqs = {r1, r2}
    Names = {n1, n2}
    Spaces = {"u", "b"}
    Grants <- MCGrants
    BootCreds <- Everyone
    Texts <- MCTexts
    Decode <- MCDecode
    ValidKeys <- MCKeys
    ValidSpaces = {"u", "b", "kv", "tx", "admin", "export", "import"}
    Requests <- EncodedKeys
    Issuer = us
    Audience = us
    TTL = 1
    MaxEntries = 1
    MaxEvents = 1
    MaxNow = 2
SYMMETRY Symmetry
SPECIFICATION Spec
INVARIANTS
    KeyEncodedOnce
CHECK_DEADLOCK FALSE
