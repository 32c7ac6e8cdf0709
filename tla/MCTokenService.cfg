CONSTANTS
    Tokens = {t1, t2}
    Keys <- MCKeys
    Secrets = {s1, s2}
    Handlers = {h1, h2}
    Ttl = 1
    Leeway = 0
    BackStep = 1
    LastSecond = 2
    None = None
SPECIFICATION Spec
SYMMETRY Symmetry
INVARIANTS
    TypeOK
    RevocationHolds
    ListIsBounded
    LiveTokenAccepted
PROPERTIES
    LogoutOutlivesRestart
