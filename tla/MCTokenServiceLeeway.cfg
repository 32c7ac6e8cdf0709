CONSTANTS
    Tokens = {t1, t2}
    Keys <- MCKeys
    Secrets = {s1, s2}
    Handlers = {h1, h2}
    Ttl = 1
    Leeway = 1
    BackStep = 0
    LastSecond = 2
    None = None
SPECIFICATION Spec
SYMMETRY Symmetry
INVARIANTS
    RevokedStaysRefused
