CONSTANTS
    Clients = {c1, c2}
    MaxFaults = 2
    Wildcard = Wildcard
    None = None
SPECIFICATION FairSpec
CHECK_DEADLOCK FALSE
INVARIANTS
    TypeOK
    EditStandsWhereItClaims
    FateIsKnown
PROPERTIES
    RefusalIsFinal
    EditsSpec
    EveryEditSettles
