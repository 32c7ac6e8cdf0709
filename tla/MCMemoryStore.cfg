CONSTANTS
    Users = {u1}
    Inputs = {home, office}
    Callers = {c1, c2}
    LastVersion = 3
    Named <- MCNamed
    None = None
SPECIFICATION FairSpec
INVARIANTS
    TypeOK
    EvidenceBeforeVisibility
    HistoryMatchesProjection
    OneWinner
PROPERTIES
    EveryCallReturns
    NoLostUpdate
    ContractSpec
