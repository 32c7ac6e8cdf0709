CONSTANTS
    Users = {u1}
    Keys = {k1}
    Bodies = {home, office, bad}
    Valid = {home, office}
    Handlers = {h1, h2, h3}
    ReservationTimeout = 1
    Retention = 2
    None = None
SPECIFICATION Spec
SYMMETRY Symmetry
INVARIANTS
    TypeOK
    OneRunUntilLapse
    ReservationHasOwner
    CreatedIsMine
PROPERTIES
    CompleteIsKept
    KeyedSpec
