CONSTANTS
    Users = {u1}
    Keys = {k1}
    Bodies = {home}
    Valid = {home}
    Handlers = {h1, h2, h3}
    ReservationTimeout = 1
    Retention = 2
    None = None
SPECIFICATION Spec
SYMMETRY Symmetry
INVARIANTS
    RetriesNeverBothRun
