CONSTANTS
    MaxAddressBytes = 3
    MaxPhoneBytes = 3
    MinPhoneDigits = 1
    MaxPhoneDigits = 2
    Samples <- MCSamples
    Bodies <- MCBodies
    Users = {u1, u2}
    Requests = {r1, r2}
    Ids = {quoted}
    Junk = Junk
    Secret = Secret
    None = None
SPECIFICATION Spec
SYMMETRY Symmetry
INVARIANTS
    BothLogsCorrelated
