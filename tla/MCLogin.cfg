CONSTANTS
    Accounts = {alice}
    Names = {alice, nobody}
    Addresses = {a1}
    Handlers = {h1, h2}
    Permits = 1
    AccountLimit = 1
    AddressLimit = 2
    Window = 1
    None = None
SPECIFICATION FairSpec
INVARIANTS
    TypeOK
    PermitsConserved
    UniformRefusal
    GuessesBounded
PROPERTIES
    CountersRemember
    PermitsReturn
