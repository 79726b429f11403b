SPECIFICATION Spec
CONSTANTS
    MaxGenerated = 5
    MaxRestarts = 2
INVARIANTS
    TypeOK
    PairsMatch
PROPERTIES
    IdentityIsKept
    ForgottenReturnsOnlyFromDisk
    ImplementsRegister
CHECK_DEADLOCK FALSE
