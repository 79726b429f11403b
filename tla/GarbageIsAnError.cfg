SPECIFICATION Spec
CONSTANTS
    Radix = 4
    KeyBytes = 1
    FirstLetter = 3
    MaxLength = 5
    SecretsInOrder <- MCSecretsInOrder
    MaxCalls = 2
INVARIANT
    GarbageIsAnError
CHECK_DEADLOCK FALSE
