SPECIFICATION Spec
CONSTANTS
    Radix = 4
    KeyBytes = 1
    FirstLetter = 3
    MaxLength = 5
    SecretsInOrder <- MCSecretsInOrder
    MaxCalls = 2
INVARIANTS
    TypeOK
    WholeTextsOnly
    ChannelsAgree
    InitiatorMeetsResponder
    PossessionIsProven
    AcceptedTextSaysItsBytes
CHECK_DEADLOCK FALSE
