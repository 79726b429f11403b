SPECIFICATION Spec
CONSTANTS
    Base = 6
    Texts <- MCTexts
    Mids <- MCMids
    MLineIndexes <- MCMLineIndexes
    GarbageLength = 6
INVARIANTS
    TypeOK
    RoundTrip
    NoMessageFromItsBeginning
    NothingInvented
    SealedTextsAreWhole
CHECK_DEADLOCK FALSE
