SPECIFICATION Spec
CONSTANTS
    Base = 6
    Texts <- MCTexts
    Mids <- MCMids
    MLineIndexes <- MCMLineIndexes
    GarbageLength = 6
INVARIANT
    TextsAreVerbatim
CHECK_DEADLOCK FALSE
