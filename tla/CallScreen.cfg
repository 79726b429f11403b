SPECIFICATION Spec
CONSTANTS
    EarlyStatusMs = 3
    FallbackTriggerMs = 6
    AbandonMs = 20
    ElapsedTimes = {2, 3, 6, 20}
INVARIANTS
    TypeOK
    NothingShownTooEarly
PROPERTIES
    UsedFallbackIsTried
    ScreenSettles
    KeepsPromise
