SPECIFICATION FairSpec
CONSTANTS
    EarlyStatusMs = 3
    FallbackTriggerMs = 6
    AbandonMs = 20
    TickGaps = {2, 16}
    MaxNow = 22
INVARIANTS
    TypeOK
    OneFreshDirectAttempt
    NeverSilentWhileConnecting
    PunctualCallTriesDirectChannel
    AbandonedLeavesNoAttempt
PROPERTIES
    ConnectionLostOnlyByFailureReport
    KeepsPromise
    UndecidedMeansUnanswered
