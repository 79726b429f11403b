SPECIFICATION Spec
CONSTANTS
    EarlyStatusMs = 3
    FallbackTriggerMs = 6
    AbandonMs = 20
    TickGaps = {2}
    MaxNow = 22
INVARIANT
    BothDownIsShown
