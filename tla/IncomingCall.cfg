SPECIFICATION FairSpec
CONSTANTS
    Callers = {"alice", "bob"}
    MaxCalls = 3
    MaxKills = 2
INVARIANTS
    TypeOK
    DecisionIsForTheCallerSeen
PROPERTIES
    PromptStaysOnlyBehindItsScreen
    ListenerComesBack
