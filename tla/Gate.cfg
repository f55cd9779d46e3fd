SPECIFICATION FairSpec
CONSTANTS
    Scopes <- MCScopes
    Cluster <- MCCluster
    ProtectRates <- MCRates
    Intents <- MCIntents
    Interval = 1
    EntryWindow = 1
    MaxDelay = 1
    MaxTime = 1
    Serialized = TRUE
    MaxOpen = 1
    MaxUnknown = 1
    MaxFailures = 0
    FailureWindow = 0
    Spacing = 0
    RateCap = 1
    RateWindow = 0
    Protected = TRUE
    MaxPerCluster = 1
    DayCap = 9
    OperatorHalts = TRUE
    HaltMishaps = 0
    MaxMishaps = 1
    NoScope = NoScope
INVARIANTS TypeOK UnknownBound OneInLock SubmitRate HaltLeavesOne
PROPERTIES KeepsNotes LockIsFreed
CHECK_DEADLOCK FALSE
