SPECIFICATION FairSpec
CONSTANTS
    Scopes <- MCScopes
    Position <- MCPosition
    Intents <- MCIntents
    Groups <- MCGroups
    Deployments <- MCDeployments
    FailuresToOpen = 2
    Cooldown = 1
    TopK = 2
    MaxPositions = 1
    MaxPending = 1
    MaxTrades = 2
    ScopeOpen = 1
    ScopePending = 2
    ScopeTrades = 2
    NoScope = NoScope
INVARIANTS TypeOK GroupExposure TotalExposure DayTrades RowsCoherent
PROPERTIES BreakerRecovers
CHECK_DEADLOCK FALSE
