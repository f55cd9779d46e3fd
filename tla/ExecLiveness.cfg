SPECIFICATION FairSpec
CONSTANTS
    NSignals = 1
    MaxOrders = 3
    MaxTime = 3
    Interval = 1
    SubmitGrace = 0
    SettleGrace = 1
    SettleAfter = 1
    Lookback = 4
    Provider = "fake"
    SharedBridge = FALSE
    DayLen = 2
    RecentDays = 3
    Verdicts = {"hold", "trade"}
    Workers = {w1}
    Reconcilers = {}
    NotFoundGrace = 1
    MatchDelta = 1
    EnforceDeadline = FALSE
    AdapterMayFail = FALSE
    OperatorHalts = TRUE
    BuyRetries = 1
    MaxCrashes = 2
    Lookalikes <- NoPairs
PROPERTIES EventuallyResolved
