SPECIFICATION Spec
CONSTANTS
    NSignals = 2
    MaxOrders = 3
    MaxTime = 3
    Interval = 1
    SubmitGrace = 0
    SettleGrace = 1
    SettleAfter = 1
    Lookback = 4
    Provider = "fake"
    SharedBridge = FALSE
    DayLen = 1
    RecentDays = 3
    Verdicts = {"trade"}
    Workers = {w1}
    Reconcilers = {}
    NotFoundGrace = 1
    MatchDelta = 1
    EnforceDeadline = FALSE
    AdapterMayFail = FALSE
    OperatorHalts = FALSE
    BuyRetries = 1
    MaxCrashes = 0
    Lookalikes <- NoPairs
PROPERTIES LatestSignalProducesIntent
