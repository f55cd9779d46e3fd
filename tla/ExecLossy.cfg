SPECIFICATION Spec
CONSTANTS
    NSignals = 2
    MaxOrders = 2
    MaxTime = 1
    Interval = 1
    SubmitGrace = 0
    SettleGrace = 1
    SettleAfter = 1
    Lookback = 0
    Provider = "iqoption"
    SharedBridge = TRUE
    DayLen = 2
    RecentDays = 3
    Verdicts = {"trade"}
    Workers = {w1}
    Reconcilers = {}
    NotFoundGrace = 1
    MatchDelta = 1
    EnforceDeadline = TRUE
    AdapterMayFail = FALSE
    OperatorHalts = FALSE
    BuyRetries = 2
    MaxCrashes = 0
    Lookalikes <- TwinPair
PROPERTIES TerminalIsFinal ImplementsLossyLifecycle
