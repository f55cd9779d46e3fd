SPECIFICATION Spec
CONSTANTS
    NSignals = 1
    MaxOrders = 2
    MaxTime = 3
    Interval = 1
    SubmitGrace = 0
    SettleGrace = 1
    SettleAfter = 1
    Lookback = 1
    Provider = "iqoption"
    SharedBridge = FALSE
    DayLen = 2
    RecentDays = 3
    Verdicts = {"trade"}
    Workers = {w1}
    Reconcilers = {r1}
    NotFoundGrace = 1
    MatchDelta = 1
    EnforceDeadline = TRUE
    AdapterMayFail = TRUE
    OperatorHalts = FALSE
    BuyRetries = 1
    MaxCrashes = 0
    Lookalikes <- NoPairs
INVARIANTS NoDuplicateOrder BrokerTruth IdlePlannedIsUnsent
PROPERTIES NoEarlyWriteOff
