SPECIFICATION FairSpec
CONSTANTS
    Endpoints = {"a", "b"}
    Priority <- MCPriority
    Threshold = 1
    QuarantineBase = 2
    QuarantineMax = 3
    ProbeInterval = 1
    MaxFailures = 2
    MaxInflight = 2
    NoEndpoint = none
    Main = main
    Late = late
    NoThread = nobody
    Retries = 2
    ConnectRetries = 2
    MaxLate = 0
INVARIANTS
    TypeOK
    RetryHasBalance
PROPERTY
    FailsOver
