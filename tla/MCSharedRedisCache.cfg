SPECIFICATION FairSpec
CONSTANTS
    o1 = o1
    o2 = o2
    Ops <- MCOps
    Untimed <- MCUntimed
    NoOp = NoOp
    SelectsDb = TRUE
    FailureThreshold = 2
    ResetTimeout = 2
    SuccessThreshold = 2
    MaxAttempts = 2
    Cooldown = 2
    Monitored = TRUE
    PingInterval = 1
INVARIANTS
    TypeOK
    OneReconnectAtATime
    WaitersHaveAnAttempt
    ConnectedHasClient
PROPERTIES
    ImplementsSharedAttempt
    EveryCallReturns
    RecoversWithTheSocket
