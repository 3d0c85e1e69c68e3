SPECIFICATION FairSpec
CONSTANTS
    o1 = o1
    o2 = o2
    Ops <- MCOps
    Untimed = {}
    NoOp = NoOp
    SelectsDb = FALSE
    FailureThreshold = 2
    ResetTimeout = 2
    SuccessThreshold = 2
    MaxAttempts = 2
    Cooldown = 2
    Monitored = TRUE
    PingInterval = 1
PROPERTIES
    RecoversWhenRedisReturns
