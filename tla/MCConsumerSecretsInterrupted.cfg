SPECIFICATION Spec
CONSTANTS
    r1 = r1
    r2 = r2
    c1 = c1
    c2 = c2
    Requests <- MCRequests
    Consumers <- OneConsumer
    NoSecret = NoSecret
    InitialBreakers = {"closed"}
    MaxVersion = 2
    HighAvailability = TRUE
    InterruptedWrites = TRUE
    Ttl = 1
    MaxPrimary = 1
    MaxStale = 1
    Tolerance = 1
    RedisStaleTtl = 1
    ResetTimeout = 1
    BreakerTtl = 2
SYMMETRY SymmetricRequests
PROPERTIES
    RotationTakesEffect
