SPECIFICATION Spec
CHECK_DEADLOCK FALSE
CONSTANTS
    Endpoints = {e1, e2}
    NoEndpoint = NoEndpoint
    Latencies = {1, 3}
    P95 = 2
    P99 = 2
    BufferSize = 2
    Throttle = 3
    ProfileTime = 1
    MeasureTime = 2
    MaxQueue = 1
    MaxSessions = 3
    Consumers = {c1, c2}
    Replicas = {r1}
    Lifetime = 2
    Skew = 1
    MaxTime = 4
    MaxSecret = 2
    Probes = {p1, p2}
    CacheTTL = 2
    Scrapes = {s1, s2}
    BreakerNames = {b1}
    StatsTTL = 2
    BreakerStatsTTL = 2
    DocumentClients = {d1, d2}
    MaxVersion = 2
    Users = {u1, u2}
    MaxInitializations = 2
    PrimaryKeys = {k1, k2}
    StaleKeys = {k3}
    firstKey = k1
    PartOf <- MCPartOf
    Parts = 2
    RetriesPerScan = 1
    MaxIterations = 3
    BatchSize = 1
    Operations = {o1, o2, o3}
    WaitTime = 2
    Creators = {a1, a2}
    KeyIds = {j1, j2}
    ForeignKey = j1
    MaxAttempts = 2
    ExportFailureThreshold = 2
    ExportSuccessThreshold = 2
    RecoveryTimeout = 2
    MaxExports = 1
    Backlog = 1
    LabelledConsumers = {l1, l2, l3}
    MaxUnique = 2
    Medium = 1
    High = 2
INVARIANTS
    TypeOK
    VerdictMatchesToken
    HealthResultIsRecent
    StatisticsAreCurrent
    ClientsAreNotMisled
    OneCacheForEverybody
    ClearLeavesNothing
    DrainedStaysDrained
    CredentialsAreKongs
    LabelsAreStable
PROPERTIES
    ProfilesAreThrottled
    MeasurementEnds
    ImplementsBreaker
