-------------------------- MODULE MCServiceComponents --------------------------
(***************************************************************************)
(* The components beside the cache, the secrets and the shutdown, checked  *)
(* in one run.  They share no state: Init chooses one of them and only     *)
(* that one takes steps, so the states add up and do not multiply.         *)
(***************************************************************************)
EXTENDS Integers, RedisKeyspace, OperationTracker, CredentialCreation, TelemetryCircuitBreaker,
    ConsumerLabels

CONSTANTS
    Endpoints, NoEndpoint, Latencies, P95, P99, BufferSize, Throttle,
    ProfileTime, MeasureTime, MaxQueue,
    MaxSessions,
    Consumers, Replicas, Lifetime, Skew, MaxTime, MaxSecret,
    Probes, CacheTTL,
    Scrapes, BreakerNames, StatsTTL, BreakerStatsTTL,
    DocumentClients, MaxVersion,
    Users, MaxInitializations,
    MaxExports, Backlog,
    firstKey

\* Lifetimes and what is counted from 1 are positive, times and limits are
\* numbers.
ASSUME EndpointsAssumption ==
    /\ {CacheTTL, StatsTTL, BreakerStatsTTL, MaxTime, MaxSecret, MaxVersion} \subseteq Nat \ {0}
    /\ {Lifetime, Skew, Throttle, BufferSize, ProfileTime, MeasureTime, MaxQueue,
        MaxExports} \subseteq Nat

VARIABLES
    component,
    latencyBuffers, lastTrigger, activeProfile, profileAge, profileQueue,
    storageFull, measuring, measureAge, profilingStopped, sinceProfiled,
    profilingEnabled, sessions, nextSession, profilingAnswer,
    time, ahead, secret, lastToken, tokenCall, tokenAnswer,
    redisBackend, redisAnswers, redisFor, accepting, lastHealthCheck,
    lastCheckAge, probe, probeAnswer,
    memo, collecting, scrape, lastEnded, kongBreakers, removedFor,
    cachedStats, view,
    exchange,
    deployed, documentCached, etags, reading, copy, documentAnswer,
    strategy, managerMade, factoryPromise, made, backends, backend,
    connected, initializations, promise, user, shutDown,
    telemetryMode, exports, heapPercent, guardian, lastPressure,
    environment, cachedConfig, proxyConfig, loadedFrom, startRefused

Profiling == INSTANCE ContinuousProfiling
OnDemand == INSTANCE OnDemandProfiling
Tokens == INSTANCE TokenRequests
Health == INSTANCE HealthEndpoints
Metrics == INSTANCE MetricsEndpoint
Routing == INSTANCE RequestRouting
Document == INSTANCE ApiDocument
Manager == INSTANCE CacheManager
Exports == INSTANCE TelemetryExports
Configuration == INSTANCE ServiceConfiguration

profilingState == <<latencyBuffers, lastTrigger, activeProfile, profileAge, profileQueue,
    storageFull, measuring, measureAge, profilingStopped, sinceProfiled>>
onDemandState == <<profilingEnabled, sessions, nextSession, profilingAnswer>>
tokensState == <<time, ahead, secret, lastToken, tokenCall, tokenAnswer>>
healthState == <<redisBackend, redisAnswers, redisFor, accepting, lastHealthCheck,
    lastCheckAge, probe, probeAnswer>>
metricsState == <<memo, collecting, scrape, lastEnded, kongBreakers, removedFor, cachedStats,
    view>>
routingState == exchange
documentState == <<deployed, documentCached, etags, reading, copy, documentAnswer>>
managerState == <<strategy, managerMade, factoryPromise, made, backends, backend, connected,
    initializations, promise, user, shutDown>>
exportsState == <<telemetryMode, exports, heapPercent, guardian, lastPressure>>
configurationState == <<environment, cachedConfig, proxyConfig, loadedFrom, startRefused>>

\* The two parts of Redis that a SCAN visits one after the other.
MCPartOf == [k \in PrimaryKeys \cup StaleKeys |-> IF k = firstKey THEN 1 ELSE Parts]

Names == {"Profiling", "OnDemand", "Tokens", "Health", "Metrics", "Routing", "Document",
          "Manager", "Keyspace", "Tracker", "Creation", "Breaker", "Exports", "Labels",
          "Configuration"}

Init ==
    /\ component \in Names
    /\ Profiling!Init
    /\ OnDemand!Init
    /\ Tokens!Init
    /\ Health!Init
    /\ Metrics!MetricsInit
    /\ Routing!ExchangesInit
    /\ Document!DocumentInit
    /\ Manager!ManagerInit
    /\ KeyspaceInit
    /\ TrackerInit
    /\ CreationInit
    /\ ExportBreakerInit
    /\ Exports!ExportsInit
    /\ LabelsInit
    /\ IF component = "Configuration" THEN TRUE ELSE environment = Configuration!Required
    /\ Configuration!ConfigurationInit
    \* What is not looked at has one value.
    /\ component # "Health" => redisBackend = TRUE
    /\ component # "OnDemand" => profilingEnabled = TRUE
    /\ component # "Manager" => strategy = "local-memory"
    /\ component # "Creation" => konnect = FALSE
    /\ component # "Keyspace" => stored = [k \in PrimaryKeys \cup StaleKeys |-> "absent"]

\* The others stand still while name takes a step.
Only(name) ==
    /\ component = name
    /\ UNCHANGED component
    /\ name # "Profiling" => UNCHANGED profilingState
    /\ name # "OnDemand" => UNCHANGED onDemandState
    /\ name # "Tokens" => UNCHANGED tokensState
    /\ name # "Health" => UNCHANGED healthState
    /\ name # "Metrics" => UNCHANGED metricsState
    /\ name # "Routing" => UNCHANGED routingState
    /\ name # "Document" => UNCHANGED documentState
    /\ name # "Manager" => UNCHANGED managerState
    /\ name # "Keyspace" => UNCHANGED keyspaceVars
    /\ name # "Tracker" => UNCHANGED trackerVars
    /\ name # "Creation" => UNCHANGED creationVars
    /\ name # "Breaker" => UNCHANGED exportBreakerVars
    /\ name # "Exports" => UNCHANGED exportsState
    /\ name # "Labels" => UNCHANGED labelVars
    /\ name # "Configuration" => UNCHANGED configurationState

Next ==
    \/ component = "Profiling" /\ Profiling!Next /\ Only("Profiling")
    \/ component = "OnDemand" /\ OnDemand!Next /\ Only("OnDemand")
    \/ component = "Tokens" /\ Tokens!Next /\ Only("Tokens")
    \/ component = "Health" /\ Health!Next /\ Only("Health")
    \/ component = "Metrics" /\ Metrics!MetricsNext /\ Only("Metrics")
    \/ component = "Routing" /\ Routing!ExchangesNext /\ Only("Routing")
    \/ component = "Document" /\ Document!DocumentNext /\ Only("Document")
    \/ component = "Manager" /\ Manager!ManagerNext /\ Only("Manager")
    \/ component = "Keyspace" /\ KeyspaceNext /\ Only("Keyspace")
    \/ component = "Tracker" /\ TrackerNext /\ Only("Tracker")
    \/ component = "Creation" /\ CreationNext /\ Only("Creation")
    \/ component = "Breaker" /\ ExportBreakerNext /\ Only("Breaker")
    \/ component = "Exports" /\ Exports!ExportsNext /\ Only("Exports")
    \/ component = "Labels" /\ LabelsNext /\ Only("Labels")
    \/ component = "Configuration" /\ Configuration!ConfigurationNext /\ Only("Configuration")

vars == <<component, profilingState, onDemandState, tokensState, healthState,
          metricsState, routingState, documentState, managerState, keyspaceVars,
          trackerVars, creationVars, exportBreakerVars, exportsState,
          labelVars, configurationState>>

\* The timers of continuous profiling fire; nothing else is promised.
Spec ==
    /\ Init /\ [][Next]_vars
    /\ WF_vars(component = "Profiling" /\ Profiling!Timers /\ Only("Profiling"))

(***************************************************************************)
(* The properties of the components, stated where their names point to     *)
(***************************************************************************)

\* Every component's variables stay in their types and bounds.
TypeOK ==
    /\ component = "Profiling" => Profiling!TypeOK
    /\ component = "OnDemand" => OnDemand!TypeOK
    /\ component = "Tokens" => Tokens!TypeOK
    /\ component = "Health" => Health!TypeOK
    /\ component = "Metrics" => Metrics!MetricsTypeOK
    /\ component = "Routing" => Routing!ExchangesTypeOK
    /\ component = "Document" => Document!DocumentTypeOK
    /\ component = "Manager" => Manager!ManagerTypeOK
    /\ component = "Keyspace" => KeyspaceTypeOK
    /\ component = "Tracker" => TrackerTypeOK
    /\ component = "Creation" => CreationTypeOK
    /\ component = "Breaker" => ExportBreakerTypeOK
    /\ component = "Exports" => Exports!ExportsTypeOK
    /\ component = "Labels" => LabelsTypeOK
    /\ component = "Configuration" => Configuration!ConfigurationTypeOK

\* Two profiles that the monitor started itself lie a throttling interval apart.
ProfilesAreThrottled == Profiling!ProfilesAreThrottled

\* A measurement of the overhead of profiling comes to an end.
MeasurementEnds == Profiling!MeasurementEnds

\* The verdict on a token is true up to the skew of the clocks.
VerdictMatchesToken == Tokens!VerdictMatchesToken

\* What a health answer says of the cache was measured a moment ago.
HealthResultIsRecent == Health!HealthResultIsRecent

\* What a scrape is told of caches and breakers was true a moment ago.
StatisticsAreCurrent == Metrics!StatisticsAreCurrent

\* Who is told that a copy is current has the current one; who goes by an
\* Allow header or by the document is answered.
ClientsAreNotMisled == Document!NotModifiedMeansCurrent /\ Routing!AdviceWorks

\* Concurrent first users get one cache.
OneCacheForEverybody == Manager!OneCacheForEverybody

==============================================================================
