# Authentication service: TLA+ models, TLC runs and TLAPS proofs

The service issues JWTs to API consumers. For each request it needs the consumer's
secret, which Kong keeps; it caches secrets (in Redis in high-availability mode, in the
process otherwise), protects Kong and Redis with circuit breakers, and falls back on
stale copies. Paths below are relative to `src/src/` unless they start with `docs/`.

The code is single-threaded TypeScript on Bun: two pieces of code interleave only at an
`await`, a timer or an I/O event. Accordingly one action of a model is everything a
handler does between two awaits, and nothing in between can be interrupted.

## Inventory

| Component | State it keeps | Operations | Interacts with |
|---|---|---|---|
| Redis breaker, `services/cache/cache-circuit-breaker.ts` | state, failure count, probe successes, time of last failure | canExecute, recordSuccess, recordFailure, reset | asked and told by cache operations, reconnections and pings |
| Redis client, `services/cache/shared-redis-cache.ts` | client, isConnected | get, set, delete, clear, getStale, ..., connect, disconnect | breaker, reconnection manager, health monitor, lifecycle state |
| Reconnection manager, `utils/cache-reconnect-manager.ts` | shared promise, attempts, time of last attempt | executeReconnect, reset | awaited by every operation that finds the connection broken |
| Health monitor, `services/cache/cache-health-monitor.ts` | status, streaks, one check at a time | start, stop, performHealthCheck | pings Redis, reports to the breaker |
| Local memory cache, `services/cache/local-memory-cache.ts` | map with expiry | get, set, eviction | primary cache without Redis |
| Cache manager and backends, `cache/` | backend, initialization promise | ensureInitialized, reconfigure, shutdown | opens and closes Redis clients |
| Kong adapter, `adapters/kong.adapter.ts` | cache, breaker service | getConsumerSecret, createConsumerSecret, healthCheck | Kong, the cache, the Kong breakers |
| Kong breakers, `services/circuit-breaker.service.ts` | one opossum breaker per operation, stale map, last use | wrapKongConsumerOperation, wrapKongOperation, two cleanups | adapter, both stale tiers |
| Shutdown, `server.ts`, `lifecycle/`, `middleware/lifecycle-middleware.ts` | lifecycle state, active requests, timers | gracefulShutdown, prepareAll, shutdownAll, waitForCompletion | every component that registers (the cache manager only) |
| Continuous profiling, `telemetry/sla-monitor.ts`, `services/profiling/` | latency windows, time of the last trigger, active profile, queue, overhead measurement | recordLatency, requestProfiling, start/stop | request handlers, timers, the spawned profiler |
| On-demand profiling, `services/profiling.service.ts` | map of sessions, at most one running | start, stop, status, cleanup, shutdown | profiling endpoints |
| Telemetry resilience, `telemetry/telemetry-circuit-breaker.ts`, `export-stats-tracker.ts`, `telemetry-health-monitor.ts` | breaker state, export counters | canExecute, record, reset | nobody in the running server asks the breakers |
| Cardinality guard, `telemetry/cardinality-guard.ts`, `consumer-volume.ts` | tracked consumers, request counts; each emptied every 15 minutes by a timer of its own | getBoundedConsumerId, incrementConsumerRequest, reset | metrics |
| Memory guardian, `telemetry/memory-guardian.ts` | singleton, interval, last pressure | start, checkHealth, stop | export trackers, status reports |
| Redis operation tracker, `services/cache/redis-operation-tracker.ts` | pending operations, accepting | startOperation, completeOperation, waitForCompletion | the Redis client's disconnect(); nobody starts an operation |
| SCAN iterator, `services/cache/cache-scan-iterator.ts` | cursor, retries, iterations | iterate, collectAll | clear, clearStale, getStats of the Redis client |
| Cache factory, `services/cache/cache-factory.ts` | the one manager and its promise | createKongCache | adapter, health probes |
| Health endpoints, `handlers/health.ts`, `services/cache-health.service.ts` | the last check of the cache | probes of liveness and readiness | cache, Kong, lifecycle, telemetry |
| Metrics endpoint, `handlers/metrics.ts` | memo of the cache's statistics | handleMetricsUnified | cache, Kong breakers |
| Tokens, `handlers/tokens.ts`, `services/jwt.service.ts` | none | issue, validate | adapter |
| Routing and document, `routes/router.ts`, `middleware/`, `openapi-generator.ts`, `handlers/openapi.ts` | the generated document and its ETags | answer, validate, document | every handler |
| Configuration, `config/` | two cached copies | initializeConfig, getters, proxy, reset | everything |
| Connection state manager; logging | connection status; none | | never constructed outside tests; everything |

What is hard in it, and what makes each part correct, is the list of hazards in
`PROJECT.json`. In short: outcomes that reach a breaker long after the question was
asked; the shared reconnection and its waiters; a call that was timed out and goes on to
write to the caches; copies of a secret outliving its rotation; shutdown while
connections are being opened; first users that all find the cache not made yet; results that
concurrent probes store in the wrong order; a sweep of Redis while others write.

## Modules

| Module | Models | Checked by |
|---|---|---|
| `CircuitBreaker` | what any breaker promises (abstract: trip, probe, recover, force-close) | refined by the next |
| `CacheCircuitBreaker` | the Redis breaker, one action per method and outcome | |
| `CacheCircuitBreakerHistory` | the same with history variables, for properties about the past and for the refinement | `MCCacheCircuitBreaker` |
| `CacheCircuitBreakerProofs` | theorems about the two | TLAPS |
| `SharedAttempt` | what the reconnection promises to those who need it (abstract: start, join, end, go on) | refined by the next |
| `SharedRedisCache`, `SharedRedisCacheProofs` | the Redis client, the reconnection manager and the health monitor, composed with `CacheCircuitBreaker` by `INSTANCE` | `MCSharedRedisCache`, TLAPS |
| `SecretService` | what retrieval promises a request (abstract: a secret of its consumer replaced recently, or none) | refined by the next |
| `ConsumerSecrets`, `ConsumerSecretsProofs` | requests for secrets: primary cache, Kong breaker, Kong, storing, stale tiers, cleanups | `MCConsumerSecrets`, TLAPS |
| `GracefulShutdown`, `GracefulShutdownProofs` | from READY to the exit, with requests and the cache manager's clients | `MCGracefulShutdown`, TLAPS |
| `ContinuousProfiling` | latency windows, throttle, the profile queue with quota and timer, overhead measurement | `MCServiceComponents`, TLAPS |
| `OnDemandProfiling` | profiling sessions and the handlers of their routes | `MCServiceComponents`, TLAPS |
| `TokenRequests` | GET /tokens and /tokens/validate over replicas with skewed clocks and rotating secrets | `MCServiceComponents`, TLAPS |
| `HttpErrors` | error codes and their HTTP status; extended by the two above | |
| `HealthEndpoints` | /health, /health/ready and the shared check of the cache | `MCServiceComponents`, TLAPS |
| `MetricsEndpoint` | the memo of /metrics and the cached statistics of the Kong breakers | `MCServiceComponents`, TLAPS |
| `RequestRouting` | who answers a request, and a client that follows an Allow header or the OpenAPI document | `MCServiceComponents`, TLAPS |
| `ApiDocument` | the document's cache, its two formats and their ETags, conditional reads | `MCServiceComponents`, TLAPS |
| `CacheManager` | cache factory and manager: first users, initialization, fallback, reconfigure, shutdown | `MCServiceComponents`, TLAPS |
| `RedisKeyspace` | SET and EXPIRE, delete, expiry, clear by SCAN and batches | `MCServiceComponents`, TLAPS |
| `OperationTracker` | the drain of Redis operations | `MCServiceComponents`, TLAPS |
| `CredentialCreation` | createConsumerSecret: realm, consumer, retries, the request sent twice | `MCServiceComponents`, TLAPS |
| `TelemetryCircuitBreaker` | the breaker of telemetry exports; a second implementation of `CircuitBreaker` | `MCServiceComponents`, TLAPS |
| `TelemetryExports` | export statistics, initialization and shutdown of telemetry, the memory guardian | `MCServiceComponents`, TLAPS |
| `ConsumerLabels` | bounded consumer labels, volume buckets, both reset timers | `MCServiceComponents`, TLAPS |
| `ServiceConfiguration` | environment to configuration, its ranges, its two cached copies, what reaches the Redis cache | `MCServiceComponents`, TLAPS, and by itself |
| `RedisProofs`, `TelemetryProofs`, `CredentialCreationProofs` | theorems about the keyspace and the operation tracker, the telemetry breaker and the labels, the creation of credentials | TLAPS |
| `ServiceComponentsProofs` | theorems about the composition `MCServiceComponents` | TLAPS |

`PROJECT.json` maps each definition to its lines. The `...` mutants next to a definition
are plausible bugs in that code; each property of a passing run is violated by one.

### CacheCircuitBreaker

Variables are the fields of the class. `failureCount` is saturated at the threshold and
`lastFailureTime` is kept as an age saturated at the reset timeout; the code compares
them with nothing else, so saturation loses nothing. `transitionTo` is inlined in the
method that calls it. Any operation may be called at any time: that is what late callers
and pings do. The breaker of `enabled: false` is not modelled.

### SharedRedisCache

`get`, `set`, `delete`, `getStale`, ... share one protocol, so an operation is only `pc`:
`idle`, `waiting` (for a reconnection), `command`, and the continuations `reconnected`,
`refused`, `failed`, `lost`, `thrown` that run when an awaited promise settles.
Continuations run before the next timer or I/O event (`Quiet`). The reconnection's
promise is named by the operation that started it. Which errors count as connection
errors is taken from `utils/cache-error-detector.ts`: the error `ensureConnected` throws
after a failed reconnection reads "Redis connection lost ..." and counts once more
(`Refused`, then `MarkConnectionBroken`), also when the cause was no connection error.

External behaviour assumed of Bun's `RedisClient` with `autoReconnect: false`: a command
on a closed socket is rejected with a connection error, and only `connect()` opens it
again. The model starts after the first `connect()`; if that fails the manager uses local
memory and this component is gone. Nobody calls `resetCircuitBreaker`, so it is no action
here (`Reset` exists in `CacheCircuitBreaker`).

Not every command has a timeout: the SELECT of an attempt (`SelectsDb`: a database other than 0 is configured) and
those of `getStats`, `isHealthy` and `getServerType` (the operations in `Untimed`) have none. They end when they are answered or
their socket closes, and may otherwise hang for ever (`MayHang`, from which the fairness is withheld). The untimed
operations report nothing: they return zeros, false or a default (`ReturnWhatever`).

`ImplementsSharedAttempt` maps it to `SharedAttempt`: whoever runs an attempt is `running`, whoever awaits its
promise is `waiting`, and the continuations `reconnected`, `refused` and `failed` are what a caller was
`told`. A `disconnect()` clears the promise and leaves the attempt; the abstract module does not see it, so it may not
change who is told what.

### ConsumerSecrets

A request is `call` (where the caller is) and `action` (where the function it gave to the
breaker is): after a timeout the two go separate ways. Secrets are records of owner and
version; Kong issues and revokes versions. `supersededFor` is history: how long ago a
version stopped being current. A tick is a minute, the granularity of cleanups and
tolerances; storing a reply takes less than a tick (operation timeouts are seconds).
opossum is modelled from the way the service uses it: whether a closed breaker opens on a
failure is a choice, as the rolling percentage may or may not be reached. In HA mode Redis
may answer null at any time (its client swallows errors). `CleanupUnusedBreakers` replaces
an unused breaker by a closed one. `InitialBreakers` has the breaker enabled (`"closed"`) or, for good, `"disabled"`
(`CIRCUIT_BREAKER_ENABLED=false`): then the action runs without a breaker, its errors are thrown, no stale copy is kept or
used, and what the adapter returns goes to the caller uncompared.

`ImplementsSecretService` maps it to `SecretService`: a request is asked until it is answered, and caches,
breaker, actions and stale copies disappear. `Staleness` is `Window`, the longest lifetime of a copy and the tick its
storing takes.

### GracefulShutdown

`step` is where `gracefulShutdown` awaits. A Redis client is named by the request (or the
adapter's constructor, `Boot`) whose `initialize()` opened it. `Tracked` says whether routes go
through `lifecycleMiddleware`; in the source none does. `Probes` are the requests to its `BYPASS_PATHS` (`/health*`,
`/metrics`), which it neither refuses nor tracks. `initializationPromise` is left out: it is set only
while `backend` is set or about to be, and is not read then. A client whose `connect()`
failed is `failed`: whether its socket is still open is not the manager's to know.
`prepareForShutdown` sets a flag nothing reads, as in the code.

### ContinuousProfiling

A report of a latency runs from the window to the spawned profiler without an await, so it is
one action; how busy the CPU is, how full the disk is and whether the profiler can be spawned are
the environment's. Latencies are two values, one within the thresholds and one above; P95 and P99
of the window are computed as the code does. `lastTrigger` and `sinceProfiled` are ages saturated at the
throttle time. The 30 s timer that ends a profile and the interval that measures the overhead
are `Timers`.

### TokenRequests, HttpErrors

A request is followed from the lookup of the secret to the answer; secrets rotate and clocks run
between the two. `time` is true time, `ahead` the skew of a replica; `exp` and `nbf` are whole
seconds of the issuing replica and compared without leeway. The last token given out is the one
presented, beside tokens nobody issued. Several requests meet only in the caches, which are
the subject of `ConsumerSecrets`.

### HealthEndpoints, MetricsEndpoint

A probe is a stage between two awaits. A result of the cache check is dated by the start of its check
and stored at its end, so a slow probe may store an older one last. `redisFor` is history: for how long
Redis has been as it is. In `MetricsEndpoint` a collection may take any time or never end (its commands have
no timeout); later scrapes wait for it or read the memo. It ends with a count, with the zeros that `getStats` makes
of an error of Redis, which are remembered like a count, or, without a cache to ask, with an error, which is not. `lastEnded` is
history: what the last collection to end found, and for how long it has been over. `view` is what the last scrape was told
next to what was true. Breakers change and are removed meanwhile.

### RequestRouting, ApiDocument

The tables (routes, allowed methods, documented operations) are taken over row by row from their files. A
client sends any request, or follows what it was told: after a 405 a method of the Allow header, or an operation of the
document. `exchange` is the last request with its answer and with what it followed. Documented paths that are not served at
all (`/memory/*`) are a known difference, listed below.

In `ApiDocument` the first reader generates the document and awaits the digests of its two formats one by one; others
are answered meanwhile, without an ETag as long as there is none. A client keeps one copy, whichever format it is in (no
answer has a Vary header), and may present its ETag later, for the other format, or after the service was redeployed with
another document. An ETag is a digest, taken to be free of collisions.

### CacheManager

Each await of `createKongCache`, `ensureInitialized` and `initialize` is a point where other users
run. Backends and initializations are numbered as they are made, so a user that still holds an old one
is told from one that has the new. `OneCacheForEverybody` speaks of the time before the first shutdown or
reconfiguration: afterwards the code may leave a client of an overtaken initialization connected.

### RedisKeyspace

Below the protocol of `SharedRedisCache`, with a connection: single commands, each of which may fail,
or time out and still be carried out. SCAN is Redis's promise: it visits the keyspace part by
part, returns what is there throughout, and may take more calls than there are parts.
`untouched` is history: the keys there since the sweep began and not written.

### OperationTracker, CredentialCreation

Offered by interfaces that the running server does not use (`startOperation`, `createConsumerSecret`
have no caller); both are modelled with the callers they are written for. In
`CredentialCreation` Kong handles a request or not, and its reply arrives or not; the second request is curl's.

### TelemetryCircuitBreaker, TelemetryExports, ConsumerLabels

The telemetry breaker moves to half-open on demand or by its own interval, and a failure reported while
it is open makes it wait anew; mapped to `CircuitBreaker` by state and time since it tripped.
`TelemetryExports` counts exports at their begin and end and has the guardian made by whoever asks first.
In `ConsumerLabels` hashing is one bucket label; `labels` is history: the names each consumer was
given since the table was last emptied.

### ServiceConfiguration

An environment maps variables to values; the variables kept are the switches, the numbers whose range in the
environment differs from the range in the merged configuration, and PORT for all others. `ToBool`,
defaults, both ranges and the checks of `AppConfigSchema` are the code's. `CacheRunsWith` is what the four
hands between configuration and Redis client pass on. `Spread` is the loader's `{ ...defaults, ...given }`.

### MCServiceComponents

These fifteen components share no state, so one run checks them side by side: `Init` chooses a
component and only that one takes steps, which makes the states add up and not multiply. No
property holds because of the choice: each is about the variables of one component and is checked over all of that
component's behaviours. The theorems of `ServiceComponentsProofs` do not use the choice either: they prove each invariant from
the component's own actions and carry it over by "a step of the composition is one of the component or
leaves its variables alone". `EndpointsAssumption` says which constants are numbers and which are positive.

## Runs

| Run | Question | Bounds |
|---|---|---|
| `CacheCircuitBreaker` | does the breaker decide on the right evidence, implement `CircuitBreaker`, and recover? | thresholds 4 and 2, timeout 3: every counter is below, at and past its boundary |
| `SharedRedisCache` | one reconnection, no waiter left, everybody told its one outcome (`SharedAttempt`), no closed client marked connected, every call returns, recovery once Redis and the socket are up | 2 operations, one of them without timeouts, SELECT in every attempt, 2 attempts, ping interval 1, reset timeout 2, cooldown 2 |
| `SecretsMixUp` | can a consumer get another's secret, can a map outgrow its limit? | 2 requests, 2 consumers, room for one entry, local memory, breaker enabled or disabled |
| `Secrets` | how old a served secret may be; every request answered; the Kong breaker recovers | 2 requests, 1 consumer, all lifetimes 1 tick, local memory, fairness |
| `SecretsHA` | the three tiers: does retrieval implement `SecretService`, and does a rotation take effect? | 2 requests, 2 versions, tolerance and stale TTL 2, Redis |
| `GracefulShutdown` | drain, clients, deadlines, exit | 2 requests and a probe that bypasses the middleware, deadlines 1, 2, 1 and 5 ticks (3, 5, 3 and 15 s) |
| `ServiceComponents` | the fifteen components beside those: one invariant or action property each | 2 endpoints, window 2, throttle 3; 2 probes, scrapes, readers of the document, users and creators, 3 operations and consumers; 2 + 1 keys in 2 parts, 1 retry, 3 iterations, batches of 1; clocks 1 second apart, tokens of 2; thresholds and timeouts 2 |

Two operations or requests are enough for the races of interest: an owner and a waiter, an
old and a new attempt, a timed-out action and its successor. The room for one entry makes
every second insertion evict. Symmetry is used only in runs that check no liveness.
In `ServiceComponents` every limit is reached (a full window, queue, label table and batch; the last
retry and the last iteration) and exceeded by one user. `GracefulShutdown` may stop (after the exit),
and so may parts of `ServiceComponents` (bounded time, sessions, exports and initializations run out), so
only their runs turn deadlock checking off.

Five runs expect a violation; each shows the code doing something else than the
documentation says (`findings` in `PROJECT.json`):

| Run | What happens |
|---|---|
| `RedisRecoveryBlocked` | pings more frequent than the reset timeout (10 s and 30 s by default) over a dead socket keep the breaker open for ever; nothing reconnects |
| `HalfOpenWithoutFallback` | a request rejected by the half-open Kong breaker gets no secret though a fresh stale copy is there |
| `InterruptedSet` | a connection lost between SET and EXPIRE leaves a secret that never expires |
| `SettingsWithoutEffect` | thresholds, timeouts and switches of the Redis cache are read from the environment and checked, and dropped by the backend that makes the client: it always runs with its defaults |
| `ShutdownCutsOff` | no route uses the middleware that tracks requests, so the drain ends at once |

The models of the Redis cache describe it with its default constants, breaker and monitor enabled:
by `SettingsWithoutEffect` that is what always runs. The bounds above scale them down and keep their order: pings (10 s) more
frequent than the reset timeout (30 s), a cooldown (60 s) no shorter than it. With pings more frequent than the
reset timeout a dead socket is never replaced (`RedisRecoveryBlocked`), so the passing run asks what remains true with the same
constants: `RecoversWithTheSocket`, for outages in which Redis is slow, busy or silent and the socket survives or was opened
again.

Further differences and oddities met while reading, with no run:

- Redis cache: a failed reconnection counts twice toward the breaker (`shared-redis-cache.ts:149` and `:339`,
  against `docs/configuration/environment.md:189`); Redis reads do not fill the in-memory stale map
  (`kong.adapter.ts:103-106`, against `docs/architecture/overview.md:303-310`); the Redis backend drops
  `staleDataToleranceMinutes` (`shared-redis-backend.ts:20-27`, against
  `docs/operations/monitoring.md:1153`), so the models give it a constant of its own; `clear` tells the breaker
  of a success though its scan was not complete (`ClearLeavesNothing` speaks of complete scans); SELECT has no timeout in a
  reconnection (`:120`) nor in `connect()` (`:207`), so one that is never answered keeps everybody who joins the attempt waiting until
  the socket closes (`EveryCallReturns` excepts just that).
- Cache manager: a shutdown or reconfiguration that overtakes an initialization leaves its client connected; the
  promise of a failed initialization stays and rejects later users; an operation that finds the
  backend set uses it while it is still connecting.
- Kong: the adapter replaces its breaker service after initialization without stopping the intervals of the
  first (`kong.adapter.ts:68-96`); a lost reply or a timeout of `createConsumerSecret` leaves credentials in Kong
  nobody was told of, and one asked for by name is neither cached nor returned; curl's empty
  output reads as a 200. With `CIRCUIT_BREAKER_ENABLED=false` (`circuit-breaker.service.ts:344-346`) nobody compares the
  consumer of a secret Kong mixed up (`kong.adapter.ts:173` returns it, uncached), errors are thrown, and there is no
  fallback.
- Shutdown: `/health*` and `/metrics` bypass the middleware (`middleware/lifecycle-middleware.ts:26-37`), so also with it
  installed such a request may be cut off, or open a Redis client after the drain; `docs/architecture/overview.md:517-518` gives
  30 s and 5 s for the drain and a component, the code 5 s and 3 s (`server.ts:445`, `:460`).
- Health: readiness asks `isHealthy()` (`handlers/health.ts:598`), which is true whenever
  `getStats()` returns, and that catches every error, so the service is ready while Redis is dead (against
  `docs/api/endpoints.md:553`); after a fallback to memory the cache is reported healthy as Redis; `/health`
  answers 200 when unhealthy.
- Tokens: `nbf` has no leeway, so a token may be refused by a replica whose clock is behind; a token without
  `exp` never expires; `getSlaMonitor()` may throw after the token was made, which answers 500.
- Telemetry: labels of a consumer may change across a reset, so the set of labels grows from period to
  period; the limit flag stays set after the shutdown of the guard; volume thresholds are named hourly and the counts are emptied
  every 15 minutes; a guardian made again after shutdown watches nothing; nobody feeds the telemetry
  breakers, and a late failure makes an open one wait longer.
- Metrics: the statistics of a Redis that failed are zeros, remembered for two seconds like a count; `getStats` has no
  timeout, so a send that is never answered keeps that and every later scrape waiting (`handlers/metrics.ts:30`); the
  statistics of the Kong breakers may show one that the cleanup removed for up to 5 seconds.
- Profiling: the map of sessions is only emptied on request; a queued profile that fails to start leaves the rest of the
  queue to the end of somebody else's profile.
- Configuration: `toBool(x, undefined)` is false for an absent `CACHE_CB_ENABLED` and
  `CACHE_HEALTH_MONITOR_ENABLED` against the documented true (`docs/configuration/environment.md:188`, `:206`), hidden
  because neither arrives; a value in range of the environment may be refused after the merge (`CACHE_TIMEOUT_PING_MS` 50),
  and one in range of the configuration by the environment (`STALE_DATA_TOLERANCE_MINUTES`).
- OpenAPI: 503 is documented nowhere, 403 and 429 are documented and never answered, `/memory/*` is documented and
  not served, `/health/ready` is served and not documented, some schemas have drifted from the answers, and
  answers in two formats carry no Vary header.

## Fairness

- The breaker: time passes, somebody asks, and Redis answers (weak fairness of `TickH`,
  `AdmitH`, `RecordSuccessH`). Nothing is assumed of failures.
- `SharedRedisCache`: timers fire, and awaited promises settle if a timeout or a closing socket sees to it, that is all but
  a SELECT and the commands of `Untimed` operations on an open socket (`~MayHang(o)`); and traffic goes on. Strong, since other
  continuations may go first again and again. An outage ends only if the property says so, and a SELECT that is never
  answered is an alternative in both liveness properties (`SelectPending`).
- `ConsumerSecrets`: every await settles (Kong calls and Redis commands have timeouts), the
  reset timer fires, requests keep coming. `SF(MissAndFire)`: with continuing traffic, some
  request misses while the breaker permits.
- `GracefulShutdown`: only time and timers. Requests, Redis and the collector may hang.
- `ServiceComponents`: only the timers of continuous profiling (`WF` of `Timers`), for `MeasurementEnds`.
  Neither profiles nor requests are assumed to come, or to stop.

## Proofs

The theorems hold for every value of the constants that satisfies the assumptions named in the modules
(`BreakerAssumption`, `LabelsAssumption`, `EndpointsAssumption`, ...): thresholds, limits and lifetimes are numbers, some of
them positive. The runs evaluate them. Beyond that three hypotheses occur, each stated in its theorem: `~InterruptedWrites` and
`Tracked`, each shown to be needed by a run, and `"disabled" \notin InitialBreakers` for the refinement of `SecretService`,
since a disabled breaker hands on what Kong mixed up.

### The breakers: `CacheCircuitBreakerProofs`, `TelemetryProofs`

1. `BreakerInvariant`: `BreakerInv = TypeOK /\ ClosedBelowThreshold /\ ProbesOnlyWhileHalfOpen` is
   inductive as it stands; one step per operation. `TypesAndBounds` adds the history.
2. `HistoryInvariant`: the counters agree with the history, `failureCount = failureRun`; while half-open
   `halfOpenSuccesses = probeRun`; while open the last failure is no earlier than the trip
   (`failureAge <= openFor`). This is the strengthening the decisions need: none of them follows from
   `BreakerInv`, which knows nothing of the past.
3. `ClosingNeedsFreshEvidence`, `TrippingNeedsConsecutiveFailures`: the two action properties.
4. `Refinement`: `SpecH => Abstract!Spec`. Only the probe needs the invariant: the code waits
   from the last failure, the abstract breaker from the trip.
5. `ExportBreakerInvariant` and `TelemetryBreakerRefinement`: the telemetry breaker, too, implements
   `CircuitBreaker`. Its two recoveries, by demand and by timer, both wait from the last failure and need that
   an open breaker's last failure is no earlier than its trip.
6. `StableLabels`, for any limit and finite set of consumers: a consumer labelled by its own id is in the table, and
   one labelled by a bucket was not, with the table full; since a full table takes nobody in, no consumer can
   have both. The bound on labels follows from the cardinality of the table.

### The Redis client: `SharedRedisCacheProofs`

`BreakerIsUsedAsSpecified`: whatever operations, attempts and pings do, the breaker's variables follow
`CacheCircuitBreaker!Spec`. Each action of the client is one call of a method of the breaker, or none; so what
is proved of the breaker holds inside the client (`ClosedBreakerIsBelowThreshold`).

`ReconnectInvariant`, for any operations, attempts and intervals, is the reason for the other three
theorems: an attempt under way belongs to the operation the promise names, there is no second one, no operation
goes on with a client that is gone, and whoever waits, waits for an attempt that runs. `OneReconnectAtATime` alone is not
inductive: `disconnect()` clears the promise under a running attempt, so the invariant has to
say what is left when it does (`PromiseIsTheAttempt`, `NothingWithoutClient`).

`SharedAttemptIsImplemented`, from that invariant: every step of the cache is one of `SharedAttempt` or a stutter. A call
that finds the connection broken starts or joins, and may start only because nobody runs an attempt; the end of
an attempt tells all who wait (`SettleOfTheAttempt` uses that they all wait for this one); a caller that was told
goes on, or calls again, in a step of its own. Breaker, pings, the attempt's stages and `disconnect()` stutter.

### Secrets: `ConsumerSecretsProofs`

For any number of requests, consumers, versions and for all lifetimes and limits:

1. `TypesInvariant`: `Types /\ RepliesMatch`. Types alone are not inductive, as storing a reply uses that it is one.
2. `OwnersInvariant`, hence `EveryoneGetsTheirOwn`: replies are compared with the question before they are
   stored, caches are filled and read by the consumer's key, also by actions whose caller is gone. Of caches this holds in any case, of
   answers behind a breaker that is enabled.
3. `MapsKeepToTheirLimits`: eviction before insertion keeps both maps within their limits, with the cardinalities of
   finite domains.
4. `RecencyInvariant`, hence `GivenSecretsAreRecent` and `RotationsTakeEffect`: a secret held by a copy of age `a`
   was replaced at most `a + 1` ticks ago, a reply under way at most as long ago as it was asked for. So no chain
   of stores, refills and fallbacks prolongs the life of a replaced secret. Hypothesis: `~InterruptedWrites`;
   the run `InterruptedSet` shows the rotation that fails without it.
5. `NothingIsMadeUp`: what caches, replies and answers hold was issued (`OnlyIssued`). Neither owners nor ages say that: an
   unknown version has no age.
6. `ServiceIsImplemented`, from 2, 4 and 5: every step is one of `SecretService` or a stutter. What answers a request
   comes from a copy or a reply (`SourcesAreOfTheService`), which is of the right owner, was issued, and is recent
   enough for `Give`; all other steps of a request leave it asked. Same hypothesis as 4, and an enabled breaker.

### The shutdown: `GracefulShutdownProofs`

`ShutdownInvariant` for all deadlines: the time since the signal is bounded by the deadlines of the steps so far
(`ClockInv`), states and steps agree (`SequenceInv`), and until the components are shut down the one connection is
the manager's backend (`ConnectionInv`). From the clocks alone `ForcedExitInterruptsOnlyCleanup`. With the hypothesis
`Tracked` (requests pass the middleware, as its documentation says), `DrainedMeansAnswered` and
`DrainedMeansDisconnected`: once the drain has succeeded nobody but a probe that bypasses the middleware is left who could open a
connection. The run `ShutdownCutsOff` shows
that without `Tracked`, which is how the server is wired, the first is false.

### The other components: `RedisProofs`, `CredentialCreationProofs`, `ServiceComponentsProofs`

- `CompleteClearIsComplete`, for any keys, parts, retries, iterations and batches. The invariant
  (`KeyspaceInvariant`) follows the cursor: an untouched key of a part that has been passed is collected, a
  complete scan has collected all, and batches take them away.
- `DrainIsFinal`: a drain has begun only if the tracker stopped accepting, so what is empty stays empty.
- `CredentialsExist`, for any number of creators, keys and attempts. The strengthening (`CreationKeepsInv`) is about
  calls under way: one that is about to store a key has one that Kong holds, and Kong takes none of the
  consumer's away. `CallGoesOn` states once what a step of any call must satisfy.
- `HealthIsRecent`: a result was true when its check began, and both results and checks know their age
  (`HealthInv`); the order in which overlapping checks store theirs does not matter.
- `ScrapesAreCurrent` (`MetricsInv`), for collections of any length: while the memo lives, it is what the last collection to
  end found and no other is under way; whoever is handed a result is answered before another collection ends; and a remembered
  statistic shows a breaker as it is unless that was removed after it was collected.
- `VerdictsAreTrue` (`TokensInv`): every token in use was made in the past by a clock ahead by at most the skew,
  so the last verdict agrees with the token's true age within the skew.
- `OneCache` (`ManagerInv`): the factory makes a manager only while it has made none; until a shutdown that manager has
  one run of the initialization, which makes the first backend, and once it has a backend nobody starts another run.
- `AutomaticProfilesAreThrottled` (`ThrottleInv`), an action property: the throttle of an endpoint is no older than its last
  automatic profile, and only what was asked for by hand is ever queued, so no automatic profile starts later
  than its throttle.
- `NobodyIsMisled`, from `DocumentInv` (a client's copy came without an ETag or with that of its own format and version, so
  an ETag that matches the current one is that of the current document in the format asked for) and `ExchangesInv` (the last
  answer is that of the last request, so what is followed is what it said; `AnswersAgree` relates the three tables).
- `EveryComponentKeepsItsTypes`: `TypeOK` of all fifteen components, by `ComponentsInv`, the conjunction of
  their invariants. Most types are not inductive by themselves: an answer is a response only because the table of
  error codes is, a user's backend exists because runs only name backends that were made (`KnownInv`), the
  proxy agrees with the getters because both are filled from `Current`, and a hash bucket appears only with a full table.

### Model-checked only

- Liveness: `RecoversWhenFailuresStop`, `EveryCallReturns`, `RecoversWithTheSocket`, `EveryRequestAnswered`,
  `BreakerRecovers`, `EverySignalEndsTheProcess`, `MeasurementEnds`. They rest on fairness, which means ENABLED, which TLAPS does
  not reason about.
- The five expected violations, and `SettingsTakeEffect` with them: they are counterexamples.

Every invariant, every action property and every refinement that a passing run checks is a theorem.

## Not modelled

Formatting, logging, metric recording, tracing, cryptography and the text of documents: no
state a property is about. The connection state manager has no caller in the running server. What a
component marked `partly` leaves out is in its note in `PROJECT.json`: mainly `connect()` of the Redis client itself, the
health monitor's own status, the local cache's stale map, the reports that only read, and the
OpenTelemetry SDK.

## Plan

1. Done: the Redis breaker with its abstraction and proofs; the Redis client; consumer secrets; shutdown.
2. Done: profiling, tokens, health, metrics, routing, cache manager, keyspace, operation tracker, credential creation,
   telemetry, labels and configuration.
3. Done: a theorem for every invariant, action property and refinement the passing runs check.
4. Done: an abstract secret service refined by `ConsumerSecrets`, an abstract reconnection refined by
   `SharedRedisCache`.
5. Left: the local cache with its stale map; the health monitor's status; the liveness properties, once the
   prover reasons about fairness.
