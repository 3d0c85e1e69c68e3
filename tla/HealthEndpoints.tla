---------------------------- MODULE HealthEndpoints ----------------------------
(***************************************************************************)
(* GET /health and GET /health/ready, and the cached check of the cache    *)
(* they rest on.                                                           *)
(*                                                                         *)
(*   src/handlers/health.ts               handleHealthCheck, handleReadinessCheck *)
(*   src/handlers/health-status.ts        determineHealthStatus            *)
(*   src/services/cache-health.service.ts CacheHealthService               *)
(*                                                                         *)
(* Probes run concurrently and share the last result of the cache check,   *)
(* which is dated by the start of its check and stored at its end.  Kong,  *)
(* Redis, the OTLP endpoints and the server's lifecycle change meanwhile.  *)
(* /health/telemetry and /health/metrics only read and always answer 200.  *)
(***************************************************************************)
EXTENDS Naturals

CONSTANTS
    Probes,             \* requests for /health or /health/ready
    CacheTTL            \* CACHE_TTL_MS, in ticks

VARIABLES
    redisBackend,       \* a Redis client exists: high availability, not in its
                        \* fallback to local memory
    redisAnswers,       \* Redis answers a PING within a second
    redisFor,           \* ticks since that last changed, saturated
    accepting,          \* lifecycleStateMachine.canAcceptRequests()
    lastHealthCheck,    \* the last result of the cache check
    lastCheckAge,       \* ticks since that check started, saturated
    probe,              \* [Probes -> the stage of the request]
    probeAnswer         \* [Probes -> the status of its answer, 0 before]

healthVars == <<redisBackend, redisAnswers, redisFor, accepting,
                lastHealthCheck, lastCheckAge, probe, probeAnswer>>

Idle == [stage |-> "idle"]
NoReply == 0

Init ==
    /\ redisBackend \in BOOLEAN
    /\ redisAnswers = TRUE
    /\ redisFor = CacheTTL
    /\ accepting = TRUE
    /\ lastHealthCheck = "none"
    /\ lastCheckAge = CacheTTL
    /\ probe = [p \in Probes |-> Idle]
    /\ probeAnswer = [p \in Probes |-> NoReply]

environment == <<redisBackend, redisAnswers, redisFor, accepting>>

Stage(p, record) == probe' = [probe EXCEPT ![p] = record]

Reply(p, status) ==
    /\ probeAnswer' = [probeAnswer EXCEPT ![p] = status]
    /\ Stage(p, Idle)

(***************************************************************************)
(* handleHealthCheck and checkCacheHealth                                  *)
(***************************************************************************)
\* Kong is asked first; what it answers, or that it does not, is used at the
\* end.  Then a result younger than the TTL is used, or a check starts (a
\* PING, if there is a client to ask).
HandleHealthCheck(p) ==
    /\ probe[p] = Idle
    /\ Stage(p, IF lastHealthCheck # "none" /\ lastCheckAge < CacheTTL
                THEN [stage |-> "checked", cache |-> lastHealthCheck]
                ELSE [stage |-> "pinging", age |-> 0])
    /\ probeAnswer' = [probeAnswer EXCEPT ![p] = NoReply]
    /\ UNCHANGED <<lastHealthCheck, lastCheckAge, environment>>

\* Without a client the check says healthy; a PING that failed a moment ago
\* may still be waiting for its timeout when Redis is back.
Observed(cache) ==
    \/ cache = "healthy" /\ (~redisBackend \/ redisAnswers)
    \/ cache = "unhealthy" /\ redisBackend /\ (~redisAnswers \/ redisFor = 0)

PingAnswered(p, cache) ==
    /\ probe[p].stage = "pinging"
    /\ Observed(cache)
    /\ Stage(p, [stage |-> "asking", cache |-> cache, age |-> probe[p].age])
    /\ UNCHANGED <<lastHealthCheck, lastCheckAge, probeAnswer, environment>>

\* Mutant: dated by its end.
CheckEndsNow(p) ==
    /\ probe[p].stage = "asking"
    /\ lastHealthCheck' = probe[p].cache
    /\ lastCheckAge' = 0
    /\ Stage(p, [stage |-> "checked", cache |-> probe[p].cache])
    /\ UNCHANGED <<probeAnswer, environment>>

\* After getServerType(), for which a healthy check waits without a
\* timeout, the result is stored with the time its check started.
CheckEnds(p) ==
    /\ probe[p].stage = "asking"
    /\ lastHealthCheck' = probe[p].cache
    /\ lastCheckAge' = probe[p].age
    /\ Stage(p, [stage |-> "checked", cache |-> probe[p].cache])
    /\ UNCHANGED <<probeAnswer, environment>>

\* determineHealthStatus: only a dead cache without a stale copy is 503.
DetermineHealthStatus(kong, cache, staleAvailable, telemetry) ==
    IF cache = "unhealthy" /\ ~staleAvailable THEN "unhealthy"
    ELSE IF kong /\ cache = "healthy" /\ telemetry THEN "healthy"
    ELSE "degraded"

\* The stale cache counts as available in both modes: without Redis by
\* definition, with Redis because getStale() returns null, never an error.
StaleCacheAvailable == TRUE

\* Statistics, stale probe and OTLP checks; any exception is a 500.
HealthAnswered(p, kong, telemetry) ==
    /\ probe[p].stage = "checked"
    /\ LET health == DetermineHealthStatus(kong, probe[p].cache, StaleCacheAvailable,
                                           telemetry)
       IN  Reply(p, IF health = "unhealthy" THEN 503 ELSE 200)
    /\ UNCHANGED <<lastHealthCheck, lastCheckAge, environment>>

HealthFails(p) ==
    /\ probe[p].stage = "checked"
    /\ Reply(p, 500)
    /\ UNCHANGED <<lastHealthCheck, lastCheckAge, environment>>

(***************************************************************************)
(* handleReadinessCheck                                                    *)
(***************************************************************************)
HandleReadinessCheck(p) ==
    /\ probe[p] = Idle
    /\ IF accepting
       THEN /\ Stage(p, [stage |-> "readying"])
            /\ probeAnswer' = [probeAnswer EXCEPT ![p] = NoReply]
       ELSE Reply(p, 503)
    /\ UNCHANGED <<lastHealthCheck, lastCheckAge, environment>>

\* isHealthy() of the backend is whether getStats() returns, and it always
\* does: it answers an error with empty statistics.
IsHealthy == TRUE

ReadinessAnswered(p, kong) ==
    /\ probe[p].stage = "readying"
    /\ Reply(p, IF kong /\ IsHealthy THEN 200 ELSE 503)
    /\ UNCHANGED <<lastHealthCheck, lastCheckAge, environment>>

(***************************************************************************)
(* The environment                                                         *)
(***************************************************************************)
RedisChanges ==
    /\ redisAnswers' = ~redisAnswers
    /\ redisFor' = 0
    /\ UNCHANGED <<redisBackend, accepting, lastHealthCheck, lastCheckAge, probe,
                   probeAnswer>>

LeaveReady ==
    /\ accepting
    /\ accepting' = FALSE
    /\ UNCHANGED <<redisBackend, redisAnswers, redisFor, lastHealthCheck, lastCheckAge,
                   probe, probeAnswer>>

Older(age) == IF age < CacheTTL THEN age + 1 ELSE CacheTTL

Tick ==
    /\ redisFor' = Older(redisFor)
    /\ lastCheckAge' = Older(lastCheckAge)
    /\ probe' = [p \in Probes |-> IF probe[p].stage \in {"pinging", "asking"}
                                  THEN [probe[p] EXCEPT !.age = Older(@)] ELSE probe[p]]
    /\ UNCHANGED <<redisBackend, redisAnswers, accepting, lastHealthCheck, probeAnswer>>

Next ==
    \/ \E p \in Probes :
           \/ HandleHealthCheck(p)
           \/ \E cache \in {"healthy", "unhealthy"} : PingAnswered(p, cache)
           \/ CheckEnds(p)
           \/ \E kong, telemetry \in BOOLEAN : HealthAnswered(p, kong, telemetry)
           \/ HealthFails(p)
           \/ HandleReadinessCheck(p)
           \/ \E kong \in BOOLEAN : ReadinessAnswered(p, kong)
    \/ RedisChanges
    \/ LeaveReady
    \/ Tick

Spec == Init /\ [][Next]_healthVars

(***************************************************************************)
(* Properties                                                              *)
(***************************************************************************)
\* Types and bounds; an answer has one of the statuses the handlers use.
TypeOK ==
    /\ {redisBackend, redisAnswers, accepting} \subseteq BOOLEAN
    /\ redisFor \in 0..CacheTTL /\ lastCheckAge \in 0..CacheTTL
    /\ lastHealthCheck \in {"none", "healthy", "unhealthy"}
    /\ \A p \in Probes :
          /\ probe[p].stage \in {"idle", "pinging", "asking", "checked", "readying"}
          /\ probeAnswer[p] \in {0, 200, 500, 503}

\* A result that can still be served to a probe was true of Redis less
\* than CACHE_TTL_MS ago, also when a slow check ended after a later one.
HealthResultIsRecent ==
    redisBackend /\ lastHealthCheck # "none" /\ lastCheckAge < CacheTTL =>
        \/ redisFor < CacheTTL
        \/ lastHealthCheck = IF redisAnswers THEN "healthy" ELSE "unhealthy"
=============================================================================
